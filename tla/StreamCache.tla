---------------------------- MODULE StreamCache ----------------------------
(***************************************************************************)
(* The stream cache of the player process (src/mplayer/stream/cache2.c):   *)
(* a ring of bytes that a filler process writes ahead of the reader, the   *)
(* demuxer.  The two share the fields of cache_vars_t and take no lock.    *)
(*                                                                         *)
(* A step makes at most one access to what the other side writes, in the   *)
(* order of the code.  A byte of the file is named by its position; NoByte *)
(* is a slot that was never written.  The positions of a process that its  *)
(* peer never writes may be read together with another access.             *)
(***************************************************************************)
EXTENDS Integers, Sequences

CONSTANTS
  CacheSize,     \* the bytes asked for: size of stream_enable_cache
  SectorSize,    \* bytes that one call of the reader fetches: sector_size
  FillSectors,   \* the 8 of cache_init: the filler writes that much at least
  ReadChunk,     \* the most bytes of one read of the stream: read_chunk
  PrefillAsked,  \* min of stream_enable_cache
  SeekAsked,     \* seek_limit of stream_enable_cache
  FileSize,      \* bytes of the file
  MaxEvents      \* bound: seeks, controls and faults of one behaviour

ASSUME CacheAssumption ==
  /\ {CacheSize, PrefillAsked, SeekAsked, FileSize, MaxEvents} \subseteq Nat
  /\ {SectorSize, FillSectors, ReadChunk} \subseteq Nat \ {0}

VARIABLES
  \* cache_vars_t, shared by the two processes
  buffer,        \* the ring: slot -> byte of the file
  eof,           \* the filler found the end, or the reader was interrupted
  min_filepos,   \* first position that the ring holds
  max_filepos,   \* position after the last that the ring holds
  offset,        \* position of the byte in slot 0
  read_filepos,  \* position that the reader wants next
  control,       \* the command that the filler is to run, or "none"
  control_res,   \* whether the last command succeeded
  \* the filler: the forked process
  fpc,           \* where it is in cache_mainloop
  plan,          \* its local variables
  streamPos,     \* s->stream->pos: where its next read of the file begins
  \* the reader: the player's demuxer
  rpc,           \* where it is
  size,          \* bytes that cache_read still has to copy
  newb, index,   \* its local variables newb and pos
  out,           \* bytes that cache_read has copied
  pos,           \* stream->pos of the player's copy of the stream
  buf,           \* stream->buffer up to buf_len
  ended,         \* stream->eof
  \* history
  events,        \* seeks, controls and faults so far
  faults         \* what happened that the cache may not survive

shared == <<buffer, eof, min_filepos, max_filepos, offset, read_filepos,
            control, control_res>>
filler == <<fpc, plan, streamPos>>
stream == <<pos, buf, ended>>
copying == <<size, newb, index, out>>
history == <<events, faults>>
vars == <<shared, filler, rpc, copying, stream, history>>

---------------------------------------------------------------------------
(* Sizes: cache_init and stream_enable_cache *)

NoByte == -1
Least(a, b) == IF a < b THEN a ELSE b
Most(a, b) == IF a < b THEN b ELSE a

\* Variant: without the minimum.
BufferSectorsAsAsked == CacheSize \div SectorSize

\* At least 16 sectors, twice the 8 of the fill limit.
BufferSectors == Most(CacheSize \div SectorSize, 2 * FillSectors)
BufferSize == BufferSectors * SectorSize
FillLimit == FillSectors * SectorSize
BackSize == BufferSize \div 2
SeekLimit == Least(SeekAsked, BufferSize - FillLimit)
PrefillMin == Most(Least(PrefillAsked, BufferSize - FillLimit), 1)

Slots == 0..(BufferSize - 1)
Positions == 0..FileSize
Sectors == {p \in Positions : p % SectorSize = 0}
Commands == {"seek", "query"}
FaultKinds == {"backward", "interrupted", "abandoned", "unmoved"}

\* The locals of cache_fill before it is entered and after it returns.
Plans == [read : Nat, base : Int, slot : Int, space : Int, len : Int]
NoPlan == [read |-> 0, base |-> 0, slot |-> 0, space |-> 0, len |-> 0]

Init ==
  /\ buffer = [i \in Slots |-> NoByte]
  /\ eof = FALSE
  /\ min_filepos = 0 /\ max_filepos = 0 /\ offset = 0 /\ read_filepos = 0
  /\ control = "none" /\ control_res = FALSE
  /\ fpc = "fill"
  /\ plan = NoPlan
  /\ streamPos = 0
  /\ rpc = "prefill"
  /\ size = 0 /\ newb = 0 /\ index = 0 /\ out = <<>>
  /\ pos = 0 /\ buf = <<>> /\ ended = FALSE
  /\ events = 0 /\ faults = {}

Spend(kinds) ==
  /\ events < MaxEvents
  /\ events' = events + 1
  /\ faults' = faults \cup kinds

---------------------------------------------------------------------------
(* The filler: cache_fill, then cache_execute_control, for ever *)

\* Behind the ring, or so far ahead that filling up to it takes too long.
OutOfReach(p) ==
  \/ p < min_filepos
  \/ p > max_filepos /\ p >= max_filepos + SeekLimit

\* cache_fill takes the reader's position once, and goes by it to its end.
Snapshot ==
  /\ fpc = "fill"
  /\ plan' = [plan EXCEPT !.read = read_filepos]
  /\ fpc' = IF OutOfReach(read_filepos) THEN "flush" ELSE "plan"
  /\ UNCHANGED <<shared, streamPos, rpc, copying, stream, history>>

\* cache_flush takes the position again.  The stores go from right to left.
Flush(from, to) ==
  /\ fpc = from
  /\ plan' = [plan EXCEPT !.base = read_filepos]
  /\ max_filepos' = read_filepos
  /\ fpc' = to
  /\ UNCHANGED <<buffer, eof, min_filepos, offset, read_filepos, control, control_res,
                 streamPos, rpc, copying, stream, history>>

\* The window is empty between these two stores, so that they are one step.
FlushRest(from, to) ==
  /\ fpc = from
  /\ min_filepos' = plan.base
  /\ offset' = plan.base
  /\ fpc' = to
  /\ UNCHANGED <<buffer, eof, max_filepos, read_filepos, control, control_res,
                 plan, streamPos, rpc, copying, stream, history>>

DropContents == Flush("flush", "flushRest") \/ FlushRest("flushRest", "move")

\* stream_seek_internal to the position taken first.  Its result is not used:
\* a stream that cannot move stays where it is.
MoveStream ==
  /\ fpc = "move"
  /\ \/ streamPos' = plan.read /\ UNCHANGED history
     \/ plan.read # streamPos /\ UNCHANGED streamPos /\ Spend({"unmoved"})
  /\ fpc' = "plan"
  /\ UNCHANGED <<shared, plan, rpc, copying, stream>>

\* How much of the ring is needed, where the free part begins, how much of it
\* one read may take.
Back == Least(Most(plan.read - min_filepos, 0), BackSize)
\* Variant: bytes not yet read count as free.
NewBytesForgotten == 0

NewBytes == Most(max_filepos - plan.read, 0)
Free == BufferSize - (NewBytes + Back)
WriteSlot == LET p == max_filepos - offset IN IF p >= BufferSize THEN p - BufferSize ELSE p
ToWrap == BufferSize - WriteSlot
Space == Least(IF Free <= ToWrap THEN Free ELSE IF ToWrap >= SectorSize THEN ToWrap ELSE SectorSize,
               ReadChunk)

\* Variant: the bytes that are about to be written are not counted.
KeepFromTooLate == plan.read - (BufferSize - NewBytes)

KeepFrom == plan.read - (BufferSize - (Space + NewBytes))

\* The oldest bytes are given up before they are written over.
Reserve ==
  /\ fpc = "plan"
  /\ \/ /\ Free < FillLimit
        /\ fpc' = "control"
        /\ plan' = NoPlan
        /\ UNCHANGED min_filepos
     \/ /\ Free >= FillLimit
        /\ plan' = [plan EXCEPT !.slot = WriteSlot, !.space = Space]
        /\ min_filepos' = Most(min_filepos, KeepFrom)
        /\ fpc' = "read"
  /\ UNCHANGED <<buffer, eof, max_filepos, offset, read_filepos, control, control_res,
                 streamPos, rpc, copying, stream, history>>

\* Variant: without the copy that wraps round.
WrittenPastTheEnd(slot, len) ==
  [i \in Slots \cup slot..(slot + len - 1) |->
     IF i \in slot..(slot + len - 1) THEN streamPos + i - slot ELSE buffer[i]]

\* The ring with len bytes of the file written from a slot on, wrapping round.
Written(slot, len) ==
  [i \in Slots |->
     IF i \in slot..(slot + len - 1) THEN streamPos + i - slot
     ELSE IF i + BufferSize \in slot..(slot + len - 1) THEN streamPos + i + BufferSize - slot
     ELSE buffer[i]]

\* stream_read_internal: some bytes, or none at the end of the file.
ReadStream ==
  /\ fpc = "read"
  /\ \E len \in 0..Least(plan.space, Most(FileSize - streamPos, 0)) :
       /\ len = 0 => streamPos >= FileSize
       /\ buffer' = Written(plan.slot, len)
       /\ streamPos' = streamPos + len
       /\ plan' = [plan EXCEPT !.len = len]
  /\ fpc' = "eof"
  /\ UNCHANGED <<eof, min_filepos, max_filepos, offset, read_filepos, control, control_res,
                 rpc, copying, stream, history>>

SetEof ==
  /\ fpc = "eof"
  /\ eof' = (plan.len = 0)
  /\ fpc' = "grow"
  /\ UNCHANGED <<buffer, min_filepos, max_filepos, offset, read_filepos, control, control_res,
                 plan, streamPos, rpc, copying, stream, history>>

Grow ==
  /\ fpc = "grow"
  /\ max_filepos' = max_filepos + plan.len
  /\ fpc' = "wrap"
  /\ UNCHANGED <<buffer, eof, min_filepos, offset, read_filepos, control, control_res,
                 plan, streamPos, rpc, copying, stream, history>>

\* For a moment max_filepos belongs to the next turn of the ring and offset
\* to the last: the reader's index has to be right for both.
Wrap ==
  /\ fpc = "wrap"
  /\ offset' = IF plan.slot + plan.len >= BufferSize THEN offset + BufferSize ELSE offset
  /\ plan' = NoPlan
  /\ fpc' = "control"
  /\ UNCHANGED <<buffer, eof, min_filepos, max_filepos, read_filepos, control, control_res,
                 streamPos, rpc, copying, stream, history>>

\* cache_execute_control: a command that moves the stream takes the reader
\* and the ring along.  A command may fail.
ExecuteControl ==
  /\ fpc = "control"
  /\ \/ /\ control = "none"
        /\ fpc' = "fill"
        /\ UNCHANGED <<read_filepos, eof, control_res, streamPos>>
     \/ /\ control # "none"
        /\ control_res' = FALSE
        /\ fpc' = "answer"
        /\ UNCHANGED <<read_filepos, eof, streamPos>>
     \/ /\ control = "query"
        /\ control_res' = TRUE
        /\ fpc' = "answer"
        /\ UNCHANGED <<read_filepos, eof, streamPos>>
     \/ /\ control = "seek"
        /\ control_res' = TRUE
        /\ streamPos' \in Sectors
        /\ read_filepos' = streamPos'
        /\ eof' = FALSE
        /\ fpc' = "flushControl"
  /\ UNCHANGED <<buffer, min_filepos, max_filepos, offset, control, plan,
                 rpc, copying, stream, history>>

FlushForControl == Flush("flushControl", "flushControlRest") \/ FlushRest("flushControlRest", "answer")

Answer ==
  /\ fpc = "answer"
  /\ control' = "none"
  /\ plan' = NoPlan
  /\ fpc' = "fill"
  /\ UNCHANGED <<buffer, eof, min_filepos, max_filepos, offset, read_filepos, control_res,
                 streamPos, rpc, copying, stream, history>>

Filler ==
  \/ Snapshot \/ DropContents \/ MoveStream \/ Reserve \/ ReadStream \/ SetEof \/ Grow \/ Wrap
  \/ ExecuteControl \/ FlushForControl \/ Answer

---------------------------------------------------------------------------
(* The reader *)

\* Variant: a short piece counts as a whole sector.
EndFetchWhole(piece) ==
  /\ buf' = piece
  /\ ended' = (piece = <<>>)
  /\ pos' = pos + SectorSize
  /\ out' = <<>>
  /\ size' = 0 /\ newb' = 0 /\ index' = 0
  /\ rpc' = "idle"

\* cache_stream_fill_buffer ends: an empty piece is the end of the stream.
EndFetch(piece) ==
  /\ buf' = piece
  /\ ended' = (piece = <<>>)
  /\ pos' = pos + Len(piece)
  /\ out' = <<>>
  /\ size' = 0 /\ newb' = 0 /\ index' = 0
  /\ rpc' = "idle"

\* The wait of stream_enable_cache, which an interrupt makes fail.
Starved == read_filepos >= max_filepos \/ read_filepos < min_filepos
Prefilled == read_filepos >= min_filepos /\ max_filepos - read_filepos >= PrefillMin

PrefillEnds ==
  /\ rpc = "prefill"
  /\ Prefilled \/ eof
  /\ rpc' = "idle"
  /\ UNCHANGED <<shared, filler, copying, stream, history>>

\* cache_uninit kills the filler wherever it is.
Uninit ==
  /\ rpc \in {"prefill", "idle"}
  /\ rpc' = "closed"
  /\ fpc' = "dead"
  /\ UNCHANGED <<shared, plan, streamPos, copying, stream, history>>

\* cache_stream_fill_buffer enters cache_read.
EnterRead ==
  /\ size' = SectorSize
  /\ rpc' = "checkMax"
  /\ UNCHANGED <<newb, index, out>>

Fetch ==
  /\ rpc = "idle"
  /\ EnterRead
  /\ UNCHANGED <<shared, filler, stream, history>>

\* cache_stream_seek_long: the position, then eof, then a fetch.
SeekLong ==
  /\ rpc = "idle"
  /\ \E p \in Sectors :
       /\ read_filepos' = p
       /\ pos' = p
       /\ Spend(IF p < read_filepos THEN {"backward"} ELSE {})
  /\ rpc' = "clearEof"
  /\ UNCHANGED <<buffer, eof, min_filepos, max_filepos, offset, control, control_res,
                 filler, copying, buf, ended>>

ClearEof ==
  /\ rpc = "clearEof"
  /\ eof' = FALSE
  /\ EnterRead
  /\ UNCHANGED <<buffer, min_filepos, max_filepos, offset, read_filepos, control, control_res,
                 filler, stream, history>>

\* The two comparisons of cache_read, each with its own access.
CheckMax ==
  /\ rpc = "checkMax"
  /\ rpc' = IF read_filepos >= max_filepos THEN "starved" ELSE "checkMin"
  /\ UNCHANGED <<shared, filler, copying, stream, history>>

CheckMin ==
  /\ rpc = "checkMin"
  /\ rpc' = IF read_filepos < min_filepos THEN "starved" ELSE "measure"
  /\ UNCHANGED <<shared, filler, copying, stream, history>>

\* Nothing to read: the end, or another round.
SeeEof ==
  /\ rpc = "starved"
  /\ eof
  /\ EndFetch(out)
  /\ UNCHANGED <<shared, filler, history>>

TryAgain ==
  /\ rpc = "starved"
  /\ ~eof
  /\ rpc' = "checkMax"
  /\ UNCHANGED <<shared, filler, copying, stream, history>>

\* stream_check_interrupt says that a command of the user waits.
Interrupt ==
  /\ rpc = "starved"
  /\ ~eof
  /\ Spend({"interrupted"})
  /\ eof' = TRUE
  /\ EndFetch(out)
  /\ UNCHANGED <<buffer, min_filepos, max_filepos, offset, read_filepos, control, control_res,
                 filler>>

Measure ==
  /\ rpc = "measure"
  /\ newb' = max_filepos - read_filepos
  /\ rpc' = "index"
  /\ UNCHANGED <<shared, filler, size, index, out, stream, history>>

\* Variant: right only before the offset moves to the next turn.
ReadSlotOneSided ==
  LET p == read_filepos - offset IN IF p >= BufferSize THEN p - BufferSize ELSE p

\* The position's place in the ring, for an offset of this turn or the next.
ReadSlot ==
  LET p == read_filepos - offset
  IN  IF p < 0 THEN p + BufferSize ELSE IF p >= BufferSize THEN p - BufferSize ELSE p

Index ==
  /\ rpc = "index"
  /\ index' = ReadSlot
  /\ newb' = Least(Least(newb, BufferSize - ReadSlot), size)
  /\ rpc' = "copy"
  /\ UNCHANGED <<shared, filler, size, out, stream, history>>

InRing == 0 <= newb /\ 0 <= index /\ index + newb <= BufferSize

Copy ==
  /\ rpc = "copy"
  /\ InRing
  /\ out' = out \o [i \in 1..newb |-> buffer[index + i - 1]]
  /\ rpc' = "advance"
  /\ UNCHANGED <<shared, filler, size, newb, index, stream, history>>

\* A copy from outside of the ring ends the process.
Fault ==
  /\ rpc = "copy"
  /\ ~InRing
  /\ rpc' = "fault"
  /\ UNCHANGED <<shared, filler, copying, stream, history>>

Advance ==
  /\ rpc = "advance"
  /\ read_filepos' = read_filepos + newb
  /\ IF size = newb
     THEN EndFetch(out)
     ELSE /\ size' = size - newb /\ newb' = 0 /\ index' = 0
          /\ rpc' = "checkMax"
          /\ UNCHANGED <<out, stream>>
  /\ UNCHANGED <<buffer, eof, min_filepos, max_filepos, offset, control, control_res,
                 filler, history>>

\* cache_do_control: asks, and waits until the filler has taken the command away.
Ask ==
  /\ rpc = "idle"
  /\ control' \in Commands
  /\ Spend({})
  /\ rpc' = IF control' = "seek" THEN "askedSeek" ELSE "askedQuery"
  /\ UNCHANGED <<buffer, eof, min_filepos, max_filepos, offset, read_filepos, control_res,
                 filler, copying, stream>>

\* Variant: the player's stream keeps its position.
AnsweredOnly ==
  /\ rpc \in {"askedSeek", "askedQuery"}
  /\ control = "none"
  /\ rpc' = "idle"
  /\ UNCHANGED <<shared, filler, copying, stream, history>>

Answered ==
  /\ rpc \in {"askedSeek", "askedQuery"}
  /\ control = "none"
  /\ IF rpc = "askedSeek" /\ control_res
     THEN pos' = read_filepos /\ ended' = eof
     ELSE UNCHANGED <<pos, ended>>
  /\ rpc' = "idle"
  /\ UNCHANGED <<shared, filler, copying, buf, history>>

\* Interrupted: the command stays behind and is run later.
Abandon ==
  /\ rpc \in {"askedSeek", "askedQuery"}
  /\ control # "none"
  /\ Spend({"abandoned"})
  /\ eof' = TRUE
  /\ rpc' = "idle"
  /\ UNCHANGED <<buffer, min_filepos, max_filepos, offset, read_filepos, control, control_res,
                 filler, copying, stream>>

Served ==
  \/ PrefillEnds \/ ClearEof \/ CheckMax \/ CheckMin \/ SeeEof \/ TryAgain
  \/ Measure \/ Index \/ Copy \/ Fault \/ Advance \/ Answered

Reader ==
  \/ Served
  \/ Uninit \/ Fetch \/ SeekLong \/ Ask \/ Interrupt \/ Abandon

Next == Filler \/ Reader

Spec == Init /\ [][Next]_vars

\* Both processes run.  The demuxer need not fetch and nobody need interrupt.
FairSpec == Spec /\ WF_vars(Filler) /\ WF_vars(Served)

---------------------------------------------------------------------------
(* Properties *)

\* Every field keeps its type (cache_vars_t and the locals of both processes).
Flags == eof \in BOOLEAN /\ control_res \in BOOLEAN /\ ended \in BOOLEAN
TypeOK ==
  /\ Flags
  /\ buffer \in [Slots -> Int]
  /\ min_filepos \in Int /\ max_filepos \in Int /\ offset \in Int /\ read_filepos \in Nat
  /\ control \in Commands \cup {"none"}
  /\ fpc \in {"fill", "flush", "flushRest", "move", "plan", "read", "eof", "grow", "wrap",
             "control", "flushControl", "flushControlRest", "answer", "dead"}
  /\ plan \in Plans
  /\ streamPos \in Nat
  /\ rpc \in {"prefill", "idle", "clearEof", "checkMax", "checkMin", "starved", "measure", "index",
             "copy", "advance", "askedSeek", "askedQuery", "fault", "closed"}
  /\ size \in Int /\ newb \in Int /\ index \in Int
  /\ out \in Seq(Int) /\ buf \in Seq(Int) /\ pos \in Nat
  /\ events \in Nat /\ faults \subseteq FaultKinds

\* The ring never claims more bytes than it has slots (line 239, "back+newb+space
\* <= buffer_size"), nor does the filler write over what it claims.  In the middle
\* of a flush the claim is void.
Flushing == fpc \in {"flushRest", "flushControlRest"}
WindowFits ==
  /\ ~Flushing /\ fpc # "dead" => max_filepos - min_filepos <= BufferSize
  /\ fpc \in {"read", "eof", "grow"} => max_filepos + plan.space - min_filepos <= BufferSize

\* cache_read copies from inside of the ring whenever the filler flushes or wraps,
\* for a reader that goes forward and waits for its commands.
OnlyForward == faults \cap {"backward", "abandoned"} = {}
CopiesInRing == OnlyForward => (rpc = "copy" => InRing) /\ rpc # "fault"

\* The player's stream and the cache agree on the position when a fetch begins
\* (line 554: "read_filepos differs!!! report this bug"), unless the reader left
\* a command behind.
PosAgrees == rpc = "idle" /\ "abandoned" \notin faults => pos = read_filepos

\* What cache_read has copied is the file, from the stream's position on.
CopiesFile == faults = {} => \A i \in 1..Len(out) : out[i] = pos + i - 1

\* A fetch, a command and the wait for the first bytes come to an end.
AtRest == rpc \in {"idle", "closed", "fault"}
CallsReturn == ~AtRest ~> AtRest

\* The pieces that the demuxer gets are those of a byte stream.
Bytes == INSTANCE ByteStream WITH PieceSize <- SectorSize, trusted <- (faults = {})
StreamSpec == Bytes!Spec
===========================================================================
