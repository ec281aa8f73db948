-------------------------- MODULE StreamCacheFile --------------------------
(***************************************************************************)
(* Theorems about StreamCache as long as no seek goes back and nothing is  *)
(* interrupted, given up or fails: what cache_read copies is the file, and *)
(* the pieces that the demuxer gets are those of a byte stream.            *)
(***************************************************************************)
EXTENDS StreamCacheProofs, SequenceTheorems

\* The slot that is q bytes after slot 0, which may be of this turn of the ring,
\* the one before or the next; and the slot of a position of the window.
Turn(q) == IF q < 0 THEN q + BufferSize ELSE IF q >= BufferSize THEN q - BufferSize ELSE q
Place(p) == Turn(p - offset)

\* The position after the last that the ring holds, written but not yet claimed
\* ones included.
End == IF fpc \in {"eof", "grow"} THEN max_filepos + plan.len ELSE max_filepos

\* Each position of the window is in its slot.
Filed == ~Flushing /\ fpc # "dead" => \A p \in min_filepos .. (End - 1) : buffer[Place(p)] = p

\* The stream goes on where the window ends.  A position so far ahead that the
\* window is dropped for it is that of a reader that waits, so that both looks of
\* the filler see the same.
Follows ==
  /\ fpc \in {"fill", "plan", "read", "wrap", "control", "flushControlRest", "answer"} =>
       streamPos = max_filepos
  /\ fpc \in {"eof", "grow"} => streamPos = max_filepos + plan.len
  /\ fpc = "flushControl" => streamPos = read_filepos
  /\ fpc \in {"flushRest", "move"} => max_filepos = plan.read
  /\ fpc = "flush" => plan.read = read_filepos /\ max_filepos < read_filepos

Bounded == read_filepos <= FileSize /\ max_filepos <= FileSize /\ streamPos <= FileSize

\* The end is only said where the file ends.
AtEnd ==
  /\ eof => max_filepos >= FileSize
  /\ fpc = "flushControl" => ~eof
  /\ fpc = "eof" /\ plan.len = 0 => streamPos >= FileSize

\* A reader that does not wait for bytes is not beyond the window.
Supplied ==
  rpc \in {"prefill", "idle", "askedSeek", "askedQuery"} /\ fpc # "flushControl" =>
    read_filepos <= max_filepos

Filing == Filed /\ Follows /\ Bounded /\ AtEnd /\ Supplied

\* What has been copied is the file, and with what is left to copy a sector.
Copied ==
  /\ rpc = "copy" => index = Place(read_filepos)
  /\ rpc \in {"checkMax", "starved", "checkMin", "measure", "index", "copy"} =>
       Len(out) + size = SectorSize
  /\ rpc = "advance" => Len(out) + size = SectorSize + newb
  /\ \A i \in 1 .. Len(out) : out[i] = pos + i - 1

\* The inductive invariant.
Faithful == faults = {} => Filing /\ Copied

-----------------------------------------------------------------------------
(* Slots and positions                                                     *)

LEMMA TurnNext ==
  ASSUME NEW q \in Int, NEW k \in Nat, Turn(q) + k < BufferSize
  PROVE  Turn(q + k) = Turn(q) + k
BY Sizes DEF Turn

LEMMA TurnWraps ==
  ASSUME NEW q \in Int, 0 <= q, q < 2 * BufferSize
  PROVE  Turn(q - BufferSize) = Turn(q)
BY Sizes DEF Turn

LEMMA TurnInSlots ==
  ASSUME NEW q \in Int, 0 <= q + BufferSize, q < 2 * BufferSize
  PROVE  Turn(q) \in Slots
BY Sizes DEF Turn, Slots

\* What the filler writes leaves the slots before it alone, up to a turn back ...
LEMMA WrittenKeeps ==
  ASSUME NEW slot \in Slots, NEW len \in Nat, NEW q \in Int,
         slot + len <= q + BufferSize, q < slot
  PROVE  Written(slot, len)[Turn(q)] = buffer[Turn(q)]
<1>1. BufferSize \in Nat /\ slot \in Nat /\ slot < BufferSize
  BY Sizes DEF Slots
<1>2. Turn(q) \in Slots
  BY <1>1 DEF Turn, Slots
<1>3. Turn(q) \notin slot .. (slot + len - 1) /\ Turn(q) + BufferSize \notin slot .. (slot + len - 1)
  BY <1>1 DEF Turn
<1>4. QED
  BY <1>2, <1>3 DEF Written

\* ... and puts each byte of the file into the slot of its position.
LEMMA WrittenNew ==
  ASSUME NEW slot \in Slots, NEW len \in Nat, len <= BufferSize, NEW q \in Int,
         slot <= q, q < slot + len, streamPos \in Nat
  PROVE  Written(slot, len)[Turn(q)] = streamPos + q - slot
<1>1. BufferSize \in Nat /\ slot \in Nat /\ slot < BufferSize
  BY Sizes DEF Slots
<1>2. Turn(q) \in Slots
  BY <1>1 DEF Turn, Slots
<1>3. CASE q < BufferSize
  <2>1. Turn(q) = q /\ q \in slot .. (slot + len - 1)
    BY <1>1, <1>3 DEF Turn
  <2>2. QED
    BY <1>2, <2>1 DEF Written
<1>4. CASE q >= BufferSize
  <2>1. /\ Turn(q) = q - BufferSize /\ Turn(q) \notin slot .. (slot + len - 1)
        /\ Turn(q) + BufferSize = q /\ q \in slot .. (slot + len - 1)
    BY <1>1, <1>4 DEF Turn
  <2>2. Written(slot, len)[Turn(q)] = streamPos + Turn(q) + BufferSize - slot
    BY <1>2, <2>1 DEF Written
  <2>3. streamPos + (q - BufferSize) + BufferSize - slot = streamPos + q - slot
    BY <1>1
  <2>4. QED
    BY <2>1, <2>2, <2>3
<1>5. QED
  BY <1>1, <1>3, <1>4

LEMMA HeldTypes ==
  ASSUME Held
  PROVE  /\ read_filepos \in Nat /\ min_filepos \in Int /\ max_filepos \in Int /\ offset \in Int
         /\ streamPos \in Nat /\ pos \in Nat /\ plan \in Plans
         /\ plan.read \in Nat /\ plan.base \in Int /\ plan.slot \in Int
         /\ plan.space \in Int /\ plan.len \in Int
         /\ size \in Int /\ newb \in Int /\ index \in Int
         /\ Len(out) \in Nat /\ out \in Seq(Int)
         /\ control \in {"seek", "query", "none"}
BY PlanFields DEF Held, TypeOK, Commands

\* The window lies within a turn of the ring before or after slot 0.
LEMMA WindowTurns ==
  ASSUME Held, ~Flushing, fpc # "dead", NEW p \in Int, min_filepos <= p, p < End
  PROVE  0 <= (p - offset) + BufferSize /\ p - offset < 2 * BufferSize
<1>0. /\ min_filepos \in Int /\ max_filepos \in Int /\ offset \in Int /\ plan.len \in Int
      /\ plan.slot \in Int /\ plan.space \in Int /\ BufferSize \in Nat
  BY HeldTypes, Sizes
<1>1. max_filepos - min_filepos <= BufferSize
  BY DEF Held, WindowFits
<1>2. CASE fpc = "wrap"
  <2>1. /\ max_filepos = offset + plan.slot + plan.len /\ End = max_filepos
        /\ 0 <= plan.slot /\ plan.slot < BufferSize /\ 0 <= plan.len /\ plan.len <= plan.space
        /\ plan.space <= BufferSize
    BY <1>2 DEF Held, Ring, End
  <2>2. QED
    BY <1>0, <1>1, <2>1
<1>3. CASE fpc \in {"eof", "grow"}
  <2>1. /\ offset <= max_filepos /\ max_filepos < offset + BufferSize
        /\ End = max_filepos + plan.len /\ 0 <= plan.len /\ plan.len <= plan.space
        /\ plan.space <= BufferSize
    BY <1>3 DEF Held, Ring, End
  <2>2. QED
    BY <1>0, <1>1, <2>1
<1>4. CASE fpc \notin {"wrap", "eof", "grow"}
  <2>1. offset <= max_filepos /\ max_filepos < offset + BufferSize /\ End = max_filepos
    BY <1>4 DEF Held, Ring, End
  <2>2. QED
    BY <1>0, <1>1, <2>1
<1>5. QED
  BY <1>2, <1>3, <1>4

-----------------------------------------------------------------------------
(* The filler                                                              *)

\* The window stays filed as long as no step writes into it.
LEMMA FiledKept ==
  ASSUME Held, Filed, ~Flushing, fpc # "dead", UNCHANGED <<buffer, offset>>,
         min_filepos <= min_filepos', min_filepos' \in Int, End' = End
  PROVE  Filed'
<1>1. min_filepos \in Int /\ End \in Int
  BY HeldTypes DEF End
<1>2. ASSUME NEW p \in min_filepos' .. (End' - 1)
      PROVE  buffer'[Place(p)'] = p
  <2>1. p \in min_filepos .. (End - 1)
    BY <1>1
  <2>2. buffer[Place(p)] = p
    BY <2>1 DEF Filed
  <2>3. QED
    BY <2>2 DEF Place
<1>3. QED
  BY <1>2 DEF Filed

LEMMA FiledEmpty == ASSUME End' <= min_filepos', End' \in Int, min_filepos' \in Int PROVE Filed'
<1>1. \A first, after \in Int : after <= first => first .. (after - 1) = {}
  OBVIOUS
<1>2. min_filepos' .. (End' - 1) = {}
  BY <1>1
<1>3. QED
  BY <1>2, Zenon DEF Filed

LEMMA FiledFill ==
  ASSUME Held, Held', Filing, Filling, faults' = {}
  PROVE  Filed'
<1>0. /\ min_filepos \in Int /\ max_filepos \in Int /\ offset \in Int /\ streamPos \in Nat
      /\ plan \in Plans /\ min_filepos' \in Int /\ max_filepos' \in Int /\ BufferSize \in Nat
      /\ plan.len \in Int /\ plan.slot \in Int /\ plan.space \in Int /\ plan.read \in Nat
  BY HeldTypes, Sizes DEF Held, TypeOK
<1>1. CASE Snapshot \/ MoveStream \/ SetEof
  <2>1. /\ UNCHANGED <<buffer, offset, min_filepos, max_filepos>>
        /\ \/ fpc = "fill" /\ fpc' \in {"flush", "plan"}
           \/ fpc = "move" /\ fpc' = "plan"
           \/ fpc = "eof" /\ fpc' = "grow" /\ plan' = plan
    BY <1>1 DEF Snapshot, MoveStream, SetEof, shared
  <2>2. ~Flushing /\ fpc # "dead" /\ End' = End
    BY <2>1 DEF Flushing, End
  <2>3. QED
    BY <1>0, <2>1, <2>2, FiledKept DEF Filing
<1>2. CASE Flush("flush", "flushRest")
  BY <1>2 DEF Flush, Filed, Flushing
<1>3. CASE FlushRest("flushRest", "move")
  <2>1. /\ fpc = "flushRest" /\ fpc' = "move" /\ min_filepos' = plan.base
        /\ max_filepos' = max_filepos
    BY <1>3 DEF FlushRest
  <2>2. max_filepos = plan.base
    BY <2>1 DEF Held, Ring, Flushing
  <2>3. End' = min_filepos'
    BY <2>1, <2>2 DEF End
  <2>4. QED
    BY <1>0, <2>3, FiledEmpty
<1>4. CASE Reserve
  <2>1. /\ fpc = "plan" /\ fpc' \in {"control", "read"}
        /\ UNCHANGED <<buffer, offset, max_filepos>>
        /\ min_filepos' = min_filepos \/ min_filepos' = Most(min_filepos, KeepFrom)
    BY <1>4 DEF Reserve
  <2>2. KeepFrom \in Int
    BY <1>0, Sizes DEF KeepFrom, Space, NewBytes, Free, ToWrap, Back, WriteSlot, Least, Most
  <2>3. min_filepos <= min_filepos'
    BY <1>0, <2>1, <2>2 DEF Most
  <2>4. ~Flushing /\ fpc # "dead" /\ End' = End
    BY <2>1 DEF Flushing, End
  <2>5. QED
    BY <1>0, <2>1, <2>3, <2>4, FiledKept DEF Filing
<1>5. CASE ReadStream
  <2>1. PICK len \in 0 .. Least(plan.space, Most(FileSize - streamPos, 0)) :
          /\ buffer' = Written(plan.slot, len)
          /\ plan' = [plan EXCEPT !.len = len]
    BY <1>5 DEF ReadStream
  <2>2. fpc = "read" /\ fpc' = "eof" /\ UNCHANGED <<min_filepos, max_filepos, offset>>
    BY <1>5 DEF ReadStream
  <2>3. /\ plan.slot \in Slots /\ plan.slot = max_filepos - offset /\ plan.space <= BufferSize
        /\ max_filepos + plan.space - min_filepos <= BufferSize /\ 0 <= plan.space
    BY <1>0, <2>2 DEF Held, Ring, WindowFits, Slots
  <2>4. len \in Nat /\ len <= plan.space
    BY <1>0, <2>1, <2>3, Sizes DEF Least, Most
  <2>5. plan'.len = len /\ End' = max_filepos + len /\ End = max_filepos
    BY <1>0, <2>1, <2>2, <2>4 DEF Plans, End
  <2>6. streamPos = max_filepos
    BY <2>2 DEF Filing, Follows
  <2>7. ASSUME NEW p \in min_filepos' .. (End' - 1)
        PROVE  buffer'[Place(p)'] = p
    <3>1. Place(p)' = Turn(p - offset) /\ p - offset \in Int /\ p \in Int
      BY <1>0, <2>2 DEF Place
    <3>2. CASE p < max_filepos
      <4>1. p \in min_filepos .. (End - 1)
        BY <1>0, <2>2, <2>5, <3>2
      <4>2. buffer[Turn(p - offset)] = p
        BY <2>2, <4>1 DEF Filing, Filed, Place, Flushing
      <4>3. plan.slot + len <= (p - offset) + BufferSize /\ p - offset < plan.slot
        BY <1>0, <2>2, <2>3, <2>4, <3>1, <3>2
      <4>4. Written(plan.slot, len)[Turn(p - offset)] = buffer[Turn(p - offset)]
        BY <2>3, <2>4, <3>1, <4>3, WrittenKeeps
      <4>5. QED
        BY <2>1, <3>1, <4>2, <4>4
    <3>3. CASE p >= max_filepos
      <4>1. plan.slot <= p - offset /\ p - offset < plan.slot + len
        BY <1>0, <2>2, <2>3, <2>4, <2>5, <3>1, <3>3
      <4>2. len <= BufferSize
        BY <1>0, <2>3, <2>4
      <4>3. Written(plan.slot, len)[Turn(p - offset)] = streamPos + (p - offset) - plan.slot
        BY <1>0, <2>3, <2>4, <3>1, <4>1, <4>2, WrittenNew
      <4>4. streamPos + (p - offset) - plan.slot = p
        BY <1>0, <2>3, <2>6, <3>1
      <4>5. QED
        BY <2>1, <3>1, <4>3, <4>4
    <3>4. QED
      BY <1>0, <3>1, <3>2, <3>3
  <2>8. QED
    BY <2>7 DEF Filed
<1>6. CASE Grow
  <2>1. /\ fpc = "grow" /\ fpc' = "wrap" /\ max_filepos' = max_filepos + plan.len
        /\ UNCHANGED <<buffer, min_filepos, offset>>
    BY <1>6 DEF Grow
  <2>2. ~Flushing /\ fpc # "dead" /\ End' = End
    BY <2>1 DEF Flushing, End
  <2>3. QED
    BY <1>0, <2>1, <2>2, FiledKept DEF Filing
<1>7. CASE Wrap
  <2>1. /\ fpc = "wrap" /\ fpc' = "control" /\ UNCHANGED <<buffer, min_filepos, max_filepos>>
        /\ offset' = IF plan.slot + plan.len >= BufferSize THEN offset + BufferSize ELSE offset
    BY <1>7 DEF Wrap
  <2>2. End' = max_filepos /\ End = max_filepos /\ ~Flushing
    BY <2>1 DEF End, Flushing
  <2>3. ASSUME NEW p \in min_filepos' .. (End' - 1)
        PROVE  buffer'[Place(p)'] = p
    <3>1. p \in min_filepos .. (End - 1) /\ p \in Int /\ min_filepos <= p /\ p < End
      BY <1>0, <2>1, <2>2
    <3>2. buffer[Turn(p - offset)] = p
      BY <2>1, <3>1 DEF Filing, Filed, Place, Flushing
    <3>3. Turn(p - offset') = Turn(p - offset)
      <4>1. CASE offset' = offset
        BY <4>1
      <4>2. CASE offset' = offset + BufferSize /\ plan.slot + plan.len >= BufferSize
        <5>1. max_filepos = offset + plan.slot + plan.len /\ max_filepos - min_filepos <= BufferSize
          BY <2>1, <2>2 DEF Held, Ring, WindowFits
        <5>2. p - offset < 2 * BufferSize
          BY <2>1, <2>2, <3>1, WindowTurns
        <5>3. 0 <= p - offset /\ p - offset \in Int
          BY <1>0, <3>1, <4>2, <5>1
        <5>4. Turn((p - offset) - BufferSize) = Turn(p - offset)
          BY <5>2, <5>3, TurnWraps
        <5>5. (p - offset) - BufferSize = p - offset'
          BY <1>0, <3>1, <4>2
        <5>6. QED
          BY <5>4, <5>5
      <4>3. QED
        BY <2>1, <4>1, <4>2
    <3>4. QED
      BY <2>1, <3>2, <3>3 DEF Place
  <2>4. QED
    BY <2>3 DEF Filed
<1>8. QED
  BY <1>1, <1>2, <1>3, <1>4, <1>5, <1>6, <1>7 DEF Filling, DropContents

LEMMA FiledControl ==
  ASSUME Held, Held', Filing, ExecuteControl \/ FlushForControl \/ Answer
  PROVE  Filed'
<1>0. /\ min_filepos \in Int /\ max_filepos \in Int /\ min_filepos' \in Int /\ max_filepos' \in Int
  BY HeldTypes DEF Held, TypeOK
<1>1. CASE ExecuteControl \/ Answer
  <2>1. /\ UNCHANGED <<buffer, offset, min_filepos, max_filepos>>
        /\ fpc \in {"control", "answer"} /\ fpc' \in {"fill", "answer", "flushControl"}
    BY <1>1 DEF ExecuteControl, Answer
  <2>2. ~Flushing /\ fpc # "dead" /\ End' = End
    BY <2>1 DEF Flushing, End
  <2>3. QED
    BY <1>0, <2>1, <2>2, FiledKept DEF Filing
<1>2. CASE Flush("flushControl", "flushControlRest")
  BY <1>2 DEF Flush, Filed, Flushing
<1>3. CASE FlushRest("flushControlRest", "answer")
  <2>1. /\ fpc = "flushControlRest" /\ fpc' = "answer" /\ min_filepos' = plan.base
        /\ max_filepos' = max_filepos
    BY <1>3 DEF FlushRest
  <2>2. max_filepos = plan.base
    BY <2>1 DEF Held, Ring, Flushing
  <2>3. End' = min_filepos'
    BY <2>1, <2>2 DEF End
  <2>4. QED
    BY <1>0, <2>3, FiledEmpty
<1>4. QED
  BY <1>1, <1>2, <1>3 DEF FlushForControl

\* Where the stream, the window and the end of the file are, and what the reader
\* has to read.
Extent == Follows /\ Bounded /\ AtEnd /\ Supplied

LEMMA ExtentFlush ==
  ASSUME Held, Held', Filing, DropContents \/ FlushForControl
  PROVE  Extent'
<1>0. /\ read_filepos \in Nat /\ max_filepos \in Int /\ streamPos \in Nat /\ plan \in Plans
      /\ plan.read \in Nat /\ FileSize \in Nat
  BY HeldTypes, Sizes
<1>1. UNCHANGED <<rpc, read_filepos, streamPos, eof>>
  BY FillerKeeps DEF Filler, DropContents, FlushForControl, Flush, FlushRest
<1>2. CASE Flush("flush", "flushRest") \/ Flush("flushControl", "flushControlRest")
  <2>1. /\ <<fpc, fpc'>> \in {<<"flush", "flushRest">>, <<"flushControl", "flushControlRest">>}
        /\ max_filepos' = read_filepos /\ plan' = [plan EXCEPT !.base = read_filepos]
    BY <1>2 DEF Flush
  <2>2. plan'.read = plan.read
    BY <1>0, <2>1 DEF Plans
  <2>3. Follows'
    BY <1>1, <2>1, <2>2 DEF Filing, Follows
  <2>4. Bounded'
    BY <1>1, <2>1 DEF Filing, Bounded
  <2>5. ~eof
    <3>1. CASE fpc = "flush"
      <4>1. max_filepos < FileSize
        BY <1>0, <3>1 DEF Filing, Follows, Bounded
      <4>2. ~(max_filepos >= FileSize)
        BY <1>0, <4>1
      <4>3. QED
        BY <4>2, Zenon DEF Filing, AtEnd
    <3>2. CASE fpc = "flushControl"
      BY <3>2, Zenon DEF Filing, AtEnd
    <3>3. QED
      BY <2>1, <3>1, <3>2
  <2>6. ~eof' /\ fpc' # "eof"
    BY <1>1, <2>1, <2>5
  <2>7. AtEnd'
    BY <2>6, Zenon DEF AtEnd
  <2>8. Supplied'
    BY <1>0, <1>1, <2>1 DEF Supplied
  <2>9. QED
    BY <2>3, <2>4, <2>7, <2>8 DEF Extent
<1>3. CASE FlushRest("flushRest", "move") \/ FlushRest("flushControlRest", "answer")
  <2>1. /\ <<fpc, fpc'>> \in {<<"flushRest", "move">>, <<"flushControlRest", "answer">>}
        /\ max_filepos' = max_filepos /\ plan' = plan
    BY <1>3 DEF FlushRest
  <2>2. Follows'
    BY <1>1, <2>1 DEF Filing, Follows
  <2>3. Bounded' /\ Supplied'
    BY <1>1, <2>1 DEF Filing, Bounded, Supplied
  <2>4. fpc' # "flushControl" /\ fpc' # "eof"
    BY <2>1
  <2>5. AtEnd'
    BY <1>1, <2>1, <2>4, Zenon DEF Filing, AtEnd
  <2>6. QED
    BY <2>2, <2>3, <2>5 DEF Extent
<1>4. QED
  BY <1>2, <1>3 DEF DropContents, FlushForControl

LEMMA ExtentFill ==
  ASSUME Held, Held', Filing, faults' = {}, Filling, ~DropContents
  PROVE  Extent'
<1>0. /\ read_filepos \in Nat /\ max_filepos \in Int /\ streamPos \in Nat /\ plan \in Plans
      /\ min_filepos \in Int /\ plan.read \in Nat /\ plan.len \in Int /\ plan.space \in Int
      /\ FileSize \in Nat
  BY HeldTypes, Sizes
<1>1. UNCHANGED <<rpc, read_filepos>> /\ fpc' # "flushControl" /\ fpc # "flushControl"
  BY FillingKeeps, FillerKeeps DEF Filler, Filling
<1>2. CASE Snapshot
  <2>1. /\ fpc = "fill" /\ fpc' = (IF OutOfReach(read_filepos) THEN "flush" ELSE "plan")
        /\ plan' = [plan EXCEPT !.read = read_filepos]
        /\ UNCHANGED <<streamPos, max_filepos, min_filepos, eof>>
    BY <1>2 DEF Snapshot, shared
  <2>2. plan'.read = read_filepos
    BY <1>0, <2>1 DEF Plans
  <2>3. min_filepos <= read_filepos
    BY <2>1 DEF Held, Ahead
  <2>4. OutOfReach(read_filepos) => max_filepos < read_filepos
    BY <1>0, <2>3 DEF OutOfReach
  <2>5. Follows'
    BY <1>1, <2>1, <2>2, <2>4 DEF Filing, Follows
  <2>6. Bounded' /\ Supplied'
    BY <1>1, <2>1 DEF Filing, Bounded, Supplied
  <2>7. fpc' # "eof"
    BY <2>1
  <2>8. AtEnd'
    BY <1>1, <2>1, <2>7, Zenon DEF Filing, AtEnd
  <2>9. QED
    BY <2>5, <2>6, <2>8 DEF Extent
<1>3. CASE MoveStream
  <2>1. /\ fpc = "move" /\ fpc' = "plan" /\ UNCHANGED <<plan, max_filepos, eof>>
        /\ streamPos' = plan.read \/ Spend({"unmoved"})
    BY <1>3 DEF MoveStream, shared
  <2>2. streamPos' = plan.read
    BY <2>1 DEF Spend
  <2>3. max_filepos = plan.read
    BY <2>1 DEF Filing, Follows
  <2>4. Follows'
    BY <2>1, <2>2, <2>3 DEF Follows
  <2>5. Bounded' /\ Supplied'
    BY <1>1, <2>1, <2>2, <2>3 DEF Filing, Bounded, Supplied
  <2>6. fpc' # "eof"
    BY <2>1
  <2>7. AtEnd'
    BY <1>1, <2>1, <2>6, Zenon DEF Filing, AtEnd
  <2>8. QED
    BY <2>4, <2>5, <2>7 DEF Extent
<1>4. CASE Reserve
  <2>1. /\ fpc = "plan" /\ fpc' \in {"control", "read"}
        /\ UNCHANGED <<streamPos, max_filepos, eof>>
    BY <1>4 DEF Reserve
  <2>2. Follows'
    BY <2>1 DEF Filing, Follows
  <2>3. Bounded' /\ Supplied'
    BY <1>1, <2>1 DEF Filing, Bounded, Supplied
  <2>4. fpc' # "eof"
    BY <2>1
  <2>5. AtEnd'
    BY <1>1, <2>1, <2>4, Zenon DEF Filing, AtEnd
  <2>6. QED
    BY <2>2, <2>3, <2>5 DEF Extent
<1>5. CASE ReadStream
  <2>1. PICK len \in 0 .. Least(plan.space, Most(FileSize - streamPos, 0)) :
          /\ len = 0 => streamPos >= FileSize
          /\ streamPos' = streamPos + len
          /\ plan' = [plan EXCEPT !.len = len]
    BY <1>5 DEF ReadStream
  <2>2. fpc = "read" /\ fpc' = "eof" /\ UNCHANGED <<max_filepos, eof>>
    BY <1>5 DEF ReadStream
  <2>3. plan'.len = len
    BY <1>0, <2>1 DEF Plans
  <2>4. streamPos = max_filepos /\ streamPos <= FileSize
    BY <2>2 DEF Filing, Follows, Bounded
  <2>5. len \in Nat /\ streamPos + len <= FileSize
    BY <1>0, <2>1, <2>4 DEF Least, Most
  <2>6. Follows'
    BY <2>1, <2>2, <2>3, <2>4 DEF Follows
  <2>7. Bounded' /\ Supplied'
    BY <1>1, <2>1, <2>2, <2>5 DEF Filing, Bounded, Supplied
  <2>8. plan'.len = 0 => streamPos' >= FileSize
    BY <1>0, <2>1, <2>3, <2>5
  <2>9. AtEnd'
    BY <1>1, <2>2, <2>8, Zenon DEF Filing, AtEnd
  <2>10. QED
    BY <2>6, <2>7, <2>9 DEF Extent
<1>6. CASE SetEof
  <2>1. /\ fpc = "eof" /\ fpc' = "grow" /\ UNCHANGED <<plan, streamPos, max_filepos>>
        /\ eof' => plan.len = 0
    BY <1>6 DEF SetEof
  <2>2. streamPos = max_filepos + plan.len /\ (plan.len = 0 => streamPos >= FileSize)
    BY <2>1 DEF Filing, Follows, AtEnd
  <2>3. Follows'
    BY <2>1, <2>2 DEF Follows
  <2>4. Bounded' /\ Supplied'
    BY <1>1, <2>1 DEF Filing, Bounded, Supplied
  <2>5. plan.len = 0 => max_filepos' >= FileSize
    BY <1>0, <2>1, <2>2
  <2>6. fpc' # "eof"
    BY <2>1
  <2>7. AtEnd'
    BY <1>1, <2>1, <2>5, <2>6, Zenon DEF AtEnd
  <2>8. QED
    BY <2>3, <2>4, <2>7 DEF Extent
<1>7. CASE Grow
  <2>1. /\ fpc = "grow" /\ fpc' = "wrap" /\ UNCHANGED <<plan, streamPos, eof>>
        /\ max_filepos' = max_filepos + plan.len
    BY <1>7 DEF Grow
  <2>2. streamPos = max_filepos + plan.len /\ 0 <= plan.len
    BY <2>1 DEF Filing, Follows, Held, Ring
  <2>3. Follows'
    BY <2>1, <2>2 DEF Follows
  <2>4. Bounded'
    BY <1>1, <2>1, <2>2 DEF Filing, Bounded
  <2>5. Supplied'
    BY <1>0, <1>1, <2>1, <2>2 DEF Filing, Supplied
  <2>6. fpc' # "eof" /\ (max_filepos >= FileSize => max_filepos' >= FileSize)
    BY <1>0, <2>1, <2>2
  <2>7. AtEnd'
    BY <1>1, <2>1, <2>6, Zenon DEF Filing, AtEnd
  <2>8. QED
    BY <2>3, <2>4, <2>5, <2>7 DEF Extent
<1>8. CASE Wrap
  <2>1. fpc = "wrap" /\ fpc' = "control" /\ UNCHANGED <<streamPos, max_filepos, eof>>
    BY <1>8 DEF Wrap
  <2>2. Follows'
    BY <2>1 DEF Filing, Follows
  <2>3. Bounded' /\ Supplied'
    BY <1>1, <2>1 DEF Filing, Bounded, Supplied
  <2>4. fpc' # "eof"
    BY <2>1
  <2>5. AtEnd'
    BY <1>1, <2>1, <2>4, Zenon DEF Filing, AtEnd
  <2>6. QED
    BY <2>2, <2>3, <2>5 DEF Extent
<1>9. QED
  BY <1>2, <1>3, <1>4, <1>5, <1>6, <1>7, <1>8 DEF Filling

LEMMA ExtentCommand ==
  ASSUME Held, Held', Filing, ExecuteControl \/ Answer
  PROVE  Extent'
<1>0. UNCHANGED <<rpc, max_filepos>> /\ fpc \in {"control", "answer"}
  BY FillerKeeps DEF Filler, ExecuteControl, Answer
<1>1. CASE streamPos' \in Sectors /\ read_filepos' = streamPos' /\ eof' = FALSE /\ fpc' = "flushControl"
  <2>1. streamPos' <= FileSize
    BY <1>1 DEF Sectors, Positions
  <2>2. Bounded' /\ Follows' /\ Supplied'
    BY <1>0, <1>1, <2>1 DEF Filing, Bounded, Follows, Supplied
  <2>3. ~eof' /\ fpc' # "eof"
    BY <1>1
  <2>4. AtEnd'
    BY <2>3, Zenon DEF AtEnd
  <2>5. QED
    BY <2>2, <2>4 DEF Extent
<1>2. CASE UNCHANGED <<read_filepos, eof, streamPos>> /\ fpc' \in {"fill", "answer"}
  <2>1. Bounded' /\ Follows' /\ Supplied'
    BY <1>0, <1>2 DEF Filing, Bounded, Follows, Supplied
  <2>2. fpc' # "flushControl" /\ fpc' # "eof"
    BY <1>2
  <2>3. AtEnd'
    BY <1>0, <1>2, <2>2, Zenon DEF Filing, AtEnd
  <2>4. QED
    BY <2>1, <2>3 DEF Extent
<1>3. QED
  BY <1>1, <1>2 DEF ExecuteControl, Answer

LEMMA FillerFiling ==
  ASSUME Held, Held', Filing, Filler, faults' = {}
  PROVE  Filing'
<1>1. CASE Filling
  BY <1>1, FiledFill, ExtentFill, ExtentFlush DEF Filing, Extent
<1>2. CASE ExecuteControl \/ FlushForControl \/ Answer
  BY <1>2, FiledControl, ExtentCommand, ExtentFlush DEF Filing, Extent
<1>3. QED
  BY <1>1, <1>2 DEF Filler, Filling

-----------------------------------------------------------------------------
(* The filler and what has been copied                                     *)

\* A slot that the reader is about to copy stays that of its position.
LEMMA PlaceKept ==
  ASSUME Held, Held', Filler, rpc = "copy"
  PROVE  Place(read_filepos)' = Place(read_filepos)
<1>0. /\ read_filepos \in Nat /\ min_filepos \in Int /\ max_filepos \in Int /\ offset \in Int
      /\ plan.base \in Int /\ plan.slot \in Int /\ plan.len \in Int /\ BufferSize \in Nat
  BY HeldTypes, Sizes
<1>1. read_filepos' = read_filepos
  BY FillerLeaves DEF Reading
<1>2. read_filepos < max_filepos /\ control = "none"
  <2>1. control \in {"seek", "query", "none"}
    BY HeldTypes
  <2>2. QED
    BY <2>1 DEF Held, Seen, Waits
<1>3. CASE Wrap
  <2>1. /\ fpc = "wrap" /\ offset' = IF plan.slot + plan.len >= BufferSize THEN offset + BufferSize ELSE offset
    BY <1>3 DEF Wrap
  <2>2. CASE offset' = offset
    BY <1>1, <2>2 DEF Place
  <2>3. CASE offset' = offset + BufferSize /\ plan.slot + plan.len >= BufferSize
    <3>1. ~Flushing /\ fpc # "dead" /\ End = max_filepos
      BY <2>1 DEF Flushing, End
    <3>2. /\ min_filepos <= read_filepos /\ max_filepos - min_filepos <= BufferSize
          /\ max_filepos = offset + plan.slot + plan.len
      BY <2>1, <3>1 DEF Held, Ahead, WindowFits, Ring
    <3>3. read_filepos - offset < 2 * BufferSize
      BY <1>0, <1>2, <3>1, <3>2, WindowTurns
    <3>4. 0 <= read_filepos - offset /\ read_filepos - offset \in Int
      BY <1>0, <2>3, <3>2
    <3>5. Turn((read_filepos - offset) - BufferSize) = Turn(read_filepos - offset)
      BY <3>3, <3>4, TurnWraps
    <3>6. (read_filepos - offset) - BufferSize = read_filepos - offset'
      BY <1>0, <2>3
    <3>7. QED
      BY <1>1, <3>5, <3>6 DEF Place
  <2>4. QED
    BY <2>1, <2>2, <2>3
<1>4. CASE FlushRest("flushRest", "move")
  <2>1. max_filepos = plan.base /\ plan.base <= read_filepos
    BY <1>4 DEF FlushRest, Held, Ring, Ahead, Flushing
  <2>2. QED
    BY <1>0, <1>2, <2>1
<1>5. CASE FlushForControl \/ Answer
  <2>1. Answering
    BY <1>5 DEF FlushForControl, Flush, FlushRest, Answer, Answering
  <2>2. QED
    BY <1>2, <2>1 DEF Held, Waits
<1>6. CASE \/ Snapshot \/ Flush("flush", "flushRest") \/ MoveStream \/ Reserve \/ ReadStream
           \/ SetEof \/ Grow \/ ExecuteControl
  <2>1. offset' = offset
    BY <1>6 DEF Snapshot, Flush, MoveStream, Reserve, ReadStream, SetEof, Grow, ExecuteControl, shared
  <2>2. QED
    BY <1>1, <2>1 DEF Place
<1>7. QED
  BY <1>3, <1>4, <1>5, <1>6 DEF Filler, DropContents

LEMMA FillerCopied ==
  ASSUME Held, Held', Copied, Filler
  PROVE  Copied'
<1>1. UNCHANGED <<rpc, size, newb, index, out, pos>>
  BY FillerKeeps
<1>2. rpc = "copy" => Place(read_filepos)' = Place(read_filepos)
  BY PlaceKept
<1>3. QED
  BY <1>1, <1>2 DEF Copied

-----------------------------------------------------------------------------
(* The reader                                                              *)

\* A reader that goes on only when it has something to read stays within the file.
LEMMA ReaderStays ==
  ASSUME Held, Filing, Reader, faults' = {}
  PROVE  /\ fpc' = fpc => (fpc = "flush" \/ fpc = "flushControl" => read_filepos' = read_filepos)
         /\ read_filepos' <= FileSize
         /\ rpc' \in {"prefill", "idle", "askedSeek", "askedQuery"} /\ fpc # "flushControl" =>
              read_filepos' <= max_filepos
<1>0. /\ read_filepos \in Nat /\ max_filepos \in Int /\ newb \in Int /\ FileSize \in Nat
      /\ read_filepos <= FileSize /\ max_filepos <= FileSize
  BY HeldTypes, Sizes DEF Filing, Bounded
<1>1. fpc = "flush" => max_filepos < read_filepos
  BY DEF Filing, Follows
<1>2. fpc = "flushControl" => rpc = "askedSeek"
  BY DEF Held, Waits
<1>3. CASE SeekLong
  <2>1. rpc = "idle" /\ rpc' = "clearEof" /\ read_filepos' \in Sectors
    BY <1>3 DEF SeekLong
  <2>2. read_filepos' <= FileSize
    BY <2>1 DEF Sectors, Positions
  <2>3. fpc # "flushControl" /\ fpc # "flush"
    BY <1>0, <1>1, <1>2, <2>1 DEF Filing, Supplied
  <2>4. QED
    BY <2>1, <2>2, <2>3
<1>4. CASE Advance
  <2>1. rpc = "advance" /\ read_filepos' = read_filepos + newb
    BY <1>4 DEF Advance
  <2>2. read_filepos < max_filepos /\ read_filepos + newb <= max_filepos
    BY <2>1 DEF Held, Seen
  <2>3. fpc # "flushControl" /\ fpc # "flush"
    BY <1>0, <1>1, <1>2, <2>1, <2>2
  <2>4. QED
    BY <1>0, <2>1, <2>2, <2>3
<1>5. CASE SeeEof
  <2>1. rpc = "starved" /\ eof /\ read_filepos' = read_filepos
    BY <1>5 DEF SeeEof, shared
  <2>2. max_filepos >= FileSize
    BY <2>1, Zenon DEF Filing, AtEnd
  <2>3. QED
    BY <1>0, <2>1, <2>2
<1>6. CASE Interrupt \/ Abandon
  BY <1>6 DEF Interrupt, Abandon, Spend
<1>7. CASE Uninit \/ Fetch \/ ClearEof \/ CheckMax \/ CheckMin \/ TryAgain \/ Measure \/ Index \/ Copy \/ Fault
  <2>1. read_filepos' = read_filepos /\ rpc' \notin {"prefill", "idle", "askedSeek", "askedQuery"}
    BY <1>7 DEF Uninit, Fetch, ClearEof, EnterRead, CheckMax, CheckMin, TryAgain, Measure, Index, Copy, Fault,
       shared
  <2>2. QED
    BY <1>0, <2>1
<1>8. CASE PrefillEnds \/ Ask \/ Answered
  <2>1. read_filepos' = read_filepos /\ rpc \in {"prefill", "idle", "askedSeek", "askedQuery"}
    BY <1>8 DEF PrefillEnds, Ask, Answered, shared
  <2>2. QED
    BY <1>0, <2>1 DEF Filing, Supplied
<1>9. QED
  BY <1>3, <1>4, <1>5, <1>6, <1>7, <1>8 DEF Reader, Served

LEMMA ReaderFiling ==
  ASSUME Held, Filing, Reader, faults' = {}
  PROVE  Filing'
<1>1. UNCHANGED <<min_filepos, max_filepos, offset, plan, streamPos>>
  BY ReaderKeepsWindow
<1>2. buffer' = buffer
  BY DEF Reader, Served, PrefillEnds, Uninit, Fetch, SeekLong, ClearEof, CheckMax, CheckMin, SeeEof, TryAgain,
     Interrupt, Measure, Index, Copy, Fault, Advance, Ask, Answered, Abandon, shared
<1>3. fpc' = fpc \/ fpc' = "dead"
  BY ReaderKeepsFiller DEF Uninit
<1>4. eof' => eof
  <2>1. ~Interrupt /\ ~Abandon
    BY DEF Interrupt, Abandon, Spend
  <2>2. eof' = eof \/ eof' = FALSE
    BY <2>1 DEF Reader, Served, PrefillEnds, Uninit, Fetch, SeekLong, ClearEof, CheckMax, CheckMin, SeeEof,
       TryAgain, Measure, Index, Copy, Fault, Advance, Ask, Answered, shared
  <2>3. QED
    BY <2>2, Zenon
<1>5. Filed'
  <2>1. \/ fpc' = "dead"
        \/ End' = End /\ Flushing' = Flushing /\ fpc' = fpc
    BY <1>1, <1>3 DEF End, Flushing
  <2>2. Filed' \/ fpc' = fpc
    BY <2>1 DEF Filed
  <2>3. ASSUME fpc' = fpc PROVE Filed'
    BY <1>1, <1>2, <2>3 DEF Filing, Filed, Place, Turn, End, Flushing
  <2>4. QED
    BY <2>2, <2>3
<1>6. Follows'
  <2>1. CASE fpc' = "dead"
    BY <2>1 DEF Follows
  <2>2. CASE fpc' = fpc
    BY <1>1, <2>2, ReaderStays DEF Filing, Follows
  <2>3. QED
    BY <1>3, <2>1, <2>2
<1>7. Bounded'
  BY <1>1, ReaderStays DEF Filing, Bounded
<1>8. AtEnd'
  <2>1. eof' => max_filepos' >= FileSize
    <3>1. eof => max_filepos >= FileSize
      BY Zenon DEF Filing, AtEnd
    <3>2. QED
      BY <1>1, <1>4, <3>1, Zenon
  <2>2. fpc' = "flushControl" => ~eof'
    <3>1. fpc' = "flushControl" => fpc = "flushControl"
      BY <1>3
    <3>2. QED
      BY <1>4, <3>1, Zenon DEF Filing, AtEnd
  <2>3. fpc' = "eof" /\ plan'.len = 0 => streamPos' >= FileSize
    <3>1. fpc' = "eof" => fpc = "eof"
      BY <1>3
    <3>2. QED
      BY <1>1, <3>1 DEF Filing, AtEnd
  <2>4. QED
    BY <2>1, <2>2, <2>3, Zenon DEF AtEnd
<1>9. Supplied'
  <2>1. CASE fpc' = "dead" /\ fpc = "flushControl"
    <3>1. rpc = "askedSeek"
      BY <2>1 DEF Held, Waits
    <3>2. ~Uninit
      BY <3>1 DEF Uninit
    <3>3. QED
      BY <2>1, <3>2, ReaderKeepsFiller
  <2>2. CASE fpc # "flushControl"
    BY <1>1, <2>2, ReaderStays DEF Supplied
  <2>3. CASE fpc' = "flushControl"
    BY <2>3 DEF Supplied
  <2>4. QED
    BY <1>3, <2>1, <2>2, <2>3
<1>10. QED
  BY <1>5, <1>6, <1>7, <1>8, <1>9 DEF Filing

\* The slots that the reader copies hold the positions from its own on, whether
\* the filler's offset has gone to the next turn or not.
LEMMA SlotsHoldFile ==
  ASSUME Held, Filing, rpc = "copy", index = Place(read_filepos), NEW k \in Nat, k < newb
  PROVE  buffer[index + k] = read_filepos + k
<1>0. /\ read_filepos \in Nat /\ min_filepos \in Int /\ max_filepos \in Int /\ offset \in Int
      /\ plan.base \in Int /\ plan.len \in Int /\ newb \in Int /\ index \in Int
      /\ BufferSize \in Nat /\ control \in {"seek", "query", "none"}
  BY HeldTypes, Sizes
<1>1. /\ read_filepos + newb <= max_filepos /\ index + newb <= BufferSize
      /\ read_filepos < max_filepos
  BY DEF Held, Seen, InRing
<1>2. control = "none" /\ fpc # "dead"
  BY <1>0 DEF Held, Waits
<1>3. fpc \notin {"flushControl", "flushControlRest"}
  BY <1>2 DEF Held, Waits
<1>4. fpc # "flushRest"
  BY <1>0, <1>1 DEF Held, Ring, Ahead, Flushing
<1>5. ~Flushing /\ min_filepos <= read_filepos
  BY <1>3, <1>4 DEF Held, Ahead, Flushing
<1>6. max_filepos <= End /\ End \in Int
  BY <1>0 DEF Held, Ring, End
<1>7. read_filepos + k \in min_filepos .. (End - 1)
  BY <1>0, <1>1, <1>5, <1>6
<1>8. buffer[Place(read_filepos + k)] = read_filepos + k
  BY <1>2, <1>5, <1>7 DEF Filing, Filed
<1>9. Place(read_filepos + k) = index + k
  <2>1. read_filepos - offset \in Int /\ Turn(read_filepos - offset) = index
    BY <1>0 DEF Place
  <2>2. Turn(read_filepos - offset) + k < BufferSize
    BY <1>0, <1>1, <2>1
  <2>3. Turn((read_filepos - offset) + k) = index + k
    BY <2>1, <2>2, TurnNext
  <2>4. (read_filepos - offset) + k = (read_filepos + k) - offset
    BY <1>0
  <2>5. QED
    BY <2>3, <2>4 DEF Place
<1>10. QED
  BY <1>8, <1>9

LEMMA Joined ==
  ASSUME NEW s \in Seq(Int), NEW t \in Seq(Int)
  PROVE  /\ Len(s \o t) = Len(s) + Len(t)
         /\ \A i \in 1 .. Len(s) + Len(t) : i <= Len(s) => (s \o t)[i] = s[i]
         /\ \A i \in 1 .. Len(s) + Len(t) : i > Len(s) => (s \o t)[i] = t[i - Len(s)]
OBVIOUS

LEMMA CopyCopied ==
  ASSUME Held, Filing, Position, Copied, Copy
  PROVE  Copied'
<1> DEFINE Piece == [i \in 1 .. newb |-> buffer[index + i - 1]]
<1>0. /\ read_filepos \in Nat /\ pos \in Nat /\ newb \in Int /\ index \in Int /\ size \in Int
      /\ Len(out) \in Nat /\ out \in Seq(Int) /\ SectorSize \in Nat
  BY HeldTypes, Sizes
<1>1. /\ rpc = "copy" /\ rpc' = "advance" /\ out' = out \o Piece
      /\ UNCHANGED <<size, newb, pos>>
  BY DEF Copy, stream
<1>2. newb \in Nat
  BY <1>0 DEF Copy, InRing
<1>3. Piece \in Seq(Int) /\ Len(Piece) = newb
  <2>1. \A i \in 1 .. newb : index + i - 1 \in Slots
    BY <1>0, Sizes DEF Copy, InRing, Slots
  <2>2. \A i \in 1 .. newb : buffer[index + i - 1] \in Int
    BY <2>1 DEF Held, TypeOK
  <2>3. Piece \in Seq(Int)
    BY <1>2, <2>2
  <2>4. QED
    BY <1>2, <2>3
<1> HIDE DEF Piece
<1>4. /\ Len(out') = Len(out) + newb
      /\ \A i \in 1 .. Len(out') : i <= Len(out) => out'[i] = out[i]
      /\ \A i \in 1 .. Len(out') : i > Len(out) => out'[i] = Piece[i - Len(out)]
  <2>1. /\ Len(out \o Piece) = Len(out) + Len(Piece)
        /\ \A i \in 1 .. Len(out) + Len(Piece) : i <= Len(out) => (out \o Piece)[i] = out[i]
        /\ \A i \in 1 .. Len(out) + Len(Piece) :
             i > Len(out) => (out \o Piece)[i] = Piece[i - Len(out)]
    BY <1>0, <1>3, Joined
  <2>2. QED
    BY <1>1, <1>3, <2>1, Zenon
<1>5. /\ pos + Len(out) = read_filepos
      /\ index = Place(read_filepos)
      /\ Len(out) + size = SectorSize
      /\ \A i \in 1 .. Len(out) : out[i] = pos + i - 1
  BY <1>1 DEF Position, Copied
<1>6. ASSUME NEW i \in 1 .. Len(out')
      PROVE  out'[i] = pos' + i - 1
  <2>1. CASE i <= Len(out)
    <3>1. out'[i] = out[i]
      BY <1>4, <2>1
    <3>2. out[i] = pos + i - 1
      BY <1>0, <1>5, <2>1
    <3>3. QED
      BY <1>1, <3>1, <3>2
  <2>2. CASE i > Len(out)
    <3>1. i - Len(out) \in 1 .. newb
      BY <1>0, <1>2, <1>4, <2>2
    <3>2. out'[i] = Piece[i - Len(out)]
      BY <1>4, <2>2
    <3>3. Piece[i - Len(out)] = buffer[index + (i - Len(out)) - 1]
      BY <3>1 DEF Piece
    <3>4. PICK k \in Nat : k = i - Len(out) - 1
      BY <3>1
    <3>5. k < newb /\ index + (i - Len(out)) - 1 = index + k
      BY <1>0, <1>2, <3>1, <3>4
    <3>6. buffer[index + k] = read_filepos + k
      BY <1>1, <1>5, <3>5, SlotsHoldFile
    <3>7. read_filepos + k = pos + i - 1
      <4>1. pos + Len(out) = read_filepos
        BY <1>5
      <4>2. QED
        BY <1>0, <3>4, <4>1
    <3>8. QED
      BY <1>1, <3>2, <3>3, <3>5, <3>6, <3>7
  <2>3. QED
    BY <1>0, <1>4, <2>1, <2>2
<1>7. Len(out') + size' = SectorSize + newb'
  <2>1. Len(out') = Len(out) + newb /\ Len(out) + size = SectorSize /\ UNCHANGED <<size, newb>>
    BY <1>1, <1>4, <1>5
  <2>2. QED
    BY <1>0, <1>2, <2>1
<1>8. QED
  BY <1>1, <1>6, <1>7 DEF Copied

LEMMA ReaderCopied ==
  ASSUME Held, Filing, Position, Copied, Reader
  PROVE  Copied'
<1>0. /\ newb \in Int /\ size \in Int /\ Len(out) \in Nat /\ SectorSize \in Nat
  BY HeldTypes, Sizes
<1>1. CASE out' = <<>> /\ rpc' \in {"idle", "clearEof", "askedSeek", "askedQuery", "closed"}
  BY <1>1 DEF Copied
<1>2. CASE PrefillEnds \/ Uninit \/ SeekLong \/ Ask \/ Answered \/ Abandon
  <2>1. /\ out' = out /\ rpc \in {"prefill", "idle", "askedSeek", "askedQuery"}
        /\ rpc' \in {"idle", "clearEof", "askedSeek", "askedQuery", "closed"}
    BY <1>2 DEF PrefillEnds, Uninit, SeekLong, Ask, Answered, Abandon, copying
  <2>2. out = <<>>
    BY <2>1 DEF Position, Asked
  <2>3. QED
    BY <1>1, <2>1, <2>2
<1>3. CASE Fetch \/ ClearEof
  <2>1. /\ out' = out /\ rpc \in {"idle", "clearEof"} /\ rpc' = "checkMax" /\ size' = SectorSize
    BY <1>3 DEF Fetch, ClearEof, EnterRead
  <2>2. out' = <<>> /\ Len(out') = 0
    BY <2>1 DEF Position
  <2>3. Len(out') + size' = SectorSize
    BY <1>0, <2>1, <2>2
  <2>4. QED
    BY <2>1, <2>2, <2>3 DEF Copied
<1>4. CASE CheckMax \/ CheckMin \/ TryAgain \/ Measure \/ Fault
  <2>1. /\ UNCHANGED <<out, pos, size>>
        /\ \/ rpc \in {"checkMax", "checkMin", "starved", "measure"}
              /\ rpc' \in {"starved", "checkMin", "measure", "checkMax", "index"}
           \/ rpc' = "fault"
    BY <1>4 DEF CheckMax, CheckMin, TryAgain, Measure, Fault, copying, stream
  <2>2. QED
    BY <2>1 DEF Copied
<1>5. CASE Index
  <2>1. /\ UNCHANGED <<out, pos, size, read_filepos, offset>>
        /\ rpc = "index" /\ rpc' = "copy" /\ index' = ReadSlot
    BY <1>5 DEF Index, shared, stream
  <2>2. ReadSlot = Place(read_filepos)
    BY DEF ReadSlot, Place, Turn
  <2>3. Place(read_filepos)' = Place(read_filepos)
    BY <2>1 DEF Place
  <2>4. QED
    BY <2>1, <2>2, <2>3 DEF Copied
<1>6. CASE Copy
  BY <1>6, CopyCopied
<1>7. CASE SeeEof \/ Interrupt
  BY <1>1, <1>7 DEF SeeEof, Interrupt, EndFetch
<1>8. CASE Advance
  <2>1. CASE size = newb
    BY <1>1, <1>8, <2>1 DEF Advance, EndFetch
  <2>2. CASE size # newb
    <3>1. /\ UNCHANGED <<out, pos>> /\ rpc = "advance" /\ rpc' = "checkMax" /\ size' = size - newb
      BY <1>8, <2>2 DEF Advance, stream
    <3>2. Len(out) + size = SectorSize + newb
      BY <3>1 DEF Copied
    <3>3. Len(out') + size' = SectorSize
      BY <1>0, <3>1, <3>2
    <3>4. QED
      BY <3>1, <3>3 DEF Copied
  <2>3. QED
    BY <2>1, <2>2
<1>9. QED
  BY <1>2, <1>3, <1>4, <1>5, <1>6, <1>7, <1>8 DEF Reader, Served

-----------------------------------------------------------------------------
(* The invariant                                                           *)

LEMMA FilingInit == Init => Filing /\ Copied
<1> SUFFICES ASSUME Init PROVE Filing /\ Copied
  OBVIOUS
<1>1. /\ fpc = "fill" /\ rpc = "prefill" /\ min_filepos = 0 /\ max_filepos = 0 /\ read_filepos = 0
      /\ streamPos = 0 /\ out = <<>> /\ eof = FALSE /\ FileSize \in Nat
  BY Sizes DEF Init
<1>2. Filed
  BY <1>1 DEF Filed, End, Flushing
<1>3. Follows /\ Bounded /\ Supplied
  BY <1>1 DEF Follows, Bounded, Supplied
<1>4. ~eof /\ fpc # "eof"
  BY <1>1
<1>5. AtEnd
  BY <1>4, Zenon DEF AtEnd
<1>6. Copied
  BY <1>1 DEF Copied
<1>7. QED
  BY <1>2, <1>3, <1>5, <1>6 DEF Filing

LEMMA FaithfulStep ==
  ASSUME Held, Held', Position, Filing, Copied, [Next]_vars, faults' = {}
  PROVE  Filing' /\ Copied'
<1>1. CASE Filler
  BY <1>1, FillerFiling, FillerCopied
<1>2. CASE Reader
  BY <1>2, ReaderFiling, ReaderCopied
<1>3. CASE UNCHANGED vars
  <2>1. UNCHANGED <<buffer, min_filepos, max_filepos, offset, read_filepos, fpc, plan, streamPos,
                    rpc, size, newb, index, out, pos>> /\ eof' = eof
    BY <1>3 DEF vars, shared, filler, copying, stream
  <2>2. Filed' /\ Follows' /\ Bounded' /\ Supplied'
    BY <2>1 DEF Filing, Filed, Place, Turn, End, Flushing, Follows, Bounded, Supplied
  <2>3. AtEnd'
    BY <2>1, Zenon DEF Filing, AtEnd
  <2>4. Copied'
    BY <2>1 DEF Copied, Place, Turn
  <2>5. QED
    BY <2>2, <2>3, <2>4 DEF Filing
<1>4. QED
  BY <1>1, <1>2, <1>3 DEF Next

\* What is known while nothing has gone wrong.
Sound == faults = {} => Held /\ Position

LEMMA SoundHolds == Spec => []Sound
<1>1. (OnlyForward => Held) /\ (Patient => Waits /\ Position) => Sound
  BY DEF Sound, OnlyForward, Patient
<1>2. QED
  BY <1>1, ForwardHolds, PatientHolds, PTL

\* While nothing has gone wrong each position of the window is in its slot, the
\* stream goes on where the window ends, and what the reader has copied is the
\* file (cache_fill, cache_read and cache_execute_control together).
THEOREM CacheFaithful == Spec => []Faithful
<1>1. Init => Faithful
  BY FilingInit DEF Faithful
<1>2. Sound /\ Sound' /\ Faithful /\ [Next]_vars => Faithful'
  <2>1. [Next]_vars /\ faults' = {} => faults = {}
    BY FaultsStay
  <2>2. QED
    BY <2>1, FaithfulStep DEF Sound, Faithful
<1>3. QED
  BY <1>1, <1>2, SoundHolds, PTL DEF Spec

\* What cache_read has copied is the file, from the stream's position on, for
\* every size of the ring, the file and the pieces and wherever the filler's and
\* the reader's steps fall.
THEOREM CopiesFileHolds == Spec => []CopiesFile
<1>1. Faithful => CopiesFile
  BY DEF Faithful, Copied, CopiesFile
<1>2. QED
  BY <1>1, CacheFaithful, PTL

-----------------------------------------------------------------------------
(* The byte stream                                                         *)

\* The end of a fetch is a fetch or an end of the byte stream.
LEMMA FetchImplemented ==
  ASSUME Held, Position, Filing, Copied, EndFetch(out), faults' = faults, faults = {},
         rpc \in {"starved", "advance"}, rpc = "advance" => size = newb
  PROVE  Bytes!Next
<1>0. /\ read_filepos \in Nat /\ pos \in Nat /\ newb \in Int /\ size \in Int /\ max_filepos \in Int
      /\ Len(out) \in Nat /\ out \in Seq(Int) /\ SectorSize \in Nat /\ FileSize \in Nat
  BY HeldTypes, Sizes
<1>1. buf' = out /\ pos' = pos + Len(out) /\ UNCHANGED faults
  BY DEF EndFetch
<1>2. Len(out) <= SectorSize /\ pos + Len(out) <= FileSize
  <2>1. CASE rpc = "starved"
    <3>1. pos + Len(out) = read_filepos /\ Len(out) + size = SectorSize /\ 1 <= size
      BY <2>1 DEF Position, Copied, Held, Seen
    <3>2. read_filepos <= FileSize
      BY DEF Filing, Bounded
    <3>3. QED
      BY <1>0, <3>1, <3>2
  <2>2. CASE rpc = "advance"
    <3>1. pos + Len(out) = read_filepos + newb /\ Len(out) + size = SectorSize + newb
          /\ read_filepos + newb <= max_filepos
      BY <2>2 DEF Position, Copied, Held, Seen
    <3>2. max_filepos <= FileSize /\ size = newb
      BY <2>2 DEF Filing, Bounded
    <3>3. QED
      BY <1>0, <3>1, <3>2
  <2>3. QED
    BY <2>1, <2>2
<1>3. CASE Len(out) = 0
  <2>1. out = <<>> /\ pos' = pos
    BY <1>0, <1>1, <1>3
  <2>2. Bytes!End
    BY <1>1, <2>1 DEF Bytes!End
  <2>3. QED
    BY <2>2 DEF Bytes!Next
<1>4. CASE Len(out) # 0
  <2>1. Len(out) \in 1 .. SectorSize
    BY <1>0, <1>2, <1>4
  <2>2. \A i \in 1 .. Len(out) : out[i] = pos + i - 1
    BY DEF Copied
  <2>3. out = [i \in 1 .. Len(out) |-> pos + i - 1]
    BY <1>0, <2>2
  <2>4. Bytes!Fetch
    BY <1>1, <1>2, <2>1, <2>3 DEF Bytes!Fetch
  <2>5. QED
    BY <2>4 DEF Bytes!Next
<1>5. QED
  BY <1>3, <1>4

LEMMA StepImplemented ==
  ASSUME Sound, Faithful, TypeOK', [Next]_vars, faults = {}
  PROVE  [Bytes!Next]_(Bytes!vars)
<1>1. Held /\ Position /\ Filing /\ Copied
  BY DEF Sound, Faithful
<1>2. CASE faults' # {}
  <2>1. (faults' = {}) = FALSE /\ pos' \in Int /\ buf' \in Seq(Int)
    BY <1>2 DEF TypeOK
  <2>2. Bytes!Lose
    BY <2>1 DEF Bytes!Lose
  <2>3. QED
    BY <2>2 DEF Bytes!Next
<1>3. CASE faults' = {} /\ UNCHANGED <<pos, buf>>
  BY <1>3 DEF Bytes!vars
<1>4. CASE faults' = {} /\ Filler
  BY <1>3, <1>4, FillerKeeps
<1>5. CASE faults' = {} /\ Reader
  <2>1. CASE SeeEof
    BY <1>1, <1>5, <2>1, FetchImplemented DEF SeeEof
  <2>2. CASE Advance
    <3>1. CASE size = newb
      BY <1>1, <1>5, <2>2, <3>1, FetchImplemented DEF Advance
    <3>2. CASE size # newb
      BY <1>3, <1>5, <2>2, <3>2 DEF Advance, stream
    <3>3. QED
      BY <3>1, <3>2
  <2>3. CASE SeekLong \/ Answered
    <3>1. buf' = buf
      BY <2>3 DEF SeekLong, Answered
    <3>2. pos' \in Nat
      BY DEF TypeOK
    <3>3. Bytes!Seek
      BY <1>5, <3>1, <3>2 DEF Bytes!Seek
    <3>4. QED
      BY <3>3 DEF Bytes!Next
  <2>4. CASE Interrupt \/ Abandon
    BY <1>5, <2>4 DEF Interrupt, Abandon, Spend
  <2>5. CASE \/ PrefillEnds \/ Uninit \/ Fetch \/ ClearEof \/ CheckMax \/ CheckMin \/ TryAgain
             \/ Measure \/ Index \/ Copy \/ Fault \/ Ask
    <3>1. UNCHANGED <<pos, buf>>
      BY <2>5 DEF PrefillEnds, Uninit, Fetch, ClearEof, CheckMax, CheckMin, TryAgain, Measure, Index, Copy,
         Fault, Ask, stream
    <3>2. QED
      BY <1>3, <1>5, <3>1
  <2>6. QED
    BY <1>5, <2>1, <2>2, <2>3, <2>4, <2>5 DEF Reader, Served
<1>6. CASE UNCHANGED vars
  BY <1>6 DEF vars, stream, history, Bytes!vars
<1>7. QED
  BY <1>2, <1>4, <1>5, <1>6 DEF Next

\* The stream cache implements a byte stream: each piece that the demuxer gets
\* starts where the last one ended or a seek went, and holds the bytes of the
\* file, until a seek goes back or something is interrupted, given up or fails.
THEOREM StreamImplemented == Spec => StreamSpec
<1>1. Init => Bytes!Init
  BY DEF Init, Bytes!Init
<1>2. Sound /\ Faithful /\ TypeOK /\ TypeOK' /\ [Next]_vars => [Bytes!Next]_(Bytes!vars)
  <2> SUFFICES ASSUME Sound, Faithful, TypeOK', [Next]_vars PROVE [Bytes!Next]_(Bytes!vars)
    OBVIOUS
  <2>1. CASE faults = {}
    BY <2>1, StepImplemented
  <2>2. CASE faults # {}
    <3>1. faults' # {}
      BY <2>2, FaultsStay
    <3>2. (faults' = {}) = FALSE /\ pos' \in Int /\ buf' \in Seq(Int)
      BY <3>1 DEF TypeOK
    <3>3. Bytes!Lose
      BY <3>2 DEF Bytes!Lose
    <3>4. QED
      BY <3>3 DEF Bytes!Next
  <2>3. QED
    BY <2>1, <2>2
<1>3. QED
  BY <1>1, <1>2, TypeCorrect, SoundHolds, CacheFaithful, PTL DEF Spec, StreamSpec, Bytes!Spec
=============================================================================
