------------------------- MODULE StreamCacheProofs -------------------------
(***************************************************************************)
(* Theorems about StreamCache, for any sizes of the cache and the file and *)
(* any number of seeks and faults: types; the ring never claims more than  *)
(* it holds; a reader that goes forward copies from inside of the ring;    *)
(* player and cache agree on the position.                                 *)
(***************************************************************************)
EXTENDS StreamCache, TLAPS

---------------------------------------------------------------------------
(* Sizes *)

LEMMA TimesMonotone == \A a, b, c \in Nat : a <= b => a * c <= b * c
BY SMT

LEMMA Sizes ==
  /\ BufferSize \in Nat /\ FillLimit \in Nat /\ BackSize \in Nat
  /\ SectorSize \in Nat /\ ReadChunk \in Nat /\ FileSize \in Nat /\ SeekLimit \in Int
  /\ 1 <= SectorSize /\ SectorSize <= FillLimit /\ 2 * FillLimit <= BufferSize
  /\ 1 <= ReadChunk /\ 0 <= SeekLimit
<1>1. /\ BufferSectors \in Nat /\ 2 * FillSectors <= BufferSectors
      /\ FillSectors \in Nat /\ 1 <= FillSectors /\ SectorSize \in Nat /\ 1 <= SectorSize
      /\ ReadChunk \in Nat /\ 1 <= ReadChunk /\ FileSize \in Nat /\ SeekAsked \in Nat
  BY CacheAssumption DEF BufferSectors, Most
<1>2. (2 * FillSectors) * SectorSize <= BufferSectors * SectorSize
  BY <1>1, TimesMonotone
<1>3. 1 * SectorSize <= FillSectors * SectorSize
  BY <1>1, TimesMonotone
<1>4. (2 * FillSectors) * SectorSize = 2 * (FillSectors * SectorSize)
  BY <1>1
<1>5. BufferSectors * SectorSize \in Nat /\ FillSectors * SectorSize \in Nat
  BY <1>1
<1>6. 2 * FillLimit <= BufferSize /\ SectorSize <= FillLimit
  BY <1>1, <1>2, <1>3, <1>4, <1>5 DEF BufferSize, FillLimit
<1>7. BufferSize \in Nat /\ FillLimit \in Nat /\ BackSize \in Nat
  BY <1>5 DEF BufferSize, FillLimit, BackSize
<1>8. SeekLimit \in Int /\ 0 <= SeekLimit
  BY <1>1, <1>6, <1>7 DEF SeekLimit, Least
<1>9. QED
  BY <1>1, <1>6, <1>7, <1>8

---------------------------------------------------------------------------
(* Types *)

LEMMA SectorsAreNat == Sectors \subseteq Nat
BY CacheAssumption DEF Sectors, Positions

LEMMA FlagsInit == Init => Flags
BY Zenon DEF Init, Flags

LEMMA FlagTypes == ASSUME Flags, Next PROVE Flags'
<1>1. CASE Filler
  <2>1. CASE SetEof
    BY <2>1, Zenon DEF SetEof, Flags, stream
  <2>2. CASE ExecuteControl
    BY <2>2, Zenon DEF ExecuteControl, Flags, stream
  <2>3. CASE Filler /\ ~SetEof /\ ~ExecuteControl
    <3>1. UNCHANGED <<eof, control_res, ended>>
      BY <2>3 DEF Filler, Snapshot, DropContents, FlushForControl, Flush, FlushRest, MoveStream,
         Reserve, ReadStream, Grow, Wrap, Answer, shared, stream
    <3>2. QED
      BY <3>1 DEF Flags
  <2>4. QED
    BY <1>1, <2>1, <2>2, <2>3
<1>2. CASE Reader
  <2>1. UNCHANGED control_res
    BY <1>2 DEF Reader, Served, PrefillEnds, Uninit, Fetch, SeekLong, ClearEof, CheckMax, CheckMin,
       SeeEof, TryAgain, Interrupt, Measure, Index, Copy, Fault, Advance, Ask, Answered, Abandon, shared
  <2>2. eof' = eof \/ eof' = TRUE \/ eof' = FALSE
    BY <1>2 DEF Reader, Served, PrefillEnds, Uninit, Fetch, SeekLong, ClearEof, CheckMax, CheckMin,
       SeeEof, TryAgain, Interrupt, Measure, Index, Copy, Fault, Advance, Ask, Answered, Abandon, shared
  <2>3. ended' \in BOOLEAN
    <3>1. CASE EndFetch(out)
      BY <3>1, Zenon DEF EndFetch
    <3>2. CASE Answered
      BY <3>2, Zenon DEF Answered, Flags
    <3>3. CASE ~EndFetch(out) /\ ~Answered
      <4>1. UNCHANGED ended
        BY <1>2, <3>3 DEF Reader, Served, PrefillEnds, Uninit, Fetch, SeekLong, ClearEof, CheckMax,
           CheckMin, SeeEof, TryAgain, Interrupt, Measure, Index, Copy, Fault, Advance, Ask, Abandon,
           stream
      <4>2. QED
        BY <4>1 DEF Flags
    <3>4. QED
      BY <3>1, <3>2, <3>3
  <2>4. QED
    BY <2>1, <2>2, <2>3, Zenon DEF Flags
<1>3. QED
  BY <1>1, <1>2 DEF Next

LEMMA PlanFields ==
  ASSUME plan \in Plans
  PROVE  /\ plan.read \in Nat /\ plan.base \in Int /\ plan.slot \in Int
         /\ plan.space \in Int /\ plan.len \in Int
BY DEF Plans

LEMMA PlanTypes ==
  ASSUME plan \in Plans
  PROVE  /\ NoPlan \in Plans
         /\ \A p \in Nat : [plan EXCEPT !.read = p] \in Plans
         /\ \A p \in Int : [plan EXCEPT !.base = p] \in Plans
         /\ \A n \in Int : [plan EXCEPT !.len = n] \in Plans
         /\ \A i, n \in Int : [plan EXCEPT !.slot = i, !.space = n] \in Plans
<1>1. NoPlan \in Plans
  BY DEF NoPlan, Plans
<1>2. ASSUME NEW p \in Nat PROVE [plan EXCEPT !.read = p] \in Plans
  BY DEF Plans
<1>3. ASSUME NEW p \in Int PROVE [plan EXCEPT !.base = p] \in Plans
  BY DEF Plans
<1>4. ASSUME NEW p \in Int PROVE [plan EXCEPT !.len = p] \in Plans
  BY DEF Plans
<1>5. ASSUME NEW i \in Int, NEW n \in Int PROVE [plan EXCEPT !.slot = i, !.space = n] \in Plans
  BY DEF Plans
<1>6. QED
  BY <1>1, <1>2, <1>3, <1>4, <1>5

LEMMA TypeInit == Init => TypeOK
<1> SUFFICES ASSUME Init PROVE TypeOK
  OBVIOUS
<1>1. buffer \in [Slots -> Int]
  BY DEF Init, NoByte
<1>2. plan \in Plans
  BY DEF Init, NoPlan, Plans
<1>3. out \in Seq(Int) /\ buf \in Seq(Int)
  BY DEF Init
<1>4. QED
  BY <1>1, <1>2, <1>3, FlagsInit DEF Init, TypeOK, Commands, FaultKinds

LEMMA SpendType ==
  ASSUME TypeOK, NEW k \in SUBSET FaultKinds, Spend(k)
  PROVE  events' \in Nat /\ faults' \subseteq FaultKinds
BY DEF Spend, TypeOK

LEMMA WrittenType ==
  ASSUME TypeOK, NEW slot \in Int, NEW len \in Int
  PROVE  Written(slot, len) \in [Slots -> Int]
BY Sizes DEF Written, TypeOK, Slots

LEMMA FlushType ==
  ASSUME TypeOK, NEW from, NEW to \in {"flushRest", "flushControlRest", "move", "answer"},
         Flush(from, to) \/ FlushRest(from, to)
  PROVE  TypeOK' \/ ~Flags'
<1>1. plan \in Plans /\ read_filepos \in Int /\ plan.base \in Int
  BY PlanFields DEF TypeOK
<1>2. [plan EXCEPT !.base = read_filepos] \in Plans
  BY <1>1, PlanTypes
<1>3. CASE Flush(from, to)
  BY <1>2, <1>3 DEF Flush, TypeOK, copying, stream, history
<1>4. CASE FlushRest(from, to)
  BY <1>1, <1>4 DEF FlushRest, TypeOK, copying, stream, history
<1>5. QED
  BY <1>3, <1>4

LEMMA FillerTypes == ASSUME TypeOK, Filler, Flags' PROVE TypeOK'
<1>1. CASE Snapshot
  BY <1>1, PlanTypes DEF Snapshot, TypeOK, shared, copying, stream, history
<1>2. CASE DropContents \/ FlushForControl
  BY <1>2, FlushType DEF DropContents, FlushForControl
<1>3. CASE MoveStream
  <2>1. events' \in Nat /\ faults' \subseteq FaultKinds /\ streamPos' \in Nat
    BY <1>3, SpendType, PlanFields DEF MoveStream, TypeOK, history, FaultKinds
  <2>2. QED
    BY <1>3, <2>1 DEF MoveStream, TypeOK, shared, copying, stream
<1>4. CASE Reserve
  <2>0. /\ min_filepos \in Int /\ max_filepos \in Int /\ offset \in Int /\ plan.read \in Int
        /\ NewBytes \in Int /\ Back \in Int
    BY Sizes, PlanFields DEF TypeOK, NewBytes, Back, Least, Most
  <2>1. /\ WriteSlot \in Int /\ Space \in Int /\ KeepFrom \in Int /\ Most(min_filepos, KeepFrom) \in Int
    BY <2>0, Sizes DEF WriteSlot, Space, KeepFrom, Free, ToWrap, Least, Most
  <2>2. plan' \in Plans
    BY <1>4, <2>1, PlanTypes, ZenonT(30) DEF Reserve, TypeOK
  <2>3. QED
    BY <1>4, <2>1, <2>2 DEF Reserve, TypeOK, copying, stream, history
<1>5. CASE ReadStream
  <2>1. PICK len \in 0..Least(plan.space, Most(FileSize - streamPos, 0)) :
          /\ buffer' = Written(plan.slot, len)
          /\ streamPos' = streamPos + len
          /\ plan' = [plan EXCEPT !.len = len]
    BY <1>5 DEF ReadStream
  <2>2. len \in Nat /\ plan.slot \in Int
    BY Sizes, PlanFields DEF TypeOK, Least, Most
  <2>3. buffer' \in [Slots -> Int]
    BY <2>1, <2>2, WrittenType
  <2>4. streamPos' \in Nat
    BY <2>1, <2>2 DEF TypeOK
  <2>6. [plan EXCEPT !.len = len] \in Plans
    <3>1. plan \in Plans /\ len \in Int
      BY <2>2 DEF TypeOK
    <3>2. QED
      BY <3>1, PlanTypes
  <2>5. QED
    BY <1>5, <2>1, <2>3, <2>4, <2>6 DEF ReadStream, TypeOK, copying, stream, history
<1>6. CASE SetEof
  BY <1>6 DEF SetEof, TypeOK, copying, stream, history
<1>7. CASE Grow
  BY <1>7 DEF Grow, TypeOK, copying, stream, history
<1>8. CASE Wrap
  <2>1. NoPlan \in Plans
    BY PlanTypes DEF TypeOK
  <2>3. offset \in Int /\ offset + BufferSize \in Int
    BY Sizes DEF TypeOK
  <2>2. QED
    BY <1>8, <2>1, <2>3 DEF Wrap, TypeOK, copying, stream, history
<1>9. CASE ExecuteControl
  BY <1>9, SectorsAreNat DEF ExecuteControl, TypeOK, copying, stream, history
<1>10. CASE Answer
  BY <1>10, PlanTypes DEF Answer, TypeOK, copying, stream, history
<1>11. QED
  BY <1>1, <1>2, <1>3, <1>4, <1>5, <1>6, <1>7, <1>8, <1>9, <1>10 DEF Filler

LEMMA EndFetchType ==
  ASSUME TypeOK, EndFetch(out)
  PROVE  /\ buf' \in Seq(Int) /\ out' \in Seq(Int) /\ pos' \in Nat
         /\ size' \in Int /\ newb' \in Int /\ index' \in Int /\ rpc' = "idle"
<1>1. Len(out) \in Nat
  BY DEF TypeOK
<1>2. QED
  BY <1>1 DEF EndFetch, TypeOK

\* What Advance adds to read_filepos is not negative.
AdvanceType == rpc = "advance" => newb >= 0

LEMMA ReaderTypes == ASSUME TypeOK, AdvanceType, Reader, Flags' PROVE TypeOK'
<1>1. CASE PrefillEnds
  BY <1>1 DEF PrefillEnds, TypeOK, shared, filler, copying, stream, history
<1>2. CASE Uninit
  BY <1>2 DEF Uninit, TypeOK, shared, copying, stream, history
<1>3. CASE Fetch
  BY <1>3, Sizes DEF Fetch, EnterRead, TypeOK, shared, filler, stream, history
<1>4. CASE SeekLong
  <2>1. events' \in Nat /\ faults' \subseteq FaultKinds
    BY <1>4, SpendType DEF SeekLong, FaultKinds
  <2>2. QED
    BY <1>4, <2>1, SectorsAreNat DEF SeekLong, TypeOK, filler, copying
<1>5. CASE ClearEof
  BY <1>5, Sizes DEF ClearEof, EnterRead, TypeOK, filler, stream, history
<1>6. CASE CheckMax \/ CheckMin \/ TryAgain \/ Fault
  BY <1>6 DEF CheckMax, CheckMin, TryAgain, Fault, TypeOK, shared, filler, copying, stream, history
<1>7. CASE SeeEof
  BY <1>7, EndFetchType DEF SeeEof, TypeOK, shared, filler, history
<1>8. CASE Interrupt
  <2>1. events' \in Nat /\ faults' \subseteq FaultKinds
    BY <1>8, SpendType DEF Interrupt, FaultKinds
  <2>2. EndFetch(out)
    BY <1>8 DEF Interrupt
  <2>3. QED
    BY <1>8, <2>1, <2>2, EndFetchType DEF Interrupt, TypeOK, filler
<1>9. CASE Measure
  BY <1>9 DEF Measure, TypeOK, shared, filler, stream, history
<1>10. CASE Index
  BY <1>10, Sizes DEF Index, ReadSlot, Least, TypeOK, shared, filler, stream, history
<1>11. CASE Copy
  <2>1. \A i \in 1..newb : index + i - 1 \in Slots
    BY <1>11, Sizes DEF Copy, InRing, TypeOK, Slots
  <2>6. newb \in Nat
    BY <1>11 DEF Copy, InRing, TypeOK
  <2>2. \A i \in 1..newb : buffer[index + i - 1] \in Int
    BY <2>1 DEF TypeOK
  <2>5. [i \in 1..newb |-> buffer[index + i - 1]] \in Seq(Int)
    BY <2>2, <2>6
  <2>3. out' \in Seq(Int)
    BY <1>11, <2>5 DEF Copy, TypeOK
  <2>4. QED
    BY <1>11, <2>3 DEF Copy, TypeOK, shared, filler, stream, history
<1>12. CASE Advance
  <2>1. read_filepos' \in Nat
    BY <1>12 DEF Advance, TypeOK, AdvanceType
  <2>2. CASE size = newb
    <3>1. EndFetch(out)
      BY <1>12, <2>2 DEF Advance
    <3>2. QED
      BY <1>12, <2>1, <3>1, EndFetchType DEF Advance, TypeOK, filler, history
  <2>3. CASE size # newb
    BY <1>12, <2>1, <2>3 DEF Advance, TypeOK, filler, stream, history
  <2>4. QED
    BY <2>2, <2>3
<1>13. CASE Ask
  <2>1. events' \in Nat /\ faults' \subseteq FaultKinds
    BY <1>13, SpendType DEF Ask, FaultKinds
  <2>2. QED
    BY <1>13, <2>1 DEF Ask, TypeOK, filler, copying, stream
<1>14. CASE Answered
  BY <1>14 DEF Answered, TypeOK, shared, filler, copying, history
<1>15. CASE Abandon
  <2>1. events' \in Nat /\ faults' \subseteq FaultKinds
    BY <1>15, SpendType DEF Abandon, FaultKinds
  <2>2. QED
    BY <1>15, <2>1 DEF Abandon, TypeOK, filler, copying, stream
<1>16. QED
  BY <1>1, <1>2, <1>3, <1>4, <1>5, <1>6, <1>7, <1>8, <1>9, <1>10, <1>11, <1>12, <1>13, <1>14,
     <1>15 DEF Reader, Served

LEMMA AdvanceStep == ASSUME TypeOK, AdvanceType, Next PROVE AdvanceType'
<1>1. CASE Filler
  <2>1. UNCHANGED <<rpc, newb>>
    BY <1>1 DEF Filler, Snapshot, DropContents, FlushForControl, Flush, FlushRest, MoveStream, Reserve,
       ReadStream, SetEof, Grow, Wrap, ExecuteControl, Answer, copying
  <2>2. QED
    BY <2>1 DEF AdvanceType
<1>2. CASE Copy
  BY <1>2 DEF Copy, InRing, AdvanceType
<1>3. CASE Reader /\ ~Copy
  <2>1. rpc' # "advance"
    BY <1>3 DEF Reader, Served, PrefillEnds, Uninit, Fetch, EnterRead, SeekLong, ClearEof, CheckMax,
       CheckMin, SeeEof, TryAgain, Interrupt, Measure, Index, Fault, Advance, EndFetch, Ask, Answered,
       Abandon
  <2>2. QED
    BY <2>1 DEF AdvanceType
<1>4. QED
  BY <1>1, <1>2, <1>3 DEF Next

\* Every field of the cache and every local variable keeps its type.
THEOREM TypeCorrect == Spec => []TypeOK
<1>1. Init => TypeOK /\ AdvanceType
  BY TypeInit DEF Init, AdvanceType
<1>2. TypeOK /\ AdvanceType /\ [Next]_vars => TypeOK' /\ AdvanceType'
  <2> SUFFICES ASSUME TypeOK, AdvanceType, [Next]_vars PROVE TypeOK' /\ AdvanceType'
    OBVIOUS
  <2>1. CASE Next
    <3>1. Flags'
      BY <2>1, FlagTypes DEF TypeOK
    <3>2. QED
      BY <2>1, <3>1, FillerTypes, ReaderTypes, AdvanceStep DEF Next
  <2>2. CASE UNCHANGED vars
    BY <2>2 DEF vars, shared, filler, copying, stream, history, TypeOK, Flags, AdvanceType
  <2>3. QED
    BY <2>1, <2>2
<1>3. QED
  BY <1>1, <1>2, PTL DEF Spec

---------------------------------------------------------------------------
(* The ring: what the filler alone keeps, whatever the reader does *)

\* Between steps of a fill, slot 0 is at most one turn behind the end of the
\* window; the part being filled begins where the window ends.
Ring ==
  /\ ~Flushing /\ fpc \notin {"wrap", "dead"} => offset <= max_filepos /\ max_filepos < offset + BufferSize
  /\ fpc \in {"read", "eof", "grow", "wrap"} =>
       /\ 0 <= plan.slot /\ plan.slot < BufferSize
       /\ 0 <= plan.space /\ plan.space <= BufferSize
  /\ fpc \in {"eof", "grow", "wrap"} => 0 <= plan.len /\ plan.len <= plan.space
  /\ fpc \in {"read", "eof", "grow"} => plan.slot = max_filepos - offset
  /\ fpc = "wrap" => max_filepos = offset + plan.slot + plan.len
  /\ Flushing => max_filepos = plan.base

RingInv == TypeOK /\ Ring /\ WindowFits

\* A read fits: it leaves what lies between the reader and the end of the window.
LEMMA SpaceFits ==
  ASSUME TypeOK, Ring, WindowFits, fpc = "plan", Free >= FillLimit
  PROVE  /\ WriteSlot = max_filepos - offset /\ 0 <= WriteSlot /\ WriteSlot < BufferSize
         /\ Space \in Int /\ 0 <= Space /\ Space <= BufferSize
         /\ Space + NewBytes <= BufferSize
         /\ KeepFrom \in Int /\ KeepFrom <= plan.read
         /\ max_filepos + Space - KeepFrom <= BufferSize
         /\ Most(min_filepos, KeepFrom) \in Int
<1>1. /\ max_filepos \in Int /\ offset \in Int /\ min_filepos \in Int /\ plan.read \in Int
      /\ offset <= max_filepos /\ max_filepos < offset + BufferSize
  BY PlanFields DEF Ring, TypeOK, Flushing
<1>2. /\ NewBytes \in Int /\ 0 <= NewBytes /\ max_filepos - plan.read <= NewBytes
      /\ Back \in Int /\ 0 <= Back
  BY <1>1, Sizes DEF NewBytes, Back, Least, Most
<1>3. WriteSlot = max_filepos - offset /\ 0 <= WriteSlot /\ WriteSlot < BufferSize
  BY <1>1, Sizes DEF WriteSlot
<1>4. ToWrap \in Int /\ 1 <= ToWrap
  BY <1>1, <1>3, Sizes DEF ToWrap
<1>5. Free \in Int /\ Free <= BufferSize - NewBytes /\ SectorSize <= Free
  BY <1>2, Sizes DEF Free
<1>6. Space \in Int /\ 0 <= Space /\ Space <= Free
  BY <1>4, <1>5, Sizes DEF Space, Least
<1>7. KeepFrom \in Int /\ KeepFrom <= plan.read /\ max_filepos + Space - KeepFrom <= BufferSize
  BY <1>1, <1>2, <1>5, <1>6, Sizes DEF KeepFrom
<1>8. QED
  BY <1>1, <1>2, <1>3, <1>5, <1>6, <1>7, Sizes DEF Most

LEMMA LessLeft ==
  \A m, s, k, n, b \in Int : m + s - k <= b /\ k <= n => m + s - n <= b
BY SMT

LEMMA FillerRing == ASSUME RingInv, Filler PROVE Ring' /\ WindowFits'
<1> USE Sizes DEF RingInv
<1>1. CASE Snapshot
  <2>1. fpc = "fill" /\ fpc' \in {"flush", "plan"} /\ UNCHANGED <<min_filepos, max_filepos, offset>>
    BY <1>1 DEF Snapshot, shared
  <2>2. QED
    BY <2>1 DEF Ring, WindowFits, Flushing
<1>2. CASE \E from, to : Flush(from, to) /\ to \in {"flushRest", "flushControlRest"}
  <2>1. max_filepos' = read_filepos /\ plan'.base = read_filepos /\ Flushing'
    BY <1>2 DEF Flush, Flushing, TypeOK, Plans
  <2>2. QED
    BY <2>1 DEF Ring, WindowFits, Flushing
<1>3. CASE \E from, to : FlushRest(from, to) /\ from \in {"flushRest", "flushControlRest"}
                                            /\ to \in {"move", "answer"}
  <2>1. /\ min_filepos' = plan.base /\ offset' = plan.base /\ max_filepos' = max_filepos
        /\ Flushing /\ fpc' \in {"move", "answer"} /\ plan.base \in Int
    BY <1>3, PlanFields DEF FlushRest, Flushing, TypeOK
  <2>2. QED
    BY <2>1 DEF Ring, WindowFits, Flushing
<1>4. CASE MoveStream \/ SetEof \/ ExecuteControl
  <2>1. /\ UNCHANGED <<min_filepos, max_filepos, offset, plan>>
        /\ \/ fpc = "move" /\ fpc' = "plan"
           \/ fpc = "eof" /\ fpc' = "grow"
           \/ fpc = "control" /\ fpc' \in {"fill", "answer", "flushControl"}
    BY <1>4 DEF MoveStream, SetEof, ExecuteControl, shared
  <2>2. QED
    BY <2>1 DEF Ring, WindowFits, Flushing
<1>5. CASE Reserve
  <2>0. Free \in Int /\ FillLimit \in Int
    <3>1. plan.read \in Int /\ min_filepos \in Int /\ max_filepos \in Int
      BY PlanFields DEF TypeOK
    <3>2. NewBytes \in Int /\ Back \in Int
      BY <3>1 DEF NewBytes, Back, Least, Most
    <3>3. QED
      BY <3>2 DEF Free
  <2>1. CASE Free < FillLimit
    <3>1. fpc = "plan" /\ fpc' = "control" /\ UNCHANGED <<min_filepos, max_filepos, offset>>
      BY <1>5, <2>0, <2>1 DEF Reserve
    <3>2. QED
      BY <3>1 DEF Ring, WindowFits, Flushing
  <2>2. CASE Free >= FillLimit
    <3>1. /\ fpc = "plan" /\ fpc' = "read" /\ UNCHANGED <<max_filepos, offset>>
          /\ plan' = [plan EXCEPT !.slot = WriteSlot, !.space = Space]
          /\ min_filepos' = Most(min_filepos, KeepFrom)
      BY <1>5, <2>0, <2>2 DEF Reserve
    <3>2. plan'.slot = WriteSlot /\ plan'.space = Space
      BY <3>1 DEF TypeOK, Plans
    <3>3. /\ WriteSlot = max_filepos - offset /\ 0 <= WriteSlot /\ WriteSlot < BufferSize
          /\ Space \in Int /\ 0 <= Space /\ Space <= BufferSize
          /\ KeepFrom \in Int /\ max_filepos + Space - KeepFrom <= BufferSize
      BY <2>2, <3>1, SpaceFits
    <3>8. min_filepos \in Int /\ max_filepos \in Int /\ offset \in Int /\ KeepFrom \in Int
      BY <3>3 DEF TypeOK
    <3>4. min_filepos' \in Int /\ KeepFrom <= min_filepos'
      BY <3>1, <3>8 DEF Most
    <3>5. max_filepos + Space - min_filepos' <= BufferSize
      <4>1. /\ max_filepos \in Int /\ Space \in Int /\ KeepFrom \in Int /\ min_filepos' \in Int
            /\ BufferSize \in Int /\ max_filepos + Space - KeepFrom <= BufferSize
            /\ KeepFrom <= min_filepos'
        BY <3>3, <3>4, <3>8
      <4>2. QED
        BY <4>1, LessLeft
    <3>6. offset <= max_filepos /\ max_filepos < offset + BufferSize
      BY <3>1 DEF Ring, Flushing
    <3>7. QED
      BY <3>1, <3>2, <3>3, <3>4, <3>5, <3>6, <3>8 DEF Ring, WindowFits, Flushing
  <2>3. QED
    BY <1>5, <2>1, <2>2 DEF Reserve
<1>6. CASE ReadStream
  <2>1. PICK len \in 0..Least(plan.space, Most(FileSize - streamPos, 0)) :
          plan' = [plan EXCEPT !.len = len]
    BY <1>6 DEF ReadStream
  <2>2. fpc = "read" /\ fpc' = "eof" /\ UNCHANGED <<min_filepos, max_filepos, offset>>
    BY <1>6 DEF ReadStream
  <2>3. plan'.slot = plan.slot /\ plan'.space = plan.space /\ plan'.len = len
    BY <2>1 DEF TypeOK, Plans
  <2>6. plan.space \in Int /\ streamPos \in Int /\ FileSize \in Int /\ 0 <= plan.space
    <3>1. plan \in Plans /\ streamPos \in Nat
      BY DEF TypeOK
    <3>2. 0 <= plan.space
      BY <2>2 DEF Ring
    <3>3. QED
      BY <3>1, <3>2, PlanFields
  <2>4. 0 <= len /\ len <= plan.space
    BY <2>1, <2>6 DEF Least, Most
  <2>5. QED
    BY <2>2, <2>3, <2>4, <2>6 DEF Ring, WindowFits, Flushing
<1>7. CASE Grow
  <2>1. /\ fpc = "grow" /\ fpc' = "wrap" /\ max_filepos' = max_filepos + plan.len
        /\ UNCHANGED <<min_filepos, offset, plan>>
    BY <1>7 DEF Grow
  <2>2. /\ plan.len \in Int /\ plan.slot \in Int /\ plan.space \in Int
        /\ max_filepos \in Int /\ offset \in Int /\ min_filepos \in Int
    BY PlanFields DEF TypeOK
  <2>3. QED
    BY <2>1, <2>2 DEF Ring, WindowFits, Flushing
<1>8. CASE Wrap
  <2>1. /\ fpc = "wrap" /\ fpc' = "control" /\ UNCHANGED <<min_filepos, max_filepos>>
        /\ offset' = IF plan.slot + plan.len >= BufferSize THEN offset + BufferSize ELSE offset
    BY <1>8 DEF Wrap
  <2>2. /\ plan.len \in Int /\ plan.slot \in Int /\ plan.space \in Int
        /\ max_filepos \in Int /\ offset \in Int /\ min_filepos \in Int
    BY PlanFields DEF TypeOK
  <2>3. QED
    BY <2>1, <2>2 DEF Ring, WindowFits, Flushing
<1>9. CASE Answer
  <2>1. fpc = "answer" /\ fpc' = "fill" /\ UNCHANGED <<min_filepos, max_filepos, offset>>
    BY <1>9 DEF Answer
  <2>2. QED
    BY <2>1 DEF Ring, WindowFits, Flushing
<1>10. QED
  BY <1>1, <1>2, <1>3, <1>4, <1>5, <1>6, <1>7, <1>8, <1>9 DEF Filler, DropContents, FlushForControl

\* The reader writes none of the filler's fields; closing stops the filler.
LEMMA ReaderKeepsWindow ==
  ASSUME Reader
  PROVE  /\ min_filepos' = min_filepos /\ max_filepos' = max_filepos /\ offset' = offset
         /\ plan' = plan /\ streamPos' = streamPos
<1>1. CASE PrefillEnds \/ CheckMax \/ CheckMin \/ SeeEof \/ TryAgain \/ Fault
  BY <1>1 DEF PrefillEnds, CheckMax, CheckMin, SeeEof, TryAgain, Fault, shared, filler
<1>2. CASE Uninit
  BY <1>2 DEF Uninit, shared
<1>3. CASE Measure \/ Index \/ Copy \/ Answered \/ Fetch
  BY <1>3 DEF Measure, Index, Copy, Answered, Fetch, shared, filler
<1>4. CASE SeekLong \/ Ask \/ Interrupt \/ Abandon \/ ClearEof \/ Advance
  BY <1>4 DEF SeekLong, Ask, Interrupt, Abandon, ClearEof, Advance, filler
<1>5. QED
  BY <1>1, <1>2, <1>3, <1>4 DEF Reader, Served

LEMMA ReaderKeepsFiller == ASSUME Reader, ~Uninit PROVE fpc' = fpc
<1>1. CASE PrefillEnds \/ CheckMax \/ CheckMin \/ SeeEof \/ TryAgain \/ Fault
  BY <1>1 DEF PrefillEnds, CheckMax, CheckMin, SeeEof, TryAgain, Fault, filler
<1>2. CASE Measure \/ Index \/ Copy \/ Answered \/ Fetch
  BY <1>2 DEF Measure, Index, Copy, Answered, Fetch, filler
<1>3. CASE SeekLong \/ Ask \/ Interrupt \/ Abandon \/ ClearEof \/ Advance
  BY <1>3 DEF SeekLong, Ask, Interrupt, Abandon, ClearEof, Advance, filler
<1>4. QED
  BY <1>1, <1>2, <1>3 DEF Reader, Served

LEMMA RingStep == ASSUME RingInv, [Next]_vars PROVE Ring' /\ WindowFits'
<1>1. CASE Filler
  BY <1>1, FillerRing
<1>2. CASE Reader
  <2>1. UNCHANGED <<min_filepos, max_filepos, offset, plan>>
    BY <1>2, ReaderKeepsWindow
  <2>2. CASE Uninit
    <3>1. fpc' = "dead"
      BY <2>2 DEF Uninit
    <3>2. QED
      BY <2>1, <3>1 DEF RingInv, Ring, WindowFits, Flushing
  <2>3. CASE ~Uninit
    <3>1. fpc' = fpc
      BY <1>2, <2>3, ReaderKeepsFiller
    <3>2. QED
      BY <2>1, <3>1 DEF RingInv, Ring, WindowFits, Flushing
  <2>4. QED
    BY <2>2, <2>3
<1>3. CASE UNCHANGED vars
  BY <1>3 DEF vars, shared, filler, RingInv, Ring, WindowFits, Flushing
<1>4. QED
  BY <1>1, <1>2, <1>3 DEF Next

LEMMA RingInit == Init => Ring /\ WindowFits
<1> SUFFICES ASSUME Init PROVE Ring /\ WindowFits
  OBVIOUS
<1>1. /\ fpc = "fill" /\ min_filepos = 0 /\ max_filepos = 0 /\ offset = 0
      /\ BufferSize \in Nat /\ 1 <= BufferSize
  BY Sizes DEF Init
<1>2. QED
  BY <1>1 DEF Ring, WindowFits, Flushing

\* The window never holds more positions than the ring has slots, and what the
\* filler writes lies outside of it (cache_fill, line 239).
THEOREM RingHolds == Spec => [](Ring /\ WindowFits)
<1>1. Init => Ring /\ WindowFits
  BY RingInit
<1>2. TypeOK /\ Ring /\ WindowFits /\ [Next]_vars => (Ring /\ WindowFits)'
  BY RingStep DEF RingInv
<1>3. QED
  BY <1>1, <1>2, TypeCorrect, PTL DEF Spec

---------------------------------------------------------------------------
(* The reader: the positions that it sees, for a reader that goes forward *)

Asked == rpc \in {"askedSeek", "askedQuery"}
Answering == fpc \in {"flushControl", "flushControlRest", "answer"}

\* A command waits only while its asker does.
Waits ==
  /\ control = "seek" => rpc = "askedSeek"
  /\ control = "query" => rpc = "askedQuery"
  /\ Answering => control # "none"
  /\ fpc \in {"flushControl", "flushControlRest"} => control = "seek" /\ control_res
  /\ fpc = "dead" => rpc = "closed"

\* The command has moved the cache and not yet the player's stream.
Moved == rpc = "askedSeek" /\ control_res /\ (Answering \/ control = "none")

Position ==
  /\ rpc \in {"prefill", "idle", "clearEof"} => pos = read_filepos /\ out = <<>>
  /\ rpc \in {"checkMax", "starved", "checkMin", "measure", "index", "copy"} =>
       pos + Len(out) = read_filepos
  /\ rpc = "advance" => pos + Len(out) = read_filepos + newb
  /\ Asked => out = <<>> /\ (pos = read_filepos \/ Moved)

\* The window reaches back to the reader; what the filler remembers of the
\* reader's position is behind it.
Ahead ==
  /\ fpc \notin {"flushControl", "flushControlRest"} => min_filepos <= read_filepos
  /\ Flushing => plan.base <= read_filepos
  /\ fpc \in {"flush", "flushRest", "move", "plan", "read", "eof", "grow", "wrap"} =>
       plan.read <= read_filepos
  /\ fpc = "flush" => max_filepos <= read_filepos

\* Once the reader has seen bytes to read they stay there.
Seen ==
  /\ rpc \in {"checkMax", "starved", "checkMin", "measure", "index", "copy", "advance"} => 1 <= size
  /\ rpc \in {"checkMin", "measure", "index", "copy", "advance"} => read_filepos < max_filepos
  /\ rpc \in {"index", "copy", "advance"} => 1 <= newb /\ read_filepos + newb <= max_filepos
  /\ rpc \in {"copy", "advance"} => newb <= size /\ InRing
  /\ rpc # "fault"

Patient == "abandoned" \notin faults

LEMMA FaultsStay == ASSUME [Next]_vars PROVE faults \subseteq faults'
BY DEF vars, Next, Filler, Snapshot, DropContents, FlushForControl, Flush, FlushRest, MoveStream, Reserve,
   ReadStream, SetEof, Grow, Wrap, ExecuteControl, Answer, Reader, Served, PrefillEnds, Uninit, Fetch,
   SeekLong, ClearEof, CheckMax, CheckMin, SeeEof, TryAgain, Interrupt, Measure, Index, Copy, Fault,
   Advance, Ask, Answered, Abandon, Spend, history

\* The filler writes nothing of the reader's.
LEMMA FillerKeeps ==
  ASSUME Filler
  PROVE  UNCHANGED <<rpc, size, newb, index, out, pos, buf>>
BY DEF Filler, Snapshot, DropContents, FlushForControl, Flush, FlushRest, MoveStream, Reserve,
   ReadStream, SetEof, Grow, Wrap, ExecuteControl, Answer, copying, stream

\* The steps of a fill, which leave the commands alone.
Filling ==
  Snapshot \/ DropContents \/ MoveStream \/ Reserve \/ ReadStream \/ SetEof \/ Grow \/ Wrap

LEMMA FillingKeeps ==
  ASSUME Filling
  PROVE  /\ control' = control /\ control_res' = control_res /\ read_filepos' = read_filepos
         /\ ~Answering /\ ~Answering'
         /\ fpc # "dead" /\ fpc' # "dead"
         /\ fpc' \notin {"flushControl", "flushControlRest"}
         /\ fpc \notin {"flushControl", "flushControlRest"}
BY DEF Filling, Snapshot, DropContents, Flush, FlushRest, MoveStream, Reserve, ReadStream, SetEof, Grow,
   Wrap, shared, Answering

LEMMA ServedKeeps ==
  ASSUME Reader, ~Uninit, ~Ask, ~Abandon, ~Answered
  PROVE  /\ control' = control /\ control_res' = control_res
         /\ rpc \notin {"askedSeek", "askedQuery", "closed"}
         /\ rpc' \notin {"askedSeek", "askedQuery", "closed"}
BY DEF Reader, Served, PrefillEnds, Fetch, EnterRead, SeekLong, ClearEof, CheckMax, CheckMin, SeeEof,
   TryAgain, Interrupt, EndFetch, Measure, Index, Copy, Fault, Advance, shared

LEMMA WaitsStep ==
  ASSUME TypeOK, Waits, [Next]_vars, Patient'
  PROVE  Waits'
<1>0. control \in {"seek", "query", "none"}
  BY DEF TypeOK, Commands
<1>1. CASE Filling
  <2>1. UNCHANGED <<rpc, control, control_res>> /\ ~Answering' /\ fpc' # "dead"
        /\ fpc' \notin {"flushControl", "flushControlRest"}
    BY <1>1, FillingKeeps, FillerKeeps DEF Filling, Filler
  <2>2. QED
    BY <2>1 DEF Waits
<1>2. CASE ExecuteControl
  <2>1. /\ rpc' = rpc /\ control' = control
        /\ \/ control = "none" /\ fpc' = "fill"
           \/ control # "none" /\ fpc' = "answer"
           \/ control = "seek" /\ fpc' = "flushControl" /\ control_res'
    BY <1>2 DEF ExecuteControl
  <2>2. QED
    BY <2>1 DEF Waits, Answering
<1>3. CASE FlushForControl
  <2>1. /\ rpc' = rpc /\ control' = control /\ control_res' = control_res
        /\ \/ fpc = "flushControl" /\ fpc' = "flushControlRest"
           \/ fpc = "flushControlRest" /\ fpc' = "answer"
    BY <1>3 DEF FlushForControl, Flush, FlushRest
  <2>2. QED
    BY <2>1 DEF Waits, Answering
<1>4. CASE Answer
  <2>1. fpc' = "fill" /\ control' = "none"
    BY <1>4 DEF Answer
  <2>2. QED
    BY <2>1 DEF Waits, Answering
<1>5. CASE Uninit
  <2>1. rpc \in {"prefill", "idle"} /\ rpc' = "closed" /\ fpc' = "dead" /\ control' = control
    BY <1>5 DEF Uninit, shared
  <2>2. QED
    BY <1>0, <2>1 DEF Waits, Answering
<1>6. CASE Ask
  <2>1. /\ rpc = "idle" /\ control' \in {"seek", "query"} /\ fpc' = fpc
        /\ rpc' = IF control' = "seek" THEN "askedSeek" ELSE "askedQuery"
    BY <1>6 DEF Ask, filler, Commands
  <2>2. ~Answering /\ fpc # "dead"
    BY <1>0, <2>1 DEF Waits
  <2>3. QED
    BY <2>1, <2>2 DEF Waits, Answering
<1>7. CASE Abandon
  BY <1>7 DEF Abandon, Spend, Patient
<1>8. CASE Answered
  <2>1. control = "none" /\ control' = control /\ fpc' = fpc /\ rpc # "closed"
    BY <1>8 DEF Answered, shared, filler
  <2>2. QED
    BY <2>1 DEF Waits, Answering
<1>9. CASE Reader /\ ~Uninit /\ ~Ask /\ ~Abandon /\ ~Answered
  <2>1. control' = control /\ control_res' = control_res /\ fpc' = fpc
        /\ rpc \notin {"askedSeek", "askedQuery", "closed"}
    BY <1>9, ServedKeeps, ReaderKeepsFiller
  <2>2. control = "none" /\ fpc # "dead"
    BY <1>0, <2>1 DEF Waits
  <2>3. QED
    BY <2>1, <2>2 DEF Waits, Answering
<1>10. CASE UNCHANGED vars
  BY <1>10 DEF vars, shared, filler, Waits, Answering
<1>11. QED
  BY <1>1, <1>2, <1>3, <1>4, <1>5, <1>6, <1>7, <1>8, <1>9, <1>10 DEF Next, Filler, Filling

LEMMA PositionStep ==
  ASSUME TypeOK, Waits, Position, [Next]_vars, Patient'
  PROVE  Position'
<1>0. /\ control \in {"seek", "query", "none"}
      /\ read_filepos \in Nat /\ pos \in Nat /\ Len(out) \in Nat /\ newb \in Int /\ size \in Int
  BY DEF TypeOK, Commands
<1>1. CASE Filling
  <2>1. UNCHANGED <<rpc, newb, out, pos, control, control_res, read_filepos>> /\ ~Answering /\ ~Answering'
    BY <1>1, FillingKeeps, FillerKeeps DEF Filling, Filler
  <2>2. QED
    BY <2>1 DEF Position, Moved, Asked
<1>2. CASE ExecuteControl
  <2>1. UNCHANGED <<rpc, newb, out, pos, control>> /\ ~Answering
    BY <1>2, FillerKeeps DEF ExecuteControl, Filler, Answering
  <2>2. CASE control = "none"
    <3>1. UNCHANGED <<control_res, read_filepos>>
      BY <1>2, <2>2 DEF ExecuteControl
    <3>2. QED
      BY <2>1, <2>2, <3>1 DEF Position, Moved, Asked
  <2>3. CASE control # "none"
    <3>1. Asked /\ pos = read_filepos /\ out = <<>>
      BY <1>0, <2>1, <2>3 DEF Waits, Position, Moved, Asked
    <3>2. CASE read_filepos' = read_filepos
      BY <2>1, <3>1, <3>2 DEF Position, Asked
    <3>3. CASE read_filepos' # read_filepos
      <4>1. control = "seek" /\ control_res' = TRUE /\ fpc' = "flushControl"
        BY <1>2, <3>3 DEF ExecuteControl
      <4>2. rpc' = "askedSeek" /\ control_res' /\ Answering'
        BY <2>1, <4>1 DEF Waits, Answering
      <4>3. QED
        BY <2>1, <3>1, <4>2 DEF Position, Moved, Asked
    <3>4. QED
      BY <3>2, <3>3
  <2>4. QED
    BY <2>2, <2>3
<1>3. CASE FlushForControl \/ Answer
  <2>1. UNCHANGED <<rpc, newb, out, pos>>
    BY <1>3, FillerKeeps DEF Filler
  <2>2. read_filepos' = read_filepos /\ control_res' = control_res /\ (Answering' \/ control' = "none")
    BY <1>3 DEF FlushForControl, Flush, FlushRest, Answer, Answering
  <2>3. QED
    BY <2>1, <2>2 DEF Position, Moved, Asked
<1>4. CASE Reader
  <2>1. CASE PrefillEnds \/ Fetch \/ ClearEof
    <3>1. UNCHANGED <<out, pos, read_filepos>> /\ rpc' \in {"idle", "checkMax"}
          /\ rpc \in {"prefill", "idle", "clearEof"}
      BY <2>1 DEF PrefillEnds, Fetch, ClearEof, EnterRead, shared, copying, stream
    <3>2. pos = read_filepos /\ out = <<>> /\ Len(out) = 0
      BY <3>1 DEF Position
    <3>3. QED
      BY <1>0, <3>1, <3>2 DEF Position, Asked
  <2>2. CASE Uninit \/ Fault
    <3>1. rpc' \in {"closed", "fault"}
      BY <2>2 DEF Uninit, Fault
    <3>2. QED
      BY <3>1 DEF Position, Asked
  <2>3. CASE SeekLong
    <3>1. rpc' = "clearEof" /\ pos' = read_filepos' /\ out' = out /\ rpc = "idle"
      BY <2>3 DEF SeekLong, copying
    <3>2. QED
      BY <3>1 DEF Position, Asked
  <2>4. CASE CheckMax \/ CheckMin \/ TryAgain \/ Measure \/ Index
    <3>1. /\ UNCHANGED <<out, pos, read_filepos>>
          /\ rpc \in {"checkMax", "starved", "checkMin", "measure", "index"}
          /\ rpc' \in {"checkMax", "starved", "checkMin", "measure", "index", "copy"}
      BY <2>4 DEF CheckMax, CheckMin, TryAgain, Measure, Index, shared, copying, stream
    <3>2. QED
      BY <3>1 DEF Position, Asked
  <2>5. CASE SeeEof \/ Interrupt
    <3>1. /\ rpc = "starved" /\ rpc' = "idle" /\ read_filepos' = read_filepos
          /\ pos' = pos + Len(out) /\ out' = <<>>
      BY <2>5 DEF SeeEof, Interrupt, EndFetch, shared
    <3>2. QED
      BY <3>1 DEF Position, Asked
  <2>6. CASE Copy
    <3>1. /\ rpc = "copy" /\ rpc' = "advance" /\ UNCHANGED <<pos, read_filepos, newb>>
          /\ out' = out \o [i \in 1..newb |-> buffer[index + i - 1]] /\ newb \in Nat
      BY <1>0, <2>6 DEF Copy, InRing, shared, stream
    <3>2. [i \in 1..newb |-> buffer[index + i - 1]] \in Seq(Int)
      <4>1. \A i \in 1..newb : index + i - 1 \in Slots
        BY <2>6, Sizes DEF Copy, InRing, TypeOK, Slots
      <4>2. \A i \in 1..newb : buffer[index + i - 1] \in Int
        BY <4>1 DEF TypeOK
      <4>3. QED
        BY <3>1, <4>2
    <3>3. Len([i \in 1..newb |-> buffer[index + i - 1]]) = newb
      BY <3>1, <3>2
    <3>4. Len(out') = Len(out) + newb
      BY <3>1, <3>2, <3>3 DEF TypeOK
    <3>5. QED
      BY <1>0, <3>1, <3>4 DEF Position, Asked
  <2>7. CASE Advance
    <3>1. rpc = "advance" /\ read_filepos' = read_filepos + newb
      BY <2>7 DEF Advance
    <3>2. CASE size = newb
      <4>1. pos' = pos + Len(out) /\ out' = <<>> /\ rpc' = "idle"
        BY <2>7, <3>2 DEF Advance, EndFetch
      <4>2. QED
        BY <3>1, <4>1 DEF Position, Asked
    <3>3. CASE size # newb
      <4>1. UNCHANGED <<out, pos>> /\ rpc' = "checkMax"
        BY <2>7, <3>3 DEF Advance, stream
      <4>2. QED
        BY <3>1, <4>1 DEF Position, Asked
    <3>4. QED
      BY <3>2, <3>3
  <2>8. CASE Ask
    <3>1. /\ rpc = "idle" /\ rpc' \in {"askedSeek", "askedQuery"}
          /\ UNCHANGED <<out, pos, read_filepos>>
      BY <2>8 DEF Ask, copying, stream
    <3>2. QED
      BY <3>1 DEF Position, Asked
  <2>9. CASE Answered
    <3>1. /\ Asked /\ rpc' = "idle" /\ UNCHANGED <<out, read_filepos>>
          /\ IF rpc = "askedSeek" /\ control_res THEN pos' = read_filepos ELSE pos' = pos
      BY <2>9 DEF Answered, shared, copying, Asked
    <3>2. pos' = read_filepos
      BY <3>1 DEF Position, Moved
    <3>3. out = <<>>
      BY <3>1 DEF Position, Asked
    <3>4. QED
      BY <3>1, <3>2, <3>3 DEF Position, Asked
  <2>10. CASE Abandon
    BY <2>10 DEF Abandon, Spend, Patient
  <2>11. QED
    BY <1>4, <2>1, <2>2, <2>3, <2>4, <2>5, <2>6, <2>7, <2>8, <2>9, <2>10 DEF Reader, Served
<1>5. CASE UNCHANGED vars
  BY <1>5 DEF vars, shared, filler, copying, stream, Position, Moved, Asked, Answering
<1>6. QED
  BY <1>1, <1>2, <1>3, <1>4, <1>5 DEF Next, Filler, Filling

LEMMA PositionInit == Init => Waits /\ Position
BY DEF Init, Waits, Position, Asked, Answering

LEMMA PatientHolds == Spec => [](Patient => Waits /\ Position)
<1>1. Init => (Patient => Waits /\ Position)
  BY PositionInit
<1>2. TypeOK /\ (Patient => Waits /\ Position) /\ [Next]_vars => (Patient => Waits /\ Position)'
  <2>1. [Next]_vars /\ Patient' => Patient
    BY FaultsStay DEF Patient
  <2>2. QED
    BY <2>1, WaitsStep, PositionStep
<1>3. QED
  BY <1>1, <1>2, TypeCorrect, PTL DEF Spec

\* Player and cache agree on the position whenever the reader begins something
\* new, unless it left a command behind (the message of line 554 never shows).
THEOREM PositionsAgree == Spec => []PosAgrees
<1>1. (Patient => Waits /\ Position) => PosAgrees
  BY DEF Patient, Position, PosAgrees
<1>2. QED
  BY <1>1, PatientHolds, PTL

Held == TypeOK /\ Ring /\ WindowFits /\ Waits /\ Ahead /\ Seen

LEMMA FillerAhead ==
  ASSUME Held, Filler
  PROVE  Ahead'
<1>0. /\ read_filepos \in Int /\ min_filepos \in Int /\ max_filepos \in Int
      /\ plan.read \in Int /\ plan.base \in Int /\ plan \in Plans
  BY PlanFields DEF Held, TypeOK
<1>1. CASE Snapshot
  <2>1. /\ fpc = "fill" /\ fpc' = (IF OutOfReach(read_filepos) THEN "flush" ELSE "plan")
        /\ UNCHANGED <<read_filepos, min_filepos, max_filepos>>
        /\ plan' = [plan EXCEPT !.read = read_filepos]
    BY <1>1 DEF Snapshot, shared
  <2>2. plan'.read = read_filepos
    BY <1>0, <2>1 DEF Plans
  <2>3. min_filepos <= read_filepos
    BY <2>1 DEF Held, Ahead
  <2>4. OutOfReach(read_filepos) => max_filepos <= read_filepos
    BY <1>0, <2>3 DEF OutOfReach
  <2>5. QED
    BY <1>0, <2>1, <2>2, <2>3, <2>4 DEF Ahead, Flushing
<1>2. CASE DropContents \/ FlushForControl
  <2>1. CASE \E from, to : Flush(from, to) /\ <<from, to>> \in {<<"flush", "flushRest">>,
                                                  <<"flushControl", "flushControlRest">>}
    <3>1. /\ <<fpc, fpc'>> \in {<<"flush", "flushRest">>, <<"flushControl", "flushControlRest">>}
          /\ UNCHANGED <<read_filepos, min_filepos>>
          /\ plan' = [plan EXCEPT !.base = read_filepos]
      BY <2>1 DEF Flush
    <3>2. plan'.read = plan.read /\ plan'.base = read_filepos
      BY <1>0, <3>1 DEF Plans
    <3>3. QED
      BY <1>0, <3>1, <3>2 DEF Held, Ahead, Flushing
  <2>2. CASE \E from, to : FlushRest(from, to) /\ <<from, to>> \in {<<"flushRest", "move">>,
                                                      <<"flushControlRest", "answer">>}
    <3>1. /\ <<fpc, fpc'>> \in {<<"flushRest", "move">>, <<"flushControlRest", "answer">>}
          /\ UNCHANGED <<read_filepos, plan>>
          /\ min_filepos' = plan.base
      BY <2>2 DEF FlushRest
    <3>2. QED
      BY <1>0, <3>1 DEF Held, Ahead, Flushing
  <2>3. QED
    BY <1>2, <2>1, <2>2 DEF DropContents, FlushForControl
<1>3. CASE MoveStream \/ SetEof \/ Grow
  <2>1. /\ UNCHANGED <<read_filepos, min_filepos, plan>>
        /\ <<fpc, fpc'>> \in {<<"move", "plan">>, <<"eof", "grow">>, <<"grow", "wrap">>}
    BY <1>3 DEF MoveStream, SetEof, Grow, shared
  <2>2. QED
    BY <1>0, <2>1 DEF Held, Ahead, Flushing
<1>4. CASE Reserve
  <2>0. Free \in Int /\ FillLimit \in Int
    <3>1. NewBytes \in Int /\ Back \in Int
      BY <1>0, Sizes DEF NewBytes, Back, Least, Most
    <3>2. QED
      BY <3>1, Sizes DEF Free
  <2>1. CASE Free < FillLimit
    <3>1. fpc = "plan" /\ fpc' = "control" /\ UNCHANGED <<read_filepos, min_filepos>>
      BY <1>4, <2>0, <2>1 DEF Reserve
    <3>2. QED
      BY <3>1 DEF Held, Ahead, Flushing
  <2>2. CASE Free >= FillLimit
    <3>1. /\ fpc = "plan" /\ fpc' = "read" /\ UNCHANGED read_filepos
          /\ plan' = [plan EXCEPT !.slot = WriteSlot, !.space = Space]
          /\ min_filepos' = Most(min_filepos, KeepFrom)
      BY <1>4, <2>0, <2>2 DEF Reserve
    <3>2. plan'.read = plan.read
      BY <1>0, <3>1 DEF Plans
    <3>3. KeepFrom \in Int /\ KeepFrom <= plan.read
      BY <2>2, <3>1, SpaceFits DEF Held
    <3>4. min_filepos <= read_filepos /\ plan.read <= read_filepos
      BY <3>1 DEF Held, Ahead
    <3>5. min_filepos' <= read_filepos
      BY <1>0, <3>1, <3>3, <3>4 DEF Most
    <3>6. QED
      BY <3>1, <3>2, <3>4, <3>5 DEF Ahead, Flushing
  <2>3. QED
    BY <1>4, <2>1, <2>2 DEF Reserve
<1>5. CASE ReadStream
  <2>1. PICK len : plan' = [plan EXCEPT !.len = len]
    BY <1>5 DEF ReadStream
  <2>2. fpc = "read" /\ fpc' = "eof" /\ UNCHANGED <<read_filepos, min_filepos>>
    BY <1>5 DEF ReadStream
  <2>3. plan'.read = plan.read
    BY <1>0, <2>1 DEF Plans
  <2>4. QED
    BY <2>2, <2>3 DEF Held, Ahead, Flushing
<1>6. CASE Wrap \/ Answer
  <2>1. /\ fpc \in {"wrap", "answer"} /\ fpc' \in {"control", "fill"}
        /\ UNCHANGED <<read_filepos, min_filepos>>
    BY <1>6 DEF Wrap, Answer
  <2>2. QED
    BY <2>1 DEF Held, Ahead, Flushing
<1>7. CASE ExecuteControl
  <2>1. /\ fpc = "control" /\ UNCHANGED min_filepos
        /\ \/ fpc' \in {"fill", "answer"} /\ UNCHANGED read_filepos
           \/ fpc' = "flushControl"
    BY <1>7 DEF ExecuteControl
  <2>2. QED
    BY <2>1 DEF Held, Ahead, Flushing
<1>8. QED
  BY <1>1, <1>2, <1>3, <1>4, <1>5, <1>6, <1>7 DEF Filler

\* Where the reader goes forward.
LEMMA ReaderForward == ASSUME Held, Reader, OnlyForward' PROVE read_filepos <= read_filepos'
<1>0. read_filepos \in Int /\ newb \in Int /\ Sectors \subseteq Int
  BY SectorsAreNat DEF Held, TypeOK
<1>1. CASE SeekLong
  BY <1>0, <1>1 DEF SeekLong, Spend, OnlyForward
<1>2. CASE Advance
  BY <1>0, <1>2 DEF Advance, Held, Seen
<1>3. CASE Reader /\ ~SeekLong /\ ~Advance
  <2>1. read_filepos' = read_filepos
    BY <1>3 DEF Reader, Served, PrefillEnds, Uninit, Fetch, ClearEof, CheckMax, CheckMin, SeeEof, TryAgain,
       Interrupt, Measure, Index, Copy, Fault, Ask, Answered, Abandon, shared
  <2>2. QED
    BY <1>0, <2>1
<1>4. QED
  BY <1>1, <1>2, <1>3

LEMMA ReaderAhead == ASSUME Held, Reader, OnlyForward' PROVE Ahead'
<1>0. /\ read_filepos \in Int /\ min_filepos \in Int /\ max_filepos \in Int
      /\ plan.read \in Int /\ plan.base \in Int /\ read_filepos' \in Int
  <2>1. Flags'
    BY FlagTypes DEF Held, TypeOK, Next
  <2>2. AdvanceType
    BY DEF Held, Seen, AdvanceType, TypeOK
  <2>3. TypeOK'
    BY <2>1, <2>2, ReaderTypes DEF Held
  <2>4. read_filepos' \in Int
    BY <2>3 DEF TypeOK
  <2>5. plan.read \in Int /\ plan.base \in Int
    BY PlanFields DEF Held, TypeOK
  <2>6. QED
    BY <2>4, <2>5 DEF Held, TypeOK
<1>1. /\ min_filepos' = min_filepos /\ max_filepos' = max_filepos /\ plan' = plan
      /\ read_filepos <= read_filepos'
  BY ReaderKeepsWindow, ReaderForward
<1>2. CASE Uninit
  <2>1. rpc \in {"prefill", "idle"} /\ fpc' = "dead"
    BY <1>2 DEF Uninit
  <2>2. fpc \notin {"flushControl", "flushControlRest"}
    BY <2>1 DEF Held, Waits
  <2>3. QED
    BY <1>0, <1>1, <2>1, <2>2 DEF Held, Ahead, Flushing
<1>3. CASE ~Uninit
  <2>1. fpc' = fpc
    BY <1>3, ReaderKeepsFiller
  <2>2. QED
    BY <1>0, <1>1, <2>1 DEF Held, Ahead, Flushing
<1>4. QED
  BY <1>2, <1>3

Reading == rpc \in {"checkMin", "measure", "index", "copy", "advance"}

\* The filler does not take away what the reader has seen.
LEMMA FillerLeaves ==
  ASSUME Held, Filler, Reading
  PROVE  read_filepos' = read_filepos /\ max_filepos <= max_filepos'
<1>0. /\ read_filepos \in Int /\ max_filepos \in Int /\ plan.len \in Int
      /\ read_filepos < max_filepos /\ ~Asked
  BY PlanFields DEF Held, TypeOK, Seen, Reading, Asked
<1>1. control = "none" /\ ~Answering
  BY <1>0 DEF Held, TypeOK, Waits, Asked, Commands
<1>2. CASE Grow
  BY <1>0, <1>2 DEF Grow, Held, Ring
<1>3. CASE DropContents \/ FlushForControl
  <2>1. CASE Flush("flush", "flushRest")
    BY <1>0, <2>1 DEF Flush, Held, Ahead
  <2>2. CASE FlushRest("flushRest", "move")
    BY <1>0, <2>2 DEF FlushRest
  <2>3. CASE FlushForControl
    BY <1>1, <2>3 DEF FlushForControl, Flush, FlushRest, Answering
  <2>4. QED
    BY <1>3, <2>1, <2>2, <2>3 DEF DropContents
<1>4. CASE ExecuteControl
  BY <1>0, <1>1, <1>4 DEF ExecuteControl
<1>5. CASE Snapshot \/ MoveStream \/ Reserve \/ ReadStream \/ SetEof \/ Wrap \/ Answer
  BY <1>0, <1>5 DEF Snapshot, MoveStream, Reserve, ReadStream, SetEof, Wrap, Answer, shared
<1>6. QED
  BY <1>2, <1>3, <1>4, <1>5 DEF Filler

LEMMA FillerSeen == ASSUME Held, Filler, TypeOK' PROVE Seen'
<1>1. UNCHANGED <<rpc, size, newb, index>>
  BY FillerKeeps
<1>2. CASE Reading
  <2>1. /\ read_filepos' = read_filepos /\ max_filepos <= max_filepos'
        /\ read_filepos \in Int /\ max_filepos \in Int /\ max_filepos' \in Int /\ newb \in Int
    BY <1>2, FillerLeaves, SMTT(20) DEF Held, TypeOK
  <2>2. QED
    BY <1>1, <2>1 DEF Held, Seen, InRing
<1>3. CASE ~Reading
  BY <1>1, <1>3 DEF Held, Seen, Reading
<1>4. QED
  BY <1>2, <1>3

\* cache_read's index lies in the ring, before and after the offset moves on.
LEMMA IndexFits ==
  ASSUME Held, rpc = "index"
  PROVE  0 <= ReadSlot /\ ReadSlot < BufferSize
<1>1. /\ read_filepos \in Int /\ min_filepos \in Int /\ max_filepos \in Int /\ offset \in Int
      /\ plan.slot \in Int /\ plan.len \in Int /\ plan.space \in Int /\ plan.base \in Int
  BY PlanFields DEF Held, TypeOK
<1>2. /\ read_filepos < max_filepos /\ fpc # "dead"
      /\ fpc \notin {"flushControl", "flushControlRest"}
  BY DEF Held, Seen, Waits
<1>3. ~Flushing
  <2>1. fpc = "flushRest" => max_filepos = plan.base /\ plan.base <= read_filepos
    BY DEF Held, Ring, Ahead, Flushing
  <2>2. QED
    BY <1>1, <1>2, <2>1 DEF Flushing
<1>4. min_filepos <= read_filepos /\ max_filepos - min_filepos <= BufferSize
  BY <1>2, <1>3 DEF Held, Ahead, WindowFits
<1>5. CASE fpc = "wrap"
  <2>1. /\ max_filepos = offset + plan.slot + plan.len /\ plan.slot < BufferSize /\ 0 <= plan.slot
        /\ 0 <= plan.len /\ plan.len <= plan.space /\ plan.space <= BufferSize
    BY <1>5 DEF Held, Ring
  <2>2. QED
    BY <1>1, <1>2, <1>4, <2>1, Sizes DEF ReadSlot
<1>6. CASE fpc # "wrap"
  <2>1. offset <= max_filepos /\ max_filepos < offset + BufferSize
    BY <1>2, <1>3, <1>6 DEF Held, Ring
  <2>2. QED
    BY <1>1, <1>2, <1>4, <2>1, Sizes DEF ReadSlot
<1>7. QED
  BY <1>5, <1>6

LEMMA ReaderSeen == ASSUME Held, Reader, OnlyForward' PROVE Seen'
<1>0. /\ read_filepos \in Int /\ min_filepos \in Int /\ max_filepos \in Int
      /\ size \in Int /\ newb \in Int /\ index \in Int
  BY DEF Held, TypeOK
<1>1. CASE rpc' \in {"prefill", "idle", "clearEof", "askedSeek", "askedQuery", "closed"}
  BY <1>1 DEF Seen
<1>2. CASE Fetch \/ ClearEof
  BY <1>2, Sizes DEF Fetch, ClearEof, EnterRead, Seen
<1>3. CASE CheckMax \/ CheckMin \/ TryAgain
  <2>1. /\ UNCHANGED <<read_filepos, max_filepos, size, newb, index>>
        /\ \/ rpc = "checkMax" /\ rpc' = IF read_filepos >= max_filepos THEN "starved" ELSE "checkMin"
           \/ rpc = "checkMin" /\ rpc' = IF read_filepos < min_filepos THEN "starved" ELSE "measure"
           \/ rpc = "starved" /\ rpc' = "checkMax"
    BY <1>3 DEF CheckMax, CheckMin, TryAgain, shared, copying
  <2>2. QED
    BY <1>0, <2>1 DEF Held, Seen
<1>4. CASE Measure
  <2>1. /\ UNCHANGED <<read_filepos, max_filepos, size>>
        /\ rpc = "measure" /\ rpc' = "index" /\ newb' = max_filepos - read_filepos
    BY <1>4 DEF Measure, shared
  <2>2. QED
    BY <1>0, <2>1 DEF Held, Seen
<1>5. CASE Index
  <2>1. /\ UNCHANGED <<read_filepos, max_filepos, size>>
        /\ rpc = "index" /\ rpc' = "copy" /\ index' = ReadSlot
        /\ newb' = Least(Least(newb, BufferSize - ReadSlot), size)
    BY <1>5 DEF Index, shared
  <2>2. 0 <= ReadSlot /\ ReadSlot < BufferSize /\ ReadSlot \in Int
    BY <1>0, <2>1, IndexFits, Sizes DEF ReadSlot, Held, TypeOK
  <2>3. 1 <= size /\ 1 <= newb /\ read_filepos + newb <= max_filepos /\ read_filepos < max_filepos
    BY <2>1 DEF Held, Seen
  <2>4. /\ newb' \in Int /\ 1 <= newb' /\ newb' <= newb /\ newb' <= BufferSize - ReadSlot
        /\ newb' <= size
    BY <1>0, <2>1, <2>2, <2>3, Sizes DEF Least
  <2>5. QED
    BY <1>0, <2>1, <2>2, <2>3, <2>4, Sizes DEF Seen, InRing
<1>6. CASE Copy
  <2>1. /\ UNCHANGED <<read_filepos, max_filepos, size, newb, index>>
        /\ rpc = "copy" /\ rpc' = "advance"
    BY <1>6 DEF Copy, shared
  <2>2. QED
    BY <2>1 DEF Held, Seen, InRing
<1>7. CASE Fault
  BY <1>7 DEF Fault, Held, Seen
<1>8. CASE Advance
  <2>1. rpc = "advance" /\ 1 <= size /\ newb <= size
    BY <1>8 DEF Advance, Held, Seen
  <2>2. CASE size = newb
    BY <1>8, <2>2 DEF Advance, EndFetch, Seen
  <2>3. CASE size # newb
    <3>1. rpc' = "checkMax" /\ size' = size - newb
      BY <1>8, <2>3 DEF Advance
    <3>2. QED
      BY <1>0, <2>1, <2>3, <3>1 DEF Seen
  <2>4. QED
    BY <2>2, <2>3
<1>9. CASE PrefillEnds \/ Uninit \/ SeekLong \/ SeeEof \/ Interrupt \/ Ask \/ Answered \/ Abandon
  BY <1>1, <1>9 DEF PrefillEnds, Uninit, SeekLong, SeeEof, Interrupt, EndFetch, Ask, Answered, Abandon
<1>10. QED
  BY <1>2, <1>3, <1>4, <1>5, <1>6, <1>7, <1>8, <1>9 DEF Reader, Served

LEMMA ForwardInit == Init => Ahead /\ Seen
<1> SUFFICES ASSUME Init PROVE Ahead /\ Seen
  OBVIOUS
<1>1. fpc = "fill" /\ rpc = "prefill" /\ min_filepos = 0 /\ read_filepos = 0
  BY DEF Init
<1>2. QED
  BY <1>1 DEF Ahead, Seen, Flushing

LEMMA ForwardHolds == Spec => [](OnlyForward => Held)
<1> DEFINE Safe == OnlyForward => Ahead /\ Seen
           Known == TypeOK /\ Ring /\ WindowFits /\ (Patient => Waits /\ Position)
<1>1. Init => Safe
  BY ForwardInit
<1>2. TypeOK' /\ Known /\ Safe /\ [Next]_vars => Safe'
  <2> SUFFICES ASSUME TypeOK', Known, Safe, [Next]_vars, OnlyForward'
               PROVE  Ahead' /\ Seen'
    OBVIOUS
  <2>1. OnlyForward /\ Patient
    <3>1. faults \subseteq faults'
      BY FaultsStay
    <3>2. QED
      BY <3>1 DEF Patient, OnlyForward
  <2>2. Held
    BY <2>1 DEF Held
  <2>3. CASE Filler
    BY <2>2, <2>3, FillerAhead, FillerSeen
  <2>4. CASE Reader
    BY <2>2, <2>4, ReaderAhead, ReaderSeen
  <2>5. CASE UNCHANGED vars
    BY <2>2, <2>5 DEF vars, shared, filler, copying, Held, Ahead, Seen, Flushing, InRing
  <2>6. QED
    BY <2>3, <2>4, <2>5 DEF Next
<1>3. Known /\ Safe => (OnlyForward => Held)
  BY DEF Held, OnlyForward, Patient
<1>4. QED
  BY <1>1, <1>2, <1>3, TypeCorrect, RingHolds, PatientHolds, PTL DEF Spec

\* Whenever a reader that goes forward and waits for its commands copies, it
\* copies from inside of the ring: no flush and no wrap of the filler, wherever
\* it falls between the steps of cache_read, spoils the index.
THEOREM CopiesStayInRing == Spec => []CopiesInRing
<1>1. (OnlyForward => Held) => CopiesInRing
  BY DEF Held, Seen, CopiesInRing
<1>2. QED
  BY <1>1, ForwardHolds, PTL
=============================================================================
