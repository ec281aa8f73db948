---------------------------- MODULE LogAnalyzer ----------------------------
(***************************************************************************)
(* The parsing of mplayer's output.  Every read of the pipe becomes an     *)
(* operation of a concurrent queue; it looks for the lines "ANS_key=value" *)
(* and "MPX_key=value" and posts their entries to the main thread.  stop() *)
(* cancels the operations and waits for them.  "text" is everything that   *)
(* was printed, byte by byte; an operation is the part of it that was      *)
(* read at once.                                                           *)
(***************************************************************************)
EXTENDS Integers, Sequences, FiniteSetsExt, Functions

CONSTANTS
  Messages,   \* what mplayer writes and flushes at once
  MaxPrints   \* bound: how many messages it prints

ASSUME LogAssumption == MaxPrints \in Nat /\ Messages \subseteq Seq(STRING)

NewLine == "nl"
Invalid == "invalid"   \* a byte that is no UTF-8
Tags == {<<"A", "N", "S">>, <<"M", "P", "X">>}
None == 0              \* no position

VARIABLES
  text, prints,  \* what mplayer has printed, in how many messages
  read, cuts,    \* how much of it is read, and where the reads ended
  queue,         \* the operations: from .. to of the text, and how far
  posted,        \* performSelectorOnMainThread: what is posted
  delivered,     \* the entries handed to the delegate
  stopping,      \* the main thread is inside stop()
  trapped        \* the program has been aborted

vars == <<text, prints, read, cuts, queue, posted, delivered, stopping, trapped>>

Init ==
  /\ text = <<>> /\ prints = 0
  /\ read = 0 /\ cuts = {}
  /\ queue = {}
  /\ posted = <<>> /\ delivered = <<>>
  /\ stopping = FALSE /\ trapped = FALSE

-----------------------------------------------------------------------------
(* mplayer, and the main thread.                                           *)

Emit(m) ==
  /\ ~trapped /\ prints < MaxPrints
  /\ text' = text \o m /\ prints' = prints + 1
  /\ UNCHANGED <<read, cuts, queue, posted, delivered, stopping, trapped>>

\* Variant: the last byte of the data before is parsed again.
ReadOverlapping ==
  /\ ~trapped /\ ~stopping /\ read < Len(text)
  /\ read' = Len(text) /\ cuts' = cuts \cup {read'}
  /\ queue' = queue \cup
       {[from |-> read, to |-> read', head |-> read, step |-> "ready"]}
  /\ UNCHANGED <<text, prints, posted, delivered, stopping, trapped>>

\* readOutput and analyze: what is there is read
Read ==
  /\ ~trapped /\ ~stopping /\ read < Len(text)
  /\ read' = Len(text) /\ cuts' = cuts \cup {read'}
  /\ queue' = queue \cup
       {[from |-> read + 1, to |-> read', head |-> read + 1, step |-> "ready"]}
  /\ UNCHANGED <<text, prints, posted, delivered, stopping, trapped>>

\* logAnalyzeFinished, in the run loop
Deliver ==
  /\ ~trapped /\ ~stopping /\ posted # <<>>
  /\ delivered' = Append(delivered, Head(posted)) /\ posted' = Tail(posted)
  /\ UNCHANGED <<text, prints, read, cuts, queue, stopping, trapped>>

\* stop(), called by hasTerminated and by every seek
Stop ==
  /\ ~trapped /\ ~stopping
  /\ stopping' = TRUE
  /\ UNCHANGED <<text, prints, read, cuts, queue, posted, delivered, trapped>>

StopReturns ==
  /\ ~trapped /\ stopping
  /\ \A op \in queue : op.step = "done"
  /\ queue' = {} /\ stopping' = FALSE
  /\ UNCHANGED <<text, prints, read, cuts, posted, delivered, trapped>>

-----------------------------------------------------------------------------
(* LogAnalyzeOperation.main, on the queue's threads.                       *)

\* Variant: the nearest separator.
NearestSeparator(head, to) ==
  LET scan[at \in Nat \X Nat] ==
        IF at[1] > to THEN [ret |-> None, split |-> at[2]]
        ELSE IF text[at[1]] = NewLine THEN [ret |-> at[1], split |-> at[2]]
        ELSE scan[<<at[1] + 1, IF text[at[1]] = "=" /\ at[2] = None THEN at[1] ELSE at[2]>>]
  IN scan[<<head, None>>]

\* the offset of the next newline, and that of the last separator before it; the
\* loop goes from byte to byte with the last separator so far
NextReturnMark(head, to) ==
  LET scan[at \in Nat \X Nat] ==
        IF at[1] > to THEN [ret |-> None, split |-> at[2]]
        ELSE IF text[at[1]] = NewLine THEN [ret |-> at[1], split |-> at[2]]
        ELSE scan[<<at[1] + 1, IF text[at[1]] = "=" THEN at[1] ELSE at[2]>>]
  IN scan[<<head, None>>]

ValidStart(head, end) ==
  end - head > 4 /\ text[head + 3] = "_" /\ SubSeq(text, head, head + 2) \in Tags

\* Variant: the line that ends the data is left out.
MoreEndsEarly(op) == op.head < op.to - 8 /\ ~stopping

More(op) == op.head <= op.to /\ ~stopping   \* isCancelled

Become(op, new) == queue' = (queue \ {op}) \cup new

\* The loop is left at the end of the data, or cancelled; a cancelled operation
\* is kept until stop() has seen that it is finished.
Finish(op) ==
  /\ ~trapped /\ op.step = "ready" /\ ~More(op)
  /\ Become(op, IF stopping THEN {[op EXCEPT !.step = "done"]} ELSE {})
  /\ UNCHANGED <<text, prints, read, cuts, posted, delivered, stopping, trapped>>

Begin(op) ==
  /\ ~trapped /\ op.step = "ready" /\ More(op)
  /\ Become(op, {[op EXCEPT !.step = "parsing"]})
  /\ UNCHANGED <<text, prints, read, cuts, posted, delivered, stopping, trapped>>

Entry(at, split, ret) == [at |-> at, key |-> SubSeq(text, at + 4, split - 1),
                                     val |-> SubSeq(text, split + 1, ret - 1)]
Encodes(e) == Invalid \notin Range(e.key) \cup Range(e.val)

\* Variant: the poster waits for the main thread (waitUntilDone).
PostAndWait(e) == ~stopping /\ posted' = Append(posted, e)
\* Variant: the newest entry is posted first.
PostFirst(e) == posted' = <<e>> \o posted

Post(e) == posted' = Append(posted, e)

\* One turn of the loop.  With no newline the line is taken to end at the last
\* byte; if that is the separator, the range of the value is not a range.
Parse(op) ==
  /\ ~trapped /\ op.step = "parsing"
  /\ LET mark == NextReturnMark(op.head, op.to)
         ret == IF mark.ret = None THEN op.to ELSE mark.ret
         split == mark.split
         valid == split # None /\ ValidStart(op.head, split)
         entry == Entry(op.head, split, ret)
     IN /\ trapped' = (valid /\ split + 1 > ret)
        /\ IF valid /\ ~trapped' /\ Encodes(entry) THEN Post(entry) ELSE UNCHANGED posted
        /\ Become(op, {[op EXCEPT !.head = ret + 1, !.step = "ready"]})
  /\ UNCHANGED <<text, prints, read, cuts, delivered, stopping>>

-----------------------------------------------------------------------------

MainStep == Read \/ Deliver \/ Stop \/ StopReturns
WorkerStep == \E op \in queue : Finish(op) \/ Begin(op) \/ Parse(op)

Next == (\E m \in Messages : Emit(m)) \/ MainStep \/ WorkerStep

\* The operations are run, and the run loop serves what is there.
Spec ==
  /\ Init /\ [][Next]_vars
  /\ WF_vars(Read) /\ WF_vars(Deliver) /\ WF_vars(StopReturns)
  /\ WF_vars(WorkerStep)

-----------------------------------------------------------------------------
(* Properties.                                                             *)

\* The lines in a part of the text, each from its first byte to its newline, and
\* the entries that they are.
Lines(from, to) ==
  {l \in (from .. to) \X (from .. to) :
     /\ l[1] <= l[2] /\ text[l[2]] = NewLine
     /\ l[1] = 1 \/ text[l[1] - 1] = NewLine
     /\ \A i \in l[1] .. l[2] - 1 : text[i] # NewLine}
Separator(l) == Max({None} \cup {i \in l[1] .. l[2] - 1 : text[i] = "="})
Tagged(l) == /\ SubSeq(text, l[1], l[1] + 2) \in Tags /\ text[l[1] + 3] = "_"
             /\ Separator(l) > l[1] + 4
Entries(from, to) ==
  {e \in {Entry(l[1], Separator(l), l[2]) : l \in {k \in Lines(from, to) : Tagged(k)}} :
     Encodes(e)}

\* The values the variables take; an operation is a part of what was read.
TypeOK ==
  /\ prints \in 0 .. MaxPrints /\ read \in 0 .. Len(text) /\ cuts \subseteq 1 .. read
  /\ \A op \in queue :
       /\ op.from \in 1 .. op.to /\ op.to \in cuts /\ op.head \in op.from .. op.to + 1
       /\ op.step \in {"ready", "parsing", "done"}
  /\ stopping \in BOOLEAN /\ trapped \in BOOLEAN

\* The entries of one read are delivered in the order of their lines; only those
\* of two reads may overtake each other.
ReadsInOrder ==
  LET out == delivered \o posted
  IN \A i, j \in 1 .. Len(out) :
       i < j /\ out[i].at > out[j].at => \E c \in cuts : c \in out[j].at .. out[i].at - 1

\* What reaches the delegate are the entries that were printed, once each; those
\* that a stop() has not let through are gone when it returns.
Channel == INSTANCE LogChannel WITH
  pipe <- Entries(read + 1, Len(text)),
  ops <- UNION {Entries(op.head, op.to) : op \in queue},
  mainQ <- Range(posted)
ChannelSpec == Channel!Spec

\* stop() returns, for no operation waits for the main thread.
StopEnds == stopping ~> ~stopping

\* If nothing is stopped, every entry is delivered in the end.
EntriesArrive ==
  [](~stopping) => <>[](Range(delivered) = Entries(1, Len(text)))

-----------------------------------------------------------------------------
(* What comments of the source say and the code does not do.               *)

\* The value of an entry starts one byte past the separator, wherever the data ends.
NotTrapped == ~trapped
=============================================================================
