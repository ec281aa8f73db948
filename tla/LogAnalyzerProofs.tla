------------------------- MODULE LogAnalyzerProofs -------------------------
(***************************************************************************)
(* Theorems about LogAnalyzer, for any messages and any number of reads:   *)
(* types, the order of the entries of a read, and, where every message     *)
(* ends a line, that the analyzer implements LogChannel.                   *)
(***************************************************************************)
EXTENDS LogAnalyzer, TLAPS, WellFoundedInduction, SequenceTheorems

-----------------------------------------------------------------------------
(* The loop of nextReturnMark                                              *)

LEMMA LeastExists ==
  ASSUME NEW T \in SUBSET Nat, T # {}
  PROVE  \E x \in T : \A y \in T : x <= y
<1>1. PICK x \in T : \A y \in T : ~(<<y, x>> \in OpToRel(<, Nat))
  BY NatLessThanWellFounded, WFMin, Zenon
<1>2. \A y \in T : ~(y < x)
  BY <1>1 DEF OpToRel
<1>3. QED
  BY <1>2

LEMMA GreatestExists ==
  ASSUME NEW T \in SUBSET Nat, T # {}, NEW n \in Nat, \A x \in T : x <= n
  PROVE  \E x \in T : \A y \in T : y <= x
<1> DEFINE Gaps == {n - x : x \in T}
<1>1. Gaps \in SUBSET Nat /\ Gaps # {}
  <2>1. \A x \in T : n - x \in Nat
    OBVIOUS
  <2>2. PICK x \in T : TRUE
    OBVIOUS
  <2>3. n - x \in Gaps
    OBVIOUS
  <2>4. QED
    BY <2>1, <2>3
<1>2. PICK d \in Gaps : \A e \in Gaps : d <= e
  BY <1>1, LeastExists
<1>3. PICK x \in T : d = n - x
  BY <1>2
<1>4. ASSUME NEW y \in T PROVE y <= x
  <2>1. n - y \in Gaps
    OBVIOUS
  <2>2. d <= n - y
    BY <1>2, <2>1
  <2>3. QED
    BY <1>3, <2>2
<1>5. QED
  BY <1>4

\* Where the line ends that goes on at i: at its newline, or after the data.
IsEnd(r, i, to) ==
  /\ r \in Nat /\ i <= r
  /\ r > to \/ text[r] = NewLine
  /\ \A k \in i .. (r - 1) : k <= to /\ text[k] # NewLine

\* The last separator of a part of the text, or what there was before.
IsLast(k, from, to, before) ==
  \/ k = before /\ \A i \in from .. to : text[i] # "="
  \/ k \in from .. to /\ text[k] = "=" /\ \A i \in (k + 1) .. to : text[i] # "="

LEMMA EndExists == ASSUME NEW i \in Nat, NEW to \in Nat PROVE \E r \in Nat : IsEnd(r, i, to)
<1> DEFINE T == {r \in Nat : i <= r /\ (r > to \/ text[r] = NewLine)}
<1>1. T \in SUBSET Nat
  OBVIOUS
<1>2. i + to + 1 \in T
  OBVIOUS
<1>3. PICK r \in T : \A y \in T : r <= y
  BY <1>1, <1>2, LeastExists
<1>4. ASSUME NEW k \in i .. (r - 1) PROVE k <= to /\ text[k] # NewLine
  BY <1>3
<1>5. QED
  BY <1>3, <1>4 DEF IsEnd

LEMMA EndUnique ==
  ASSUME NEW i \in Nat, NEW to \in Nat, NEW r, NEW s, IsEnd(r, i, to), IsEnd(s, i, to)
  PROVE  r = s
<1>1. r \in Nat /\ s \in Nat
  BY DEF IsEnd
<1>2. ~(r < s) /\ ~(s < r)
  BY <1>1 DEF IsEnd
<1>3. QED
  BY <1>1, <1>2

LEMMA EndNext ==
  ASSUME NEW i \in Nat, NEW to \in Nat, i <= to, text[i] # NewLine, NEW r, IsEnd(r, i + 1, to)
  PROVE  IsEnd(r, i, to)
BY DEF IsEnd

LEMMA LastExists ==
  ASSUME NEW from \in Nat, NEW to \in Int, NEW before \in Nat
  PROVE  \E k \in Nat : IsLast(k, from, to, before)
<1> DEFINE T == {k \in from .. to : text[k] = "="}
<1>1. CASE T = {}
  BY <1>1 DEF IsLast
<1>2. CASE T # {}
  <2>1. T \in SUBSET Nat /\ to \in Nat /\ \A x \in T : x <= to
    BY <1>2
  <2>2. PICK k \in T : \A y \in T : y <= k
    BY <1>2, <2>1, GreatestExists
  <2>3. \A i \in (k + 1) .. to : text[i] # "="
    BY <2>2
  <2>4. QED
    BY <2>2, <2>3 DEF IsLast
<1>3. QED
  BY <1>1, <1>2

LEMMA LastUnique ==
  ASSUME NEW from \in Nat, NEW to \in Int, NEW before \in Nat,
         NEW k, NEW l, IsLast(k, from, to, before), IsLast(l, from, to, before)
  PROVE  k = l
<1>1. k \in Nat /\ l \in Nat
  BY DEF IsLast
<1>2. CASE \A i \in from .. to : text[i] # "="
  BY <1>2 DEF IsLast
<1>3. CASE ~(\A i \in from .. to : text[i] # "=")
  <2>1. /\ k \in from .. to /\ text[k] = "=" /\ \A i \in (k + 1) .. to : text[i] # "="
        /\ l \in from .. to /\ text[l] = "=" /\ \A i \in (l + 1) .. to : text[i] # "="
    BY <1>3 DEF IsLast
  <2>2. ~(k < l) /\ ~(l < k)
    BY <2>1
  <2>3. QED
    BY <1>1, <2>2
<1>4. QED
  BY <1>2, <1>3

LEMMA LastNext ==
  ASSUME NEW from \in Nat, NEW to \in Int, from <= to, NEW before \in Nat,
         NEW k, IsLast(k, from + 1, to, IF text[from] = "=" THEN from ELSE before)
  PROVE  IsLast(k, from, to, before)
<1>1. CASE text[from] = "="
  BY <1>1 DEF IsLast
<1>2. CASE text[from] # "="
  BY <1>2 DEF IsLast
<1>3. QED
  BY <1>1, <1>2

\* One turn of the loop, with f for what the turns after it find.
Turned(f, to) ==
  [at \in Nat \X Nat |->
     IF at[1] > to THEN [ret |-> None, split |-> at[2]]
     ELSE IF text[at[1]] = NewLine THEN [ret |-> at[1], split |-> at[2]]
     ELSE f[<<at[1] + 1, IF text[at[1]] = "=" THEN at[1] ELSE at[2]>>]]

\* What the loop finds, without the loop.
LineEnd(i, to) == CHOOSE r \in Nat : IsEnd(r, i, to)
LastBefore(i, to, before) == CHOOSE k \in Nat : IsLast(k, i, LineEnd(i, to) - 1, before)
Found(to) ==
  [at \in Nat \X Nat |->
     [ret |-> IF LineEnd(at[1], to) > to THEN None ELSE LineEnd(at[1], to),
      split |-> LastBefore(at[1], to, at[2])]]

LEMMA LineEndIs ==
  ASSUME NEW i \in Nat, NEW to \in Nat
  PROVE  LineEnd(i, to) \in Nat /\ IsEnd(LineEnd(i, to), i, to)
BY EndExists DEF LineEnd

LEMMA LastBeforeIs ==
  ASSUME NEW i \in Nat, NEW to \in Nat, NEW before \in Nat
  PROVE  /\ LastBefore(i, to, before) \in Nat
         /\ IsLast(LastBefore(i, to, before), i, LineEnd(i, to) - 1, before)
<1>1. LineEnd(i, to) - 1 \in Int
  BY LineEndIs
<1>2. QED
  BY <1>1, LastExists DEF LastBefore

LEMMA FoundTurns ==
  ASSUME NEW to \in Nat, NEW i \in Nat, NEW before \in Nat
  PROVE  Found(to)[<<i, before>>] = Turned(Found(to), to)[<<i, before>>]
<1> DEFINE next == IF text[i] = "=" THEN i ELSE before
<1>1. /\ LineEnd(i, to) \in Nat /\ IsEnd(LineEnd(i, to), i, to)
      /\ LastBefore(i, to, before) \in Nat
      /\ IsLast(LastBefore(i, to, before), i, LineEnd(i, to) - 1, before)
  BY LineEndIs, LastBeforeIs
<1>2. Found(to)[<<i, before>>] =
        [ret |-> IF LineEnd(i, to) > to THEN None ELSE LineEnd(i, to), split |-> LastBefore(i, to, before)]
  BY DEF Found
<1>3. Turned(Found(to), to)[<<i, before>>] =
        IF i > to THEN [ret |-> None, split |-> before]
        ELSE IF text[i] = NewLine THEN [ret |-> i, split |-> before]
        ELSE Found(to)[<<i + 1, next>>]
  BY DEF Turned
<1>4. CASE i > to \/ text[i] = NewLine
  <2>1. LineEnd(i, to) = i
    <3>1. IsEnd(i, i, to)
      BY <1>4 DEF IsEnd
    <3>2. QED
      BY <1>1, <3>1, EndUnique
  <2>2. LastBefore(i, to, before) = before
    BY <1>1, <2>1 DEF IsLast
  <2>3. QED
    BY <1>2, <1>3, <1>4, <2>1, <2>2
<1>5. CASE i <= to /\ text[i] # NewLine
  <2>1. next \in Nat /\ i + 1 \in Nat
    OBVIOUS
  <2>2. /\ LineEnd(i + 1, to) \in Nat /\ IsEnd(LineEnd(i + 1, to), i + 1, to)
        /\ LastBefore(i + 1, to, next) \in Nat
        /\ IsLast(LastBefore(i + 1, to, next), i + 1, LineEnd(i + 1, to) - 1, next)
    BY <2>1, LineEndIs, LastBeforeIs
  <2>3. LineEnd(i + 1, to) = LineEnd(i, to)
    <3>1. IsEnd(LineEnd(i + 1, to), i, to)
      BY <1>5, <2>2, EndNext
    <3>2. QED
      BY <1>1, <3>1, EndUnique
  <2>4. LastBefore(i + 1, to, next) = LastBefore(i, to, before)
    <3>1. i <= LineEnd(i, to) - 1 /\ LineEnd(i, to) - 1 \in Int
      BY <2>2, <2>3 DEF IsEnd
    <3>2. IsLast(LastBefore(i + 1, to, next), i, LineEnd(i, to) - 1, before)
      BY <2>2, <2>3, <3>1, LastNext
    <3>3. QED
      BY <1>1, <3>1, <3>2, LastUnique
  <2>5. Found(to)[<<i + 1, next>>] =
          [ret |-> IF LineEnd(i + 1, to) > to THEN None ELSE LineEnd(i + 1, to),
           split |-> LastBefore(i + 1, to, next)]
    BY <2>1 DEF Found
  <2>6. QED
    BY <1>2, <1>3, <1>5, <2>3, <2>4, <2>5
<1>6. QED
  BY <1>4, <1>5

\* The loop is a function, and the only one: a turn that differs has one after it
\* that differs, and there is an end.
LEMMA TurnsOnce ==
  ASSUME NEW to \in Nat, NEW f, f = Turned(f, to)
  PROVE  \A i, before \in Nat : f[<<i, before>>] = Found(to)[<<i, before>>]
<1> DEFINE Differs(i) == \E before \in Nat : f[<<i, before>>] # Found(to)[<<i, before>>]
           Left == {n \in Nat : \E i \in Nat : (i <= to => n = to + 1 - i) /\ Differs(i)}
<1>0. ASSUME NEW i \in Nat, NEW before \in Nat
      PROVE  /\ f[<<i, before>>] = Turned(f, to)[<<i, before>>]
             /\ Found(to)[<<i, before>>] = Turned(Found(to), to)[<<i, before>>]
  BY <1>0, FoundTurns, Zenon
<1>1. ASSUME NEW i \in Nat, i > to PROVE ~Differs(i)
  <2>1. ASSUME NEW before \in Nat
        PROVE  Turned(f, to)[<<i, before>>] = Turned(Found(to), to)[<<i, before>>]
    BY <1>1 DEF Turned
  <2>2. QED
    BY <1>0, <2>1, Zenon
<1>2. ASSUME NEW i \in Nat, ~Differs(i + 1) PROVE ~Differs(i)
  <2>1. ASSUME NEW before \in Nat
        PROVE  Turned(f, to)[<<i, before>>] = Turned(Found(to), to)[<<i, before>>]
    <3>1. \A b \in Nat : f[<<i + 1, b>>] = Found(to)[<<i + 1, b>>]
      BY <1>2
    <3>2. f[<<i + 1, IF text[i] = "=" THEN i ELSE before>>] =
            Found(to)[<<i + 1, IF text[i] = "=" THEN i ELSE before>>]
      BY <3>1
    <3>3. QED
      BY <3>2 DEF Turned
  <2>2. QED
    BY <1>0, <2>1, Zenon
<1> HIDE DEF Differs
<1>3. Left = {}
  <2> SUFFICES ASSUME Left # {} PROVE FALSE
    OBVIOUS
  <2>1. PICK n \in Left : \A m \in Left : n <= m
    BY LeastExists
  <2>2. PICK i \in Nat : (i <= to => n = to + 1 - i) /\ Differs(i)
    OBVIOUS
  <2>3. i <= to /\ n = to + 1 - i
    BY <1>1, <2>2
  <2>4. Differs(i + 1)
    BY <1>2, <2>2
  <2>5. n - 1 \in Nat /\ (i + 1 <= to => n - 1 = to + 1 - (i + 1))
    BY <2>3
  <2>6. n - 1 \in Left
    BY <2>4, <2>5
  <2>7. QED
    BY <2>1, <2>5, <2>6
<1>4. ASSUME NEW i \in Nat PROVE ~Differs(i)
  <2>1. CASE i > to
    BY <1>1, <2>1
  <2>2. ASSUME i <= to, Differs(i) PROVE FALSE
    <3>1. to + 1 - i \in Nat
      BY <2>2
    <3>2. to + 1 - i \in Left
      BY <2>2, <3>1
    <3>3. QED
      BY <1>3, <3>2
  <2>3. QED
    BY <2>1, <2>2
<1>5. QED
  BY <1>4 DEF Differs

LEMMA MarkFound ==
  ASSUME NEW head \in Nat, NEW to \in Nat
  PROVE  NextReturnMark(head, to) = Found(to)[<<head, None>>]
<1> DEFINE scan == CHOOSE f : f = Turned(f, to)
<1>1. Found(to) = Turned(Found(to), to)
  <2>1. ASSUME NEW at \in Nat \X Nat PROVE Found(to)[at] = Turned(Found(to), to)[at]
    <3>1. PICK i \in Nat, before \in Nat : at = <<i, before>>
      OBVIOUS
    <3>2. QED
      BY <3>1, FoundTurns
  <2>2. QED
    BY <2>1, Zenon DEF Found, Turned
<1>2. scan = Turned(scan, to)
  BY <1>1, Zenon
<1>3. NextReturnMark(head, to) = scan[<<head, None>>]
  BY Zenon DEF NextReturnMark, Turned
<1>4. scan[<<head, None>>] = Found(to)[<<head, None>>]
  <2> HIDE DEF scan
  <2>1. None \in Nat
    BY DEF None
  <2>2. QED
    BY <1>2, <2>1, TurnsOnce
<1>5. QED
  BY <1>3, <1>4, Zenon

\* nextReturnMark, for a text of any length: the newline that ends the line, and the
\* last separator before it; without a newline, the last separator of the data.
THEOREM NextReturnMarkFinds ==
  ASSUME NEW head \in Nat, NEW to \in Nat
  PROVE  \E r, k \in Nat :
           /\ IsEnd(r, head, to) /\ IsLast(k, head, r - 1, None)
           /\ NextReturnMark(head, to) = [ret |-> IF r > to THEN None ELSE r, split |-> k]
<1>1. None \in Nat
  BY DEF None
<1>2. /\ LineEnd(head, to) \in Nat /\ IsEnd(LineEnd(head, to), head, to)
      /\ LastBefore(head, to, None) \in Nat
      /\ IsLast(LastBefore(head, to, None), head, LineEnd(head, to) - 1, None)
  BY <1>1, LineEndIs, LastBeforeIs
<1>3. NextReturnMark(head, to) =
        [ret |-> IF LineEnd(head, to) > to THEN None ELSE LineEnd(head, to), split |-> LastBefore(head, to, None)]
  BY <1>1, MarkFound DEF Found
<1>4. QED
  BY <1>2, <1>3

-----------------------------------------------------------------------------
(* What the invariant says                                                 *)

\* Everything that was posted, in its order.
Out == delivered \o posted

EntryType == [at : Nat, key : Seq(STRING), val : Seq(STRING)]
OpType == [from : Nat, to : Nat, head : Nat, step : {"ready", "parsing", "done"}]
Typed ==
  /\ TypeOK
  /\ queue \subseteq OpType
  /\ text \in Seq(STRING) /\ delivered \in Seq(EntryType) /\ posted \in Seq(EntryType)

\* Two reads have no byte in common.
Apart == \A op, other \in queue : op # other => op.to < other.from \/ other.to < op.from

\* What was posted lies behind what is still to be parsed, or in another read.
Passed ==
  \A i \in 1 .. Len(Out) :
    /\ Out[i].at \in 1 .. read
    /\ \A op \in queue : Out[i].at < op.head \/ Out[i].at > op.to

Once == \A i, j \in 1 .. Len(Out) : i < j => Out[i].at # Out[j].at

\* The inductive invariant.
InTurn == Typed /\ Apart /\ Passed /\ Once /\ ReadsInOrder

-----------------------------------------------------------------------------
(* One turn of the loop                                                    *)

\* The end of the turn's line, its separator, and whether it holds an entry.
Ret(op) == IF LineEnd(op.head, op.to) > op.to THEN op.to ELSE LineEnd(op.head, op.to)
Split(op) == LastBefore(op.head, op.to, None)
Valid(op) == Split(op) # None /\ ValidStart(op.head, Split(op))
Posts(op) == Valid(op) /\ ~(Split(op) + 1 > Ret(op)) /\ Encodes(Entry(op.head, Split(op), Ret(op)))

LEMMA OpTyped ==
  ASSUME Typed, NEW op \in queue
  PROVE  /\ op \in OpType /\ op.from \in Nat /\ op.to \in Nat /\ op.head \in Nat
         /\ 1 <= op.from /\ op.from <= op.to /\ op.from <= op.head /\ op.head <= op.to + 1
         /\ op.to \in cuts /\ op.to <= read /\ read <= Len(text) /\ Len(text) \in Nat /\ read \in Nat
<1>1. op \in OpType /\ op.from \in 1 .. op.to /\ op.to \in cuts /\ op.head \in op.from .. op.to + 1
  BY DEF Typed, TypeOK
<1>2. op.from \in Nat /\ op.to \in Nat /\ op.head \in Nat
  BY <1>1 DEF OpType
<1>3. cuts \subseteq 1 .. read /\ read \in 0 .. Len(text) /\ Len(text) \in Nat
  BY DEF Typed, TypeOK
<1>4. QED
  BY <1>1, <1>2, <1>3

LEMMA TurnIs ==
  ASSUME Typed, NEW op \in queue
  PROVE  /\ Ret(op) \in Nat /\ Split(op) \in Nat
         /\ op.head <= Ret(op) + 1 /\ Ret(op) <= op.to
         /\ Split(op) # None => op.head <= Split(op) /\ Split(op) <= op.to
<1>1. op.head \in Nat /\ op.to \in Nat /\ op.head <= op.to + 1
  BY OpTyped
<1>2. None \in Nat
  BY DEF None
<1>3. /\ LineEnd(op.head, op.to) \in Nat /\ IsEnd(LineEnd(op.head, op.to), op.head, op.to)
      /\ Split(op) \in Nat /\ IsLast(Split(op), op.head, LineEnd(op.head, op.to) - 1, None)
  BY <1>1, <1>2, LineEndIs, LastBeforeIs DEF Split
<1>4. op.head <= LineEnd(op.head, op.to) /\ LineEnd(op.head, op.to) <= op.to + 1
  <2>1. \A k \in op.head .. (LineEnd(op.head, op.to) - 1) : k <= op.to
    BY <1>3 DEF IsEnd
  <2>2. op.head <= LineEnd(op.head, op.to)
    BY <1>3 DEF IsEnd
  <2>3. ASSUME LineEnd(op.head, op.to) > op.to + 1 PROVE FALSE
    <3>1. LineEnd(op.head, op.to) - 1 \in op.head .. (LineEnd(op.head, op.to) - 1)
      BY <1>1, <1>3, <2>3
    <3>2. QED
      BY <1>1, <1>3, <2>1, <2>3, <3>1
  <2>4. QED
    BY <1>1, <1>3, <2>2, <2>3
<1>5. Ret(op) \in Nat /\ op.head <= Ret(op) + 1 /\ Ret(op) <= op.to
  BY <1>1, <1>3, <1>4 DEF Ret
<1>6. ASSUME Split(op) # None PROVE op.head <= Split(op) /\ Split(op) <= op.to
  <2>1. Split(op) \in op.head .. (LineEnd(op.head, op.to) - 1)
    BY <1>3, <1>6 DEF IsLast
  <2>2. QED
    BY <1>1, <1>3, <1>4, <2>1
<1>7. QED
  BY <1>3, <1>5, <1>6

LEMMA ParseIs ==
  ASSUME Typed, NEW op \in queue, Parse(op)
  PROVE  /\ trapped' = (Valid(op) /\ Split(op) + 1 > Ret(op))
         /\ IF Posts(op) THEN posted' = Append(posted, Entry(op.head, Split(op), Ret(op)))
                         ELSE posted' = posted
         /\ queue' = (queue \ {op}) \cup {[op EXCEPT !.head = Ret(op) + 1, !.step = "ready"]}
         /\ UNCHANGED <<text, prints, read, cuts, delivered, stopping>>
<1>1. op.head \in Nat /\ op.to \in Nat /\ 1 <= op.head
  BY OpTyped
<1>2. NextReturnMark(op.head, op.to) =
        [ret |-> IF LineEnd(op.head, op.to) > op.to THEN None ELSE LineEnd(op.head, op.to),
         split |-> Split(op)]
  <2>1. <<op.head, None>> \in Nat \X Nat
    BY <1>1 DEF None
  <2>2. QED
    BY <1>1, <2>1, MarkFound DEF Found, Split
<1>3. NextReturnMark(op.head, op.to).split = Split(op)
  BY <1>2
<1>4. (IF NextReturnMark(op.head, op.to).ret = None THEN op.to
       ELSE NextReturnMark(op.head, op.to).ret) = Ret(op)
  <2>1. LineEnd(op.head, op.to) # None
    <3>1. LineEnd(op.head, op.to) \in Nat /\ op.head <= LineEnd(op.head, op.to)
      BY <1>1, LineEndIs DEF IsEnd
    <3>2. QED
      BY <1>1, <3>1 DEF None
  <2>2. QED
    BY <1>2, <2>1 DEF Ret
<1>5. /\ trapped' = (Valid(op) /\ Split(op) + 1 > Ret(op))
      /\ IF Valid(op) /\ ~trapped' /\ Encodes(Entry(op.head, Split(op), Ret(op)))
         THEN Post(Entry(op.head, Split(op), Ret(op))) ELSE UNCHANGED posted
      /\ Become(op, {[op EXCEPT !.head = Ret(op) + 1, !.step = "ready"]})
      /\ UNCHANGED <<text, prints, read, cuts, delivered, stopping>>
  BY <1>3, <1>4, Zenon DEF Parse, Valid
<1>6. QED
  BY <1>5, Zenon DEF Posts, Post, Become

LEMMA EntryTyped ==
  ASSUME Typed, NEW op \in queue, Valid(op), ~(Split(op) + 1 > Ret(op))
  PROVE  /\ Entry(op.head, Split(op), Ret(op)) \in EntryType
         /\ Entry(op.head, Split(op), Ret(op)).at = op.head
         /\ op.head <= op.to
<1>1. /\ op.head \in Nat /\ op.to \in Nat /\ 1 <= op.head /\ op.to <= Len(text) /\ Len(text) \in Nat
  BY OpTyped
<1>2. /\ Split(op) \in Nat /\ Ret(op) \in Nat
      /\ Ret(op) <= op.to /\ op.head <= Split(op) /\ Split(op) <= op.to
  BY TurnIs DEF Valid
<1>3. Split(op) - op.head > 4
  BY DEF Valid, ValidStart
<1>4. text \in Seq(STRING)
  BY DEF Typed
<1>5. /\ op.head + 4 \in 1 .. Len(text) + 1 /\ Split(op) - 1 \in (op.head + 4) - 1 .. Len(text)
      /\ Split(op) + 1 \in 1 .. Len(text) + 1 /\ Ret(op) - 1 \in (Split(op) + 1) - 1 .. Len(text)
  BY <1>1, <1>2, <1>3, SMTT(20)
<1>6. SubSeq(text, op.head + 4, Split(op) - 1) \in Seq(STRING)
  BY <1>4, <1>5, SubSeqProperties
<1>7. SubSeq(text, Split(op) + 1, Ret(op) - 1) \in Seq(STRING)
  BY <1>4, <1>5, SubSeqProperties
<1>8. op.head <= op.to
  BY <1>1, <1>2
<1>9. QED
  BY <1>1, <1>6, <1>7, <1>8 DEF Entry, EntryType

-----------------------------------------------------------------------------
(* The steps preserve the invariant                                        *)

\* The operations of the next state: each goes on with one of before, or is new
\* and lies behind what was read.
Continued ==
  /\ \A o \in queue' : o.head > read \/ \E p \in queue : o.to = p.to /\ p.head <= o.head
  /\ read <= read' /\ cuts \subseteq cuts'

LEMMA OutTyped ==
  ASSUME Typed
  PROVE  /\ Out \in Seq(EntryType) /\ Len(Out) \in Nat
         /\ \A i \in 1 .. Len(Out) : Out[i] \in EntryType /\ Out[i].at \in Nat
<1>1. Out \in Seq(EntryType)
  BY DEF Typed, Out
<1>2. \A i \in 1 .. Len(Out) : Out[i] \in EntryType
  BY <1>1
<1>3. \A e \in EntryType : e.at \in Nat
  BY DEF EntryType
<1>4. QED
  BY <1>1, <1>2, <1>3

\* A step that posts nothing.
LEMMA OutKept ==
  ASSUME InTurn, Typed', Out' = Out, Continued
  PROVE  Passed' /\ Once' /\ ReadsInOrder'
<1>1. Len(Out) \in Nat /\ \A i \in 1 .. Len(Out) : Out[i].at \in Nat
  BY OutTyped DEF InTurn
<1>2. read \in Nat /\ read' \in Nat /\ read <= read' /\ cuts \subseteq cuts'
  BY DEF InTurn, Typed, TypeOK, Continued
<1>3. Passed'
  <2> SUFFICES ASSUME NEW i \in 1 .. Len(Out)
               PROVE  /\ Out[i].at \in 1 .. read'
                      /\ \A o \in queue' : Out[i].at < o.head \/ Out[i].at > o.to
    BY Zenon DEF Passed
  <2>1. Out[i].at \in 1 .. read
    BY DEF InTurn, Passed
  <2>2. ASSUME NEW o \in queue' PROVE Out[i].at < o.head \/ Out[i].at > o.to
    <3>1. o.head \in Nat /\ o.to \in Nat
      BY DEF Typed, OpType
    <3>2. CASE o.head > read
      BY <1>2, <2>1, <3>1, <3>2
    <3>3. ASSUME NEW p \in queue, o.to = p.to, p.head <= o.head
          PROVE  Out[i].at < o.head \/ Out[i].at > o.to
      <4>1. p.head \in Nat
        BY DEF InTurn, Typed, OpType
      <4>2. Out[i].at < p.head \/ Out[i].at > p.to
        BY DEF InTurn, Passed
      <4>3. QED
        BY <2>1, <3>1, <3>3, <4>1, <4>2
    <3>4. QED
      BY <3>2, <3>3 DEF Continued
  <2>3. QED
    BY <1>2, <2>1, <2>2
<1>4. Once'
  BY DEF InTurn, Once
<1>5. ReadsInOrder'
  <2>1. \A i, j \in 1 .. Len(Out) :
          i < j /\ Out[i].at > Out[j].at => \E c \in cuts : c \in Out[j].at .. Out[i].at - 1
    BY Zenon DEF InTurn, ReadsInOrder, Out
  <2>2. \A i, j \in 1 .. Len(Out) :
          i < j /\ Out[i].at > Out[j].at => \E c \in cuts' : c \in Out[j].at .. Out[i].at - 1
    BY <1>2, <2>1, Zenon
  <2>3. QED
    BY <2>2, Zenon DEF ReadsInOrder, Out
<1>6. QED
  BY <1>3, <1>4, <1>5

\* A turn that posts an entry.
LEMMA OutPosted ==
  ASSUME InTurn, Typed', NEW op \in queue, NEW e \in EntryType,
         Out' = Append(Out, e), e.at = op.head, op.head <= op.to,
         UNCHANGED <<read, cuts>>,
         \A o \in queue' : \/ o.to = op.to /\ op.head < o.head
                           \/ o \in queue /\ o # op
  PROVE  Passed' /\ Once' /\ ReadsInOrder'
<1> DEFINE n == Len(Out)
<1>1. Out \in Seq(EntryType) /\ n \in Nat /\ \A i \in 1 .. n : Out[i].at \in Nat
  BY OutTyped DEF InTurn
<1>0. n \in Nat
  BY <1>1
<1>2. Len(Out') = n + 1 /\ Out'[n + 1] = e /\ \A i \in 1 .. n : Out'[i] = Out[i]
  BY <1>1
<1>3. /\ op.head \in Nat /\ op.to \in Nat /\ op.from \in Nat /\ read \in Nat
      /\ 1 <= op.head /\ op.from <= op.head /\ op.to <= read /\ op.to \in cuts
  BY OpTyped DEF InTurn
<1>4. ASSUME NEW i \in 1 .. n
      PROVE  /\ Out[i].at \in 1 .. read /\ Out[i].at \in Nat
             /\ Out[i].at < op.head \/ Out[i].at > op.to
             /\ \A o \in queue : Out[i].at < o.head \/ Out[i].at > o.to
  BY <1>1 DEF InTurn, Passed
<1> HIDE DEF n
<1>5. ASSUME NEW i \in 1 .. n + 1
      PROVE  \/ i \in 1 .. n /\ Out'[i] = Out[i]
             \/ i = n + 1 /\ Out'[i] = e
  BY <1>1, <1>2
<1>6. Passed'
  <2> SUFFICES ASSUME NEW i \in 1 .. n + 1
               PROVE  /\ Out'[i].at \in 1 .. read'
                      /\ \A o \in queue' : Out'[i].at < o.head \/ Out'[i].at > o.to
    BY <1>2, Zenon DEF Passed
  <2>1. ASSUME NEW o \in queue'
        PROVE  o.head \in Nat /\ o.to \in Nat
    BY DEF Typed, OpType
  <2>2. CASE i \in 1 .. n /\ Out'[i] = Out[i]
    <3>1. ASSUME NEW o \in queue' PROVE Out[i].at < o.head \/ Out[i].at > o.to
      <4>1. CASE o.to = op.to /\ op.head < o.head
        BY <1>3, <1>4, <2>1, <2>2, <4>1
      <4>2. CASE o \in queue /\ o # op
        BY <1>4, <2>2, <4>2
      <4>3. QED
        BY <4>1, <4>2
    <3>2. QED
      BY <1>4, <2>2, <3>1
  <2>3. CASE i = n + 1 /\ Out'[i] = e
    <3>1. ASSUME NEW o \in queue' PROVE op.head < o.head \/ op.head > o.to
      <4>1. CASE o \in queue /\ o # op
        <5>1. op.to < o.from \/ o.to < op.from
          BY <4>1 DEF InTurn, Apart
        <5>2. o.from \in Nat /\ o.from <= o.head
          BY <4>1, OpTyped DEF InTurn
        <5>3. QED
          BY <1>3, <2>1, <5>1, <5>2
      <4>2. QED
        BY <4>1
    <3>2. op.head \in 1 .. read'
      BY <1>3
    <3>3. QED
      BY <2>3, <3>1, <3>2
  <2>4. QED
    BY <1>5, <2>2, <2>3
<1>7. Once'
  <2>1. ASSUME NEW i \in 1 .. n + 1, NEW j \in 1 .. n + 1, i < j PROVE Out'[i].at # Out'[j].at
    <3>0. i # n + 1
      BY <1>0, <2>1
    <3>1. i \in 1 .. n /\ Out'[i] = Out[i]
      BY <1>5, <3>0
    <3>2. CASE j \in 1 .. n /\ Out'[j] = Out[j]
      BY <2>1, <3>1, <3>2 DEF InTurn, Once, n
    <3>3. CASE j = n + 1 /\ Out'[j] = e
      BY <1>3, <1>4, <3>1, <3>3
    <3>4. QED
      BY <1>5, <3>2, <3>3
  <2>2. \A i, j \in 1 .. Len(Out') : i < j => Out'[i].at # Out'[j].at
    <3>1. 1 .. Len(Out') = 1 .. n + 1
      BY <1>2
    <3>2. QED
      BY <2>1, <3>1, ZenonT(30)
  <2>3. QED
    BY <2>2, Zenon DEF Once
<1>8. ReadsInOrder'
  <2>1. ASSUME NEW i \in 1 .. n + 1, NEW j \in 1 .. n + 1, i < j, Out'[i].at > Out'[j].at
        PROVE  \E c \in cuts' : c \in Out'[j].at .. Out'[i].at - 1
    <3>0. i # n + 1
      BY <1>0, <2>1
    <3>1. i \in 1 .. n /\ Out'[i] = Out[i]
      BY <1>5, <3>0
    <3>2. CASE j \in 1 .. n /\ Out'[j] = Out[j]
      BY <2>1, <3>1, <3>2 DEF InTurn, ReadsInOrder, Out, n
    <3>3. CASE j = n + 1 /\ Out'[j] = e
      <4>1. op.to \in op.head .. Out[i].at - 1
        BY <1>3, <1>4, <2>1, <3>1, <3>3
      <4>2. QED
        BY <1>3, <3>1, <3>3, <4>1
    <3>4. QED
      BY <1>5, <3>2, <3>3
  <2>2. \A i, j \in 1 .. Len(Out') :
          i < j /\ Out'[i].at > Out'[j].at => \E c \in cuts' : c \in Out'[j].at .. Out'[i].at - 1
    BY <1>2, <2>1, Zenon
  <2>3. QED
    BY <2>2, Zenon DEF ReadsInOrder, Out
<1>9. QED
  BY <1>6, <1>7, <1>8

\* The types of the operations.
Queued ==
  /\ queue \subseteq OpType
  /\ \A op \in queue :
       /\ op.from \in 1 .. op.to /\ op.to \in cuts /\ op.head \in op.from .. op.to + 1
       /\ op.step \in {"ready", "parsing", "done"}

\* An operation goes on.
LEMMA QueueChanged ==
  ASSUME Typed, Apart, UNCHANGED <<read, cuts>>,
         NEW op \in queue, NEW new \in OpType, new.from = op.from, new.to = op.to,
         op.head <= new.head, new.head <= op.to + 1,
         queue' = (queue \ {op}) \cup {new}
  PROVE  Queued' /\ Apart' /\ Continued
<1>1. \A o \in queue' : o = new \/ (o \in queue /\ o # op)
  OBVIOUS
<1>2. /\ op.head \in Nat /\ op.to \in Nat /\ op.from \in Nat /\ read \in Nat
      /\ 1 <= op.from /\ op.from <= op.to /\ op.from <= op.head /\ op.to \in cuts
  BY OpTyped
<1>3. new.head \in Nat /\ new.step \in {"ready", "parsing", "done"}
  BY DEF OpType
<1>4. Queued'
  <2>1. new.from \in 1 .. new.to /\ new.to \in cuts' /\ new.head \in new.from .. new.to + 1
    BY <1>2, <1>3
  <2>2. \A o \in queue : /\ o.from \in 1 .. o.to /\ o.to \in cuts'
                         /\ o.head \in o.from .. o.to + 1
                         /\ o.step \in {"ready", "parsing", "done"}
    BY DEF Typed, TypeOK
  <2>3. queue' \subseteq OpType
    BY <1>1 DEF Typed
  <2>4. QED
    BY <1>1, <1>3, <2>1, <2>2, <2>3, Zenon DEF Queued
<1>5. Apart'
  <2>1. \A o \in queue : o # op => (new.to < o.from \/ o.to < new.from) /\ (o.to < new.from \/ new.to < o.from)
    BY DEF Apart
  <2>2. \A o, p \in queue : o # p => o.to < p.from \/ p.to < o.from
    BY DEF Apart
  <2>3. QED
    BY <1>1, <2>1, <2>2, Zenon DEF Apart
<1>6. Continued
  <2>1. op.to = new.to /\ op.head <= new.head
    OBVIOUS
  <2>2. \A o \in queue : o.head \in Nat /\ o.head <= o.head
    BY DEF Typed, OpType
  <2>3. \A o \in queue' : \E p \in queue : o.to = p.to /\ p.head <= o.head
    BY <1>1, <2>1, <2>2, Zenon
  <2>4. read <= read' /\ cuts \subseteq cuts'
    BY <1>2
  <2>5. QED
    BY <2>3, <2>4, Zenon DEF Continued
<1>7. QED
  BY <1>4, <1>5, <1>6

\* Operations are left alone, or removed.
LEMMA QueueKept ==
  ASSUME Typed, Apart, UNCHANGED <<read, cuts>>, queue' \subseteq queue
  PROVE  Queued' /\ Apart' /\ Continued
<1>1. Queued'
  BY DEF Typed, TypeOK, Queued
<1>2. Apart'
  BY DEF Apart
<1>3. \A o \in queue' : \E p \in queue : o.to = p.to /\ p.head <= o.head
  BY DEF Typed, OpType
<1>4. read <= read' /\ cuts \subseteq cuts'
  BY DEF Typed, TypeOK
<1>5. QED
  BY <1>1, <1>2, <1>3, <1>4, Zenon DEF Continued

\* The types of what is not in the queue.
LEMMA TypedNext ==
  ASSUME Queued', prints' \in 0 .. MaxPrints, read' \in 0 .. Len(text'), cuts' \subseteq 1 .. read',
         stopping' \in BOOLEAN, trapped' \in BOOLEAN, text' \in Seq(STRING),
         delivered' \in Seq(EntryType), posted' \in Seq(EntryType)
  PROVE  Typed'
BY Zenon DEF Queued, Typed, TypeOK

LEMMA EmitInTurn == ASSUME InTurn, NEW m \in Messages, Emit(m) PROVE InTurn'
<1>1. UNCHANGED <<read, cuts, queue, posted, delivered, stopping, trapped>>
  BY DEF Emit
<1>2. Queued' /\ Apart' /\ Continued
  BY <1>1, QueueKept DEF InTurn
<1>3. Typed'
  <2>1. m \in Seq(STRING) /\ MaxPrints \in Nat
    BY LogAssumption
  <2>2. text' \in Seq(STRING) /\ Len(text') = Len(text) + Len(m)
    BY <2>1 DEF Emit, InTurn, Typed
  <2>3. read' \in 0 .. Len(text')
    BY <1>1, <2>1, <2>2 DEF InTurn, Typed, TypeOK
  <2>4. prints' \in 0 .. MaxPrints
    BY <2>1 DEF Emit, InTurn, Typed, TypeOK
  <2>5. /\ cuts' \subseteq 1 .. read' /\ stopping' \in BOOLEAN /\ trapped' \in BOOLEAN
        /\ delivered' \in Seq(EntryType) /\ posted' \in Seq(EntryType)
    BY <1>1 DEF InTurn, Typed, TypeOK
  <2>6. QED
    BY <1>2, <2>2, <2>3, <2>4, <2>5, TypedNext
<1>4. Out' = Out
  BY <1>1 DEF Out
<1>5. QED
  BY <1>2, <1>3, <1>4, OutKept DEF InTurn

LEMMA ReadInTurn == ASSUME InTurn, Read PROVE InTurn'
<1> DEFINE new == [from |-> read + 1, to |-> Len(text), head |-> read + 1, step |-> "ready"]
<1>1. /\ UNCHANGED <<text, prints, posted, delivered, stopping, trapped>>
      /\ read < Len(text) /\ read' = Len(text) /\ cuts' = cuts \cup {Len(text)}
      /\ queue' = queue \cup {new}
  BY DEF Read
<1>2. read \in Nat /\ Len(text) \in Nat /\ cuts \subseteq 1 .. read
  BY DEF InTurn, Typed, TypeOK
<1>3. ASSUME NEW o \in queue
      PROVE  /\ o.from \in 1 .. o.to /\ o.to \in cuts /\ o.head \in o.from .. o.to + 1
             /\ o.step \in {"ready", "parsing", "done"} /\ o \in OpType
             /\ o.head \in Nat /\ o.to \in Nat /\ o.to <= read
  <2>1. /\ o.from \in 1 .. o.to /\ o.to \in cuts /\ o.head \in o.from .. o.to + 1
        /\ o.step \in {"ready", "parsing", "done"} /\ o \in OpType
    BY DEF InTurn, Typed, TypeOK
  <2>2. QED
    BY <2>1, OpTyped DEF InTurn
<1>4. /\ new \in OpType /\ new.from \in 1 .. new.to /\ new.to \in cuts'
      /\ new.head \in new.from .. new.to + 1 /\ new.step \in {"ready", "parsing", "done"}
      /\ new.head > read /\ new.from > read
  BY <1>1, <1>2 DEF OpType
<1> HIDE DEF new
<1>5. Queued'
  BY <1>1, <1>3, <1>4 DEF Queued
<1>6. Apart'
  <2>1. \A o \in queue : o.to < new.from
    BY <1>2, <1>3, <1>4 DEF OpType
  <2>2. QED
    BY <1>1, <2>1 DEF InTurn, Apart
<1>7. Typed'
  <2>1. read' \in 0 .. Len(text') /\ cuts' \subseteq 1 .. read'
    <3>1. text' = text /\ read' = Len(text) /\ read < Len(text) /\ cuts' = cuts \cup {Len(text)}
      BY <1>1
    <3>2. Len(text) \in 0 .. Len(text) /\ Len(text) \in 1 .. Len(text)
      BY <1>2, <3>1
    <3>3. \A c \in cuts : c \in 1 .. Len(text)
      BY <1>2, <3>1
    <3>4. QED
      BY <3>1, <3>2, <3>3, Zenon
  <2>2. /\ prints' \in 0 .. MaxPrints /\ stopping' \in BOOLEAN /\ trapped' \in BOOLEAN
        /\ text' \in Seq(STRING) /\ delivered' \in Seq(EntryType) /\ posted' \in Seq(EntryType)
    BY <1>1 DEF InTurn, Typed, TypeOK
  <2>3. QED
    BY <1>5, <2>1, <2>2, TypedNext
<1>8. Continued
  <2>1. \A o \in queue : o.to = o.to /\ o.head <= o.head
    BY <1>3
  <2>2. \A o \in queue' : o.head > read \/ \E p \in queue : o.to = p.to /\ p.head <= o.head
    BY <1>1, <1>4, <2>1, Zenon
  <2>3. read <= read' /\ cuts \subseteq cuts'
    BY <1>1, <1>2
  <2>4. QED
    BY <2>2, <2>3, Zenon DEF Continued
<1>9. Out' = Out
  BY <1>1 DEF Out
<1>10. QED
  BY <1>6, <1>7, <1>8, <1>9, OutKept DEF InTurn

\* What is handed on is the first of what is there.
LEMMA HandedOn ==
  ASSUME NEW S, NEW s \in Seq(S), NEW t \in Seq(S), t # <<>>
  PROVE  /\ Append(s, Head(t)) \in Seq(S) /\ Tail(t) \in Seq(S)
         /\ Append(s, Head(t)) \o Tail(t) = s \o t
OBVIOUS

LEMMA DeliverInTurn == ASSUME InTurn, Deliver PROVE InTurn'
<1>1. /\ UNCHANGED <<text, prints, read, cuts, queue, stopping, trapped>> /\ posted # <<>>
      /\ delivered' = Append(delivered, Head(posted)) /\ posted' = Tail(posted)
  BY DEF Deliver
<1>2. Queued' /\ Apart' /\ Continued
  BY <1>1, QueueKept DEF InTurn
<1>3. delivered \in Seq(EntryType) /\ posted \in Seq(EntryType)
  BY DEF InTurn, Typed
<1>4. delivered' \in Seq(EntryType) /\ posted' \in Seq(EntryType)
  BY <1>1, <1>3, HandedOn
<1>5. Typed'
  <2>1. /\ prints' \in 0 .. MaxPrints /\ read' \in 0 .. Len(text') /\ cuts' \subseteq 1 .. read'
        /\ stopping' \in BOOLEAN /\ trapped' \in BOOLEAN /\ text' \in Seq(STRING)
    BY <1>1 DEF InTurn, Typed, TypeOK
  <2>2. QED
    BY <1>2, <1>4, <2>1, TypedNext
<1>6. Out' = Out
  BY <1>1, <1>3, HandedOn, SMTT(20) DEF Out
<1>7. QED
  BY <1>2, <1>5, <1>6, OutKept DEF InTurn

\* The steps that change neither the text nor what is posted.
LEMMA QuietInTurn ==
  ASSUME InTurn, UNCHANGED <<text, prints, read, cuts, posted, delivered>>,
         Queued', Apart', Continued, stopping' \in BOOLEAN, trapped' \in BOOLEAN
  PROVE  InTurn'
<1>1. Typed'
  <2>1. /\ prints' \in 0 .. MaxPrints /\ read' \in 0 .. Len(text') /\ cuts' \subseteq 1 .. read'
        /\ text' \in Seq(STRING)
        /\ delivered' \in Seq(EntryType) /\ posted' \in Seq(EntryType)
    BY DEF InTurn, Typed, TypeOK
  <2>2. QED
    BY <2>1, TypedNext
<1>2. Out' = Out
  BY DEF Out
<1>3. QED
  BY <1>1, <1>2, OutKept DEF InTurn

LEMMA StopInTurn == ASSUME InTurn, Stop \/ StopReturns PROVE InTurn'
<1>1. /\ UNCHANGED <<text, prints, read, cuts, posted, delivered, trapped>>
      /\ stopping' \in BOOLEAN /\ queue' \subseteq queue
  BY DEF Stop, StopReturns
<1>2. Queued' /\ Apart' /\ Continued
  BY <1>1, QueueKept DEF InTurn
<1>3. trapped' \in BOOLEAN
  BY <1>1 DEF InTurn, Typed, TypeOK
<1>4. QED
  BY <1>1, <1>2, <1>3, QuietInTurn

LEMMA StepChanged ==
  ASSUME NEW op \in OpType, NEW s \in {"ready", "parsing", "done"}, NEW h \in Nat
  PROVE  /\ [op EXCEPT !.step = s] \in OpType /\ [op EXCEPT !.step = s].from = op.from
         /\ [op EXCEPT !.step = s].to = op.to /\ [op EXCEPT !.step = s].head = op.head
         /\ [op EXCEPT !.head = h, !.step = s] \in OpType
         /\ [op EXCEPT !.head = h, !.step = s].from = op.from
         /\ [op EXCEPT !.head = h, !.step = s].to = op.to
         /\ [op EXCEPT !.head = h, !.step = s].head = h
BY DEF OpType

LEMMA WorkInTurn == ASSUME InTurn, NEW op \in queue, Finish(op) \/ Begin(op) PROVE InTurn'
<1>1. /\ UNCHANGED <<text, prints, read, cuts, posted, delivered, stopping, trapped>>
      /\ \/ queue' = queue \ {op}
         \/ \E s \in {"ready", "parsing", "done"} : queue' = (queue \ {op}) \cup {[op EXCEPT !.step = s]}
  <2>1. CASE Finish(op)
    BY <2>1 DEF Finish, Become
  <2>2. CASE Begin(op)
    BY <2>2 DEF Begin, Become
  <2>3. QED
    BY <2>1, <2>2
<1>2. Queued' /\ Apart' /\ Continued
  <2>1. CASE queue' = queue \ {op}
    BY <1>1, <2>1, QueueKept DEF InTurn
  <2>2. ASSUME NEW s \in {"ready", "parsing", "done"}, queue' = (queue \ {op}) \cup {[op EXCEPT !.step = s]}
        PROVE  Queued' /\ Apart' /\ Continued
    <3> DEFINE new == [op EXCEPT !.step = s]
    <3>1. op \in OpType /\ op.head \in Nat /\ op.to \in Nat /\ op.head <= op.to + 1
      BY OpTyped DEF InTurn
    <3>2. new \in OpType /\ new.from = op.from /\ new.to = op.to /\ new.head = op.head
      BY <3>1, StepChanged
    <3>3. queue' = (queue \ {op}) \cup {new}
      BY <2>2
    <3> HIDE DEF new
    <3>4. op.head <= new.head /\ new.head <= op.to + 1
      BY <3>1, <3>2
    <3>5. QED
      BY <1>1, <3>2, <3>3, <3>4, QueueChanged DEF InTurn
  <2>3. QED
    BY <1>1, <2>1, <2>2
<1>3. stopping' \in BOOLEAN /\ trapped' \in BOOLEAN
  BY <1>1 DEF InTurn, Typed, TypeOK
<1>4. QED
  BY <1>1, <1>2, <1>3, QuietInTurn

\* The queue after a turn.
LEMMA ParseQueue ==
  ASSUME InTurn, NEW op \in queue, Parse(op)
  PROVE  /\ Queued' /\ Apart' /\ Continued
         /\ \A o \in queue' : \/ o.to = op.to /\ Ret(op) + 1 = o.head
                              \/ o \in queue /\ o # op
<1> DEFINE new == [op EXCEPT !.head = Ret(op) + 1, !.step = "ready"]
<1>1. queue' = (queue \ {op}) \cup {new} /\ UNCHANGED <<read, cuts>>
  BY ParseIs DEF InTurn
<1>2. op \in OpType /\ op.head \in Nat /\ op.to \in Nat
  BY OpTyped DEF InTurn
<1>3. Ret(op) \in Nat /\ op.head <= Ret(op) + 1 /\ Ret(op) <= op.to
  BY TurnIs DEF InTurn
<1>4. Ret(op) + 1 \in Nat
  BY <1>3
<1>5. new \in OpType /\ new.from = op.from /\ new.to = op.to /\ new.head = Ret(op) + 1
  BY <1>2, <1>4, StepChanged
<1> HIDE DEF new
<1>6. op.head <= new.head /\ new.head <= op.to + 1
  BY <1>2, <1>3, <1>5
<1>7. Queued' /\ Apart' /\ Continued
  BY <1>1, <1>5, <1>6, QueueChanged DEF InTurn
<1>8. QED
  BY <1>1, <1>5, <1>7

LEMMA ParseInTurn == ASSUME InTurn, NEW op \in queue, Parse(op) PROVE InTurn'
<1>1. /\ Queued' /\ Apart' /\ Continued
      /\ \A o \in queue' : \/ o.to = op.to /\ Ret(op) + 1 = o.head
                           \/ o \in queue /\ o # op
  BY ParseQueue
<1>2. /\ trapped' = (Valid(op) /\ Split(op) + 1 > Ret(op))
      /\ IF Posts(op) THEN posted' = Append(posted, Entry(op.head, Split(op), Ret(op)))
                      ELSE posted' = posted
      /\ UNCHANGED <<text, prints, read, cuts, delivered, stopping>>
  BY ParseIs DEF InTurn
<1>3. stopping' \in BOOLEAN /\ trapped' \in BOOLEAN
  <2>1. stopping' \in BOOLEAN
    BY <1>2 DEF InTurn, Typed, TypeOK
  <2>2. trapped' \in BOOLEAN
    BY <1>2, Zenon
  <2>3. QED
    BY <2>1, <2>2
<1>4. CASE ~Posts(op)
  <2>1. UNCHANGED <<text, prints, read, cuts, posted, delivered>>
    BY <1>2, <1>4
  <2>2. QED
    BY <1>1, <1>3, <2>1, QuietInTurn
<1>5. CASE Posts(op)
  <2> DEFINE e == Entry(op.head, Split(op), Ret(op))
  <2>1. Valid(op) /\ ~(Split(op) + 1 > Ret(op)) /\ posted' = Append(posted, e)
    BY <1>2, <1>5, Zenon DEF Posts
  <2>2. e \in EntryType /\ e.at = op.head /\ op.head <= op.to
    BY <2>1, EntryTyped DEF InTurn
  <2>3. op.head < Ret(op) + 1
    <3>1. Split(op) \in Nat /\ Ret(op) \in Nat /\ op.head <= Split(op) /\ op.head \in Nat
      BY <2>1, TurnIs, OpTyped DEF InTurn, Valid
    <3>2. QED
      BY <2>1, <3>1
  <2> HIDE DEF e
  <2>4. delivered \in Seq(EntryType) /\ posted \in Seq(EntryType)
    BY DEF InTurn, Typed
  <2>5. posted' \in Seq(EntryType) /\ delivered' \in Seq(EntryType)
    BY <1>2, <2>1, <2>2, <2>4
  <2>6. Out' = Append(Out, e)
    <3>1. delivered \o Append(posted, e) = Append(delivered \o posted, e)
      BY <2>2, <2>4
    <3>2. QED
      BY <1>2, <2>1, <3>1 DEF Out
  <2>7. Typed'
    <3>1. /\ prints' \in 0 .. MaxPrints /\ read' \in 0 .. Len(text') /\ cuts' \subseteq 1 .. read'
          /\ text' \in Seq(STRING)
      BY <1>2 DEF InTurn, Typed, TypeOK
    <3>2. QED
      BY <1>1, <1>3, <2>5, <3>1, TypedNext
  <2>8. \A o \in queue' : \/ o.to = op.to /\ op.head < o.head
                          \/ o \in queue /\ o # op
    BY <1>1, <2>3
  <2>9. UNCHANGED <<read, cuts>>
    BY <1>2
  <2>10. Passed' /\ Once' /\ ReadsInOrder'
    BY <2>2, <2>6, <2>7, <2>8, <2>9, OutPosted
  <2>11. QED
    BY <1>1, <2>7, <2>10 DEF InTurn
<1>6. QED
  BY <1>4, <1>5

LEMMA InTurnInit == ASSUME Init PROVE InTurn
<1>1. Typed
  <2>1. MaxPrints \in Nat
    BY LogAssumption
  <2>2. Len(text) = 0
    BY DEF Init
  <2>3. prints \in 0 .. MaxPrints /\ read \in 0 .. Len(text) /\ cuts \subseteq 1 .. read
    BY <2>1, <2>2 DEF Init
  <2>4. stopping \in BOOLEAN /\ trapped \in BOOLEAN
    BY DEF Init
  <2>5. text \in Seq(STRING) /\ delivered \in Seq(EntryType) /\ posted \in Seq(EntryType)
    BY DEF Init
  <2>6. queue = {}
    BY DEF Init
  <2>7. QED
    BY <2>3, <2>4, <2>5, <2>6 DEF Typed, TypeOK
<1>2. Apart
  BY DEF Init, Apart
<1>3. Len(Out) = 0
  BY DEF Init, Out
<1>4. Passed /\ Once /\ ReadsInOrder
  BY <1>3 DEF Passed, Once, ReadsInOrder, Out
<1>5. QED
  BY <1>1, <1>2, <1>4 DEF InTurn

LEMMA InTurnNext == ASSUME InTurn, [Next]_vars PROVE InTurn'
<1>1. ASSUME NEW m \in Messages, Emit(m) PROVE InTurn'
  BY <1>1, EmitInTurn
<1>2. CASE Read
  BY <1>2, ReadInTurn
<1>3. CASE Deliver
  BY <1>3, DeliverInTurn
<1>4. CASE Stop \/ StopReturns
  BY <1>4, StopInTurn
<1>5. ASSUME NEW op \in queue, Finish(op) \/ Begin(op) PROVE InTurn'
  BY <1>5, WorkInTurn
<1>6. ASSUME NEW op \in queue, Parse(op) PROVE InTurn'
  BY <1>6, ParseInTurn
<1>7. CASE UNCHANGED vars
  <2>1. /\ UNCHANGED <<text, prints, read, cuts, posted, delivered, queue>>
        /\ UNCHANGED <<stopping, trapped>>
    BY <1>7 DEF vars
  <2>2. Queued' /\ Apart' /\ Continued
    BY <2>1, QueueKept DEF InTurn
  <2>3. stopping' \in BOOLEAN /\ trapped' \in BOOLEAN
    BY <2>1 DEF InTurn, Typed, TypeOK
  <2>4. QED
    BY <2>1, <2>2, <2>3, QuietInTurn
<1>8. QED
  BY <1>1, <1>2, <1>3, <1>4, <1>5, <1>6, <1>7, Zenon DEF Next, MainStep, WorkerStep

-----------------------------------------------------------------------------
(* Theorems                                                                *)

\* The invariant holds in every reachable state: no two operations overlap, and
\* every entry on its way lies behind what its operation has still to parse.
THEOREM InTurnInvariant == Spec => []InTurn
<1>1. Init => InTurn
  BY InTurnInit
<1>2. InTurn /\ [Next]_vars => InTurn'
  BY InTurnNext
<1>3. QED
  BY <1>1, <1>2, PTL DEF Spec

\* The variables keep their types: every operation is a part of what was read
\* that ends where a read ended, and parses no further than that.
THEOREM LogTypeCorrect == Spec => []TypeOK
<1>1. InTurn => TypeOK
  BY DEF InTurn, Typed
<1>2. QED
  BY <1>1, InTurnInvariant, PTL

\* Whatever the threads do, the entries of one read are posted and delivered in
\* the order of their lines.
THEOREM ReadsInOrderHolds == Spec => []ReadsInOrder
<1>1. InTurn => ReadsInOrder
  BY DEF InTurn
<1>2. QED
  BY <1>1, InTurnInvariant, PTL

\* No entry is posted twice: no two that are posted or delivered start at the
\* same byte.
THEOREM PostedOnce == Spec => []Once
<1>1. InTurn => Once
  BY DEF InTurn
<1>2. QED
  BY <1>1, InTurnInvariant, PTL

-----------------------------------------------------------------------------
(* The lines of a part of the text                                         *)

IsLine(l) ==
  /\ l[1] <= l[2] /\ text[l[2]] = NewLine
  /\ l[1] = 1 \/ text[l[1] - 1] = NewLine
  /\ \A i \in l[1] .. l[2] - 1 : text[i] # NewLine
EntryOf(l) == Entry(l[1], Separator(l), l[2])
Holds(e, l) == IsLine(l) /\ Tagged(l) /\ e = EntryOf(l) /\ Encodes(e)

LEMMA EntriesAre ==
  ASSUME NEW from \in Nat, NEW to \in Nat, NEW e
  PROVE  e \in Entries(from, to) <=> \E l \in (from .. to) \X (from .. to) : Holds(e, l)
<1>1. Lines(from, to) = {l \in (from .. to) \X (from .. to) : IsLine(l)}
  BY Zenon DEF Lines, IsLine
<1>2. Entries(from, to) = {f \in {EntryOf(l) : l \in {k \in Lines(from, to) : Tagged(k)}} : Encodes(f)}
  BY Zenon DEF Entries, EntryOf
<1>3. QED
  BY <1>1, <1>2, Zenon DEF Holds

LEMMA MaxIs ==
  ASSUME NEW S \in SUBSET Nat, NEW x \in S, \A y \in S : y <= x
  PROVE  Max(S) = x
<1>1. \A y \in S : x >= y
  OBVIOUS
<1>2. Max(S) \in S /\ \A y \in S : Max(S) >= y
  BY <1>1, Zenon DEF Max
<1>3. Max(S) \in Nat /\ x \in Nat /\ Max(S) >= x /\ Max(S) <= x
  BY <1>2
<1>4. QED
  BY <1>3

\* The separator of a line is what the loop finds.
LEMMA SeparatorIs ==
  ASSUME NEW l \in Nat \X Nat, NEW k \in Nat, IsLast(k, l[1], l[2] - 1, None), 1 <= l[1]
  PROVE  Separator(l) = k
<1> DEFINE S == {None} \cup {i \in l[1] .. l[2] - 1 : text[i] = "="}
<1>1. None = 0 /\ l[1] \in Nat /\ l[2] \in Nat
  BY DEF None
<1>2. S \in SUBSET Nat
  BY <1>1
<1>3. k \in S
  BY DEF IsLast
<1>4. ASSUME NEW y \in S PROVE y <= k
  <2>1. CASE y = None
    BY <1>1, <2>1
  <2>2. CASE y \in l[1] .. l[2] - 1 /\ text[y] = "="
    BY <1>1, <2>2 DEF IsLast
  <2>3. QED
    BY <2>1, <2>2
<1>5. Max(S) = k
  <2> HIDE DEF S
  <2>1. QED
    BY <1>2, <1>3, <1>4, MaxIs
<1>6. QED
  BY <1>5 DEF Separator

LEMMA SeparatorFound ==
  ASSUME NEW l \in Nat \X Nat, 1 <= l[1]
  PROVE  /\ Separator(l) \in Nat /\ IsLast(Separator(l), l[1], l[2] - 1, None)
         /\ Separator(l) # None => Separator(l) \in l[1] .. l[2] - 1
<1>1. l[1] \in Nat /\ l[2] - 1 \in Int /\ None \in Nat
  BY DEF None
<1>2. PICK k \in Nat : IsLast(k, l[1], l[2] - 1, None)
  BY <1>1, LastExists
<1>3. Separator(l) = k
  BY <1>2, SeparatorIs
<1>4. k # None => k \in l[1] .. l[2] - 1
  BY <1>2 DEF IsLast
<1>5. QED
  BY <1>2, <1>3, <1>4

LEMMA HeldAt ==
  ASSUME NEW from \in Nat, NEW to \in Nat, NEW e \in Entries(from, to)
  PROVE  from <= e.at /\ e.at <= to /\ e.at \in Nat
<1>0. \E l \in (from .. to) \X (from .. to) : Holds(e, l)
  BY EntriesAre
<1>1. PICK l \in (from .. to) \X (from .. to) : e = EntryOf(l)
  BY <1>0 DEF Holds
<1>2. e.at = l[1]
  BY <1>1 DEF EntryOf, Entry
<1>3. QED
  BY <1>1, <1>2

\* Where every message ends a line ...
WholeLines == \A m \in Messages : m # <<>> => m[Len(m)] = NewLine

\* ... so does every read, and every turn begins with one.
Lined ==
  /\ text # <<>> => text[Len(text)] = NewLine
  /\ \A c \in cuts : text[c] = NewLine
  /\ read = 0 \/ read \in cuts
  /\ \A op \in queue : op.head = 1 \/ text[op.head - 1] = NewLine

LEMMA RetEndsLine ==
  ASSUME Typed, Lined, NEW op \in queue
  PROVE  /\ text[Ret(op)] = NewLine
         /\ op.head <= op.to => Ret(op) = LineEnd(op.head, op.to)
<1>1. op.head \in Nat /\ op.to \in Nat /\ op.head <= op.to + 1 /\ op.to \in cuts
  BY OpTyped
<1>2. text[op.to] = NewLine
  BY <1>1 DEF Lined
<1>3. LineEnd(op.head, op.to) \in Nat /\ IsEnd(LineEnd(op.head, op.to), op.head, op.to)
  BY <1>1, LineEndIs
<1>4. ASSUME op.head <= op.to, LineEnd(op.head, op.to) > op.to PROVE FALSE
  <2>1. op.to \in op.head .. (LineEnd(op.head, op.to) - 1)
    BY <1>1, <1>3, <1>4
  <2>2. QED
    BY <1>2, <1>3, <2>1 DEF IsEnd
<1>5. CASE LineEnd(op.head, op.to) > op.to
  BY <1>2, <1>4, <1>5 DEF Ret
<1>6. CASE ~(LineEnd(op.head, op.to) > op.to)
  BY <1>3, <1>6 DEF Ret, IsEnd
<1>7. QED
  BY <1>5, <1>6

\* What an operation holds is what it posts in this turn and what it holds after it.
LEMMA TurnTakes ==
  ASSUME Typed, Lined, NEW op \in queue, NEW e
  PROVE  e \in Entries(op.head, op.to) <=>
           \/ Posts(op) /\ e = Entry(op.head, Split(op), Ret(op))
           \/ e \in Entries(Ret(op) + 1, op.to)
<1> DEFINE l0 == <<op.head, Ret(op)>>
<1>1. /\ op.head \in Nat /\ op.to \in Nat /\ 1 <= op.head /\ op.head <= op.to + 1
      /\ Ret(op) \in Nat /\ Ret(op) + 1 \in Nat /\ op.head <= Ret(op) + 1 /\ Ret(op) <= op.to
      /\ Split(op) \in Nat
  BY OpTyped, TurnIs
<1>2. text[Ret(op)] = NewLine
  BY RetEndsLine
<1>3. e \in Entries(op.head, op.to) <=> \E l \in (op.head .. op.to) \X (op.head .. op.to) : Holds(e, l)
  BY <1>1, EntriesAre
<1>4. e \in Entries(Ret(op) + 1, op.to) <=>
        \E l \in (Ret(op) + 1 .. op.to) \X (Ret(op) + 1 .. op.to) : Holds(e, l)
  BY <1>1, EntriesAre
<1>5. CASE op.head > op.to
  <2>1. op.head = op.to + 1 /\ Ret(op) = op.to
    BY <1>1, <1>5
  <2>2. ~Posts(op)
    BY <1>1, <1>5, TurnIs DEF Posts, Valid
  <2>3. QED
    BY <1>3, <1>4, <2>1, <2>2
<1>6. CASE op.head <= op.to
  <2>1. Ret(op) = LineEnd(op.head, op.to) /\ IsEnd(Ret(op), op.head, op.to)
    BY <1>1, <1>6, RetEndsLine, LineEndIs
  <2>2. /\ op.head <= Ret(op)
        /\ \A k \in op.head .. (Ret(op) - 1) : text[k] # NewLine
    BY <2>1 DEF IsEnd
  <2>3. l0 \in (op.head .. op.to) \X (op.head .. op.to) /\ l0 \in Nat \X Nat
    BY <1>1, <1>6, <2>2
  <2>4. IsLine(l0)
    BY <1>2, <2>2 DEF IsLine, Lined
  <2>5. Separator(l0) = Split(op)
    <3>1. None \in Nat
      BY DEF None
    <3>2. IsLast(Split(op), op.head, LineEnd(op.head, op.to) - 1, None)
      BY <1>1, <3>1, LastBeforeIs DEF Split
    <3>3. IsLast(Split(op), l0[1], l0[2] - 1, None) /\ 1 <= l0[1]
      BY <1>1, <2>1, <3>2
    <3>4. QED
      BY <1>1, <2>3, <3>3, SeparatorIs
  <2>6. Split(op) # None => op.head <= Split(op) /\ Split(op) <= Ret(op) - 1
    <3>1. Separator(l0) # None => Separator(l0) \in l0[1] .. l0[2] - 1
      BY <1>1, <2>3, SeparatorFound
    <3>2. QED
      BY <1>1, <2>5, <3>1
  <2>7. Tagged(l0) <=> Valid(op)
    <3>1. Tagged(l0) <=> ValidStart(op.head, Split(op))
      <4>1. Split(op) - op.head > 4 <=> Split(op) > op.head + 4
        BY <1>1
      <4>2. l0[1] = op.head
        OBVIOUS
      <4>3. QED
        BY <2>5, <4>1, <4>2, Zenon DEF Tagged, ValidStart
    <3>2. ValidStart(op.head, Split(op)) => Split(op) # None
      <4>1. Split(op) - op.head > 4 => Split(op) # None
        BY <1>1 DEF None
      <4>2. QED
        BY <4>1, Zenon DEF ValidStart
    <3>3. QED
      BY <3>1, <3>2 DEF Valid
  <2>8. EntryOf(l0) = Entry(op.head, Split(op), Ret(op))
    BY <2>5 DEF EntryOf
  <2>9. Holds(e, l0) <=> Posts(op) /\ e = Entry(op.head, Split(op), Ret(op))
    <3>1. Valid(op) => ~(Split(op) + 1 > Ret(op))
      BY <1>1, <2>6 DEF Valid
    <3>2. QED
      BY <2>4, <2>7, <2>8, <3>1, Zenon DEF Holds, Posts
  <2>10. ASSUME NEW l \in (op.head .. op.to) \X (op.head .. op.to), Holds(e, l), l # l0
         PROVE  l \in (Ret(op) + 1 .. op.to) \X (Ret(op) + 1 .. op.to)
    <3>1. PICK a \in op.head .. op.to, b \in op.head .. op.to : l = <<a, b>>
      OBVIOUS
    <3>2. /\ a <= b /\ text[b] = NewLine /\ (a = 1 \/ text[a - 1] = NewLine)
          /\ \A i \in a .. b - 1 : text[i] # NewLine
      BY <2>10, <3>1 DEF Holds, IsLine
    <3>3. ASSUME a <= Ret(op) PROVE FALSE
      <4>1. a = op.head
        <5>1. ASSUME a > op.head PROVE FALSE
          <6>1. a - 1 \in op.head .. (Ret(op) - 1) /\ a # 1
            BY <1>1, <3>3, <5>1
          <6>2. QED
            BY <2>2, <3>2, <6>1
        <5>2. QED
          BY <1>1, <5>1
      <4>2. IsEnd(b, op.head, op.to)
        BY <1>1, <3>2, <4>1 DEF IsEnd
      <4>3. b = Ret(op)
        BY <1>1, <2>1, <4>2, EndUnique
      <4>4. QED
        BY <2>10, <3>1, <4>1, <4>3
    <3>4. a > Ret(op) /\ b > Ret(op)
      BY <1>1, <3>2, <3>3
    <3>5. QED
      BY <1>1, <3>1, <3>4
  <2>11. (Ret(op) + 1 .. op.to) \X (Ret(op) + 1 .. op.to) \subseteq (op.head .. op.to) \X (op.head .. op.to)
    BY <1>1
  <2>12. QED
    <3> HIDE DEF l0
    <3>1. QED
      BY <1>3, <1>4, <2>3, <2>9, <2>10, <2>11, Zenon
<1>7. QED
  BY <1>1, <1>5, <1>6

-----------------------------------------------------------------------------
(* What is printed later changes no line of before                         *)

LEMMA SubSeqSame ==
  ASSUME NEW S, NEW s, NEW t, NEW m \in Int, NEW k \in Int,
         \A i \in m .. k : s[i] \in S /\ t[i] = s[i]
  PROVE  SubSeq(t, m, k) = SubSeq(s, m, k)
<1>1. /\ SubSeq(s, m, k) \in Seq(S) /\ Len(SubSeq(s, m, k)) = IF m <= k THEN k - m + 1 ELSE 0
      /\ \A i \in 1 .. k - m + 1 : SubSeq(s, m, k)[i] = s[m + i - 1]
  BY SubSeqProperties
<1>2. \A i \in m .. k : t[i] \in S
  OBVIOUS
<1>3. /\ SubSeq(t, m, k) \in Seq(S) /\ Len(SubSeq(t, m, k)) = IF m <= k THEN k - m + 1 ELSE 0
      /\ \A i \in 1 .. k - m + 1 : SubSeq(t, m, k)[i] = t[m + i - 1]
  BY <1>2, SubSeqProperties
<1>4. ASSUME NEW i \in 1 .. Len(SubSeq(s, m, k)) PROVE SubSeq(s, m, k)[i] = SubSeq(t, m, k)[i]
  <2>1. m + i - 1 \in m .. k /\ i \in 1 .. k - m + 1
    BY <1>1
  <2>2. QED
    BY <1>1, <1>3, <2>1
<1>5. QED
  BY <1>1, <1>3, <1>4, SeqEqual

\* The first n bytes stay.
Stays(n) ==
  /\ n \in Nat /\ \A i \in 1 .. n : text[i] \in STRING /\ text'[i] = text[i]

LEMMA LineStays ==
  ASSUME NEW from \in Nat, NEW to \in Nat, 1 <= from, Stays(to),
         NEW l \in (from .. to) \X (from .. to), NEW e
  PROVE  Holds(e, l)' <=> Holds(e, l)
<1>1. PICK a \in from .. to, b \in from .. to : l = <<a, b>>
  OBVIOUS
<1>2. /\ a \in Nat /\ b \in Nat /\ 1 <= a /\ a <= to /\ 1 <= b /\ b <= to /\ l[1] = a /\ l[2] = b
      /\ l \in Nat \X Nat
  BY <1>1
<1>3. \A i \in 1 .. to : text[i] \in STRING /\ text'[i] = text[i]
  BY DEF Stays
<1>4. \A i \in a .. b - 1 : text'[i] = text[i]
  BY <1>2, <1>3
<1>5. text'[b] = text[b] /\ (a # 1 => text'[a - 1] = text[a - 1])
  BY <1>2, <1>3
<1>6. IsLine(l)' <=> IsLine(l)
  BY <1>2, <1>4, <1>5, Zenon DEF IsLine
<1>7. Separator(l)' = Separator(l)
  <2>1. {i \in a .. b - 1 : text'[i] = "="} = {i \in a .. b - 1 : text[i] = "="}
    BY <1>4
  <2>2. QED
    BY <1>2, <2>1, Zenon DEF Separator
<1>8. Separator(l) \in Nat /\ (Separator(l) # None => a <= Separator(l) /\ Separator(l) <= b - 1)
  BY <1>2, SeparatorFound
<1>9. CASE ~(Separator(l) > a + 4)
  <2>1. ~Tagged(l) /\ ~Tagged(l)'
    BY <1>2, <1>7, <1>9, Zenon DEF Tagged
  <2>2. QED
    BY <2>1, Zenon DEF Holds
<1>10. CASE Separator(l) > a + 4
  <2>1. Separator(l) <= b - 1
    BY <1>2, <1>8, <1>10 DEF None
  <2>2. SubSeq(text', a, a + 2) = SubSeq(text, a, a + 2) /\ text'[a + 3] = text[a + 3]
    <3>1. \A i \in a .. a + 2 : i \in 1 .. to
      BY <1>2, <1>8, <1>10, <2>1
    <3>2. a + 3 \in 1 .. to
      BY <1>2, <1>8, <1>10, <2>1
    <3>3. QED
      BY <1>2, <1>3, <3>1, <3>2, SubSeqSame
  <2>3. Tagged(l)' <=> Tagged(l)
    BY <1>2, <1>7, <2>2, Zenon DEF Tagged
  <2>4. /\ SubSeq(text', a + 4, Separator(l) - 1) = SubSeq(text, a + 4, Separator(l) - 1)
        /\ SubSeq(text', Separator(l) + 1, b - 1) = SubSeq(text, Separator(l) + 1, b - 1)
    <3>1. \A i \in a + 4 .. Separator(l) - 1 : i \in 1 .. to
      BY <1>2, <1>8, <1>10, <2>1
    <3>2. \A i \in Separator(l) + 1 .. b - 1 : i \in 1 .. to
      BY <1>2, <1>8, <1>10, <2>1
    <3>3. a + 4 \in Int /\ Separator(l) - 1 \in Int /\ Separator(l) + 1 \in Int /\ b - 1 \in Int
      BY <1>2, <1>8
    <3>4. \A i \in a + 4 .. Separator(l) - 1 : text[i] \in STRING /\ text'[i] = text[i]
      BY <1>3, <3>1
    <3>5. \A i \in Separator(l) + 1 .. b - 1 : text[i] \in STRING /\ text'[i] = text[i]
      BY <1>3, <3>2
    <3>6. SubSeq(text', a + 4, Separator(l) - 1) = SubSeq(text, a + 4, Separator(l) - 1)
      <4>1. PICK m \in Int, k \in Int : m = a + 4 /\ k = Separator(l) - 1
        BY <3>3
      <4>2. \A i \in m .. k : text[i] \in STRING /\ text'[i] = text[i]
        BY <3>4, <4>1
      <4>3. QED
        BY <4>1, <4>2, SubSeqSame
    <3>7. SubSeq(text', Separator(l) + 1, b - 1) = SubSeq(text, Separator(l) + 1, b - 1)
      <4>1. PICK m \in Int, k \in Int : m = Separator(l) + 1 /\ k = b - 1
        BY <3>3
      <4>2. \A i \in m .. k : text[i] \in STRING /\ text'[i] = text[i]
        BY <3>5, <4>1
      <4>3. QED
        BY <4>1, <4>2, SubSeqSame, SMTT(20)
    <3>8. QED
      BY <3>6, <3>7
  <2>5. EntryOf(l)' = EntryOf(l)
    BY <1>2, <1>7, <2>4, Zenon DEF EntryOf, Entry
  <2>6. QED
    BY <1>6, <2>3, <2>5, Zenon DEF Holds, Encodes
<1>11. QED
  BY <1>9, <1>10

LEMMA EntriesNextAre ==
  ASSUME NEW from \in Nat, NEW to \in Nat, NEW e
  PROVE  e \in Entries(from, to)' <=> \E l \in (from .. to) \X (from .. to) : Holds(e, l)'
<1>1. Lines(from, to)' = {l \in (from .. to) \X (from .. to) : IsLine(l)'}
  BY Zenon DEF Lines, IsLine
<1>2. Entries(from, to)' = {f \in {EntryOf(l)' : l \in {k \in Lines(from, to)' : Tagged(k)'}} : Encodes(f)}
  BY Zenon DEF Entries, EntryOf
<1>3. QED
  BY <1>1, <1>2, Zenon DEF Holds, Encodes

LEMMA EntriesStay ==
  ASSUME NEW from \in Nat, NEW to \in Nat, 1 <= from, Stays(to)
  PROVE  Entries(from, to)' = Entries(from, to)
<1>1. ASSUME NEW e PROVE e \in Entries(from, to)' <=> e \in Entries(from, to)
  BY EntriesAre, EntriesNextAre, LineStays, Zenon
<1>2. QED
  BY <1>1

LEMMA TextStays ==
  ASSUME InTurn, text' = text \/ \E m \in Messages : text' = text \o m
  PROVE  Len(text) \in Nat /\ Stays(Len(text))
<1>1. text \in Seq(STRING) /\ Len(text) \in Nat
  BY DEF InTurn, Typed
<1>2. CASE text' = text
  BY <1>1, <1>2 DEF Stays
<1>3. ASSUME NEW m \in Messages, text' = text \o m PROVE Stays(Len(text))
  <2>1. m \in Seq(STRING)
    BY LogAssumption
  <2>2. QED
    BY <1>1, <1>3, <2>1 DEF Stays
<1>4. QED
  BY <1>1, <1>2, <1>3

-----------------------------------------------------------------------------
(* Every read ends a line                                                  *)

LEMMA LinedEmit == ASSUME WholeLines, InTurn, Lined, NEW m \in Messages, Emit(m) PROVE Lined'
<1>1. text' = text \o m /\ UNCHANGED <<read, cuts, queue>>
  BY DEF Emit
<1>2. m \in Seq(STRING) /\ text \in Seq(STRING) /\ cuts \subseteq 1 .. read /\ read \in 0 .. Len(text)
  BY LogAssumption DEF InTurn, Typed, TypeOK
<1>3. Len(text) \in Nat /\ \A i \in 1 .. Len(text) : text'[i] = text[i]
  BY <1>1, TextStays DEF Stays
<1>4. text' # <<>> => text'[Len(text')] = NewLine
  <2>1. CASE m = <<>>
    BY <1>1, <1>2, <2>1 DEF Lined
  <2>2. CASE m # <<>>
    <3>1. m[Len(m)] = NewLine /\ Len(m) \in Nat /\ Len(m) > 0
      BY <1>2, <2>2 DEF WholeLines
    <3>2. Len(text') = Len(text) + Len(m) /\ text'[Len(text) + Len(m)] = m[Len(m)]
      BY <1>1, <1>2, <1>3, <3>1
    <3>3. QED
      BY <3>1, <3>2
  <2>3. QED
    BY <2>1, <2>2
<1>5. \A c \in cuts' : text'[c] = NewLine
  BY <1>1, <1>2, <1>3 DEF Lined
<1>6. \A op \in queue' : op.head = 1 \/ text'[op.head - 1] = NewLine
  <2> SUFFICES ASSUME NEW op \in queue PROVE op.head = 1 \/ text'[op.head - 1] = NewLine
    BY <1>1
  <2>1. op.head = 1 \/ text[op.head - 1] = NewLine
    BY DEF Lined
  <2>2. op.head = 1 \/ op.head - 1 \in 1 .. Len(text)
    BY OpTyped DEF InTurn
  <2>3. QED
    BY <1>3, <2>1, <2>2
<1>7. QED
  BY <1>1, <1>4, <1>5, <1>6 DEF Lined

LEMMA LinedRead == ASSUME InTurn, Lined, Read PROVE Lined'
<1>1. /\ text' = text /\ read < Len(text) /\ read' = Len(text) /\ cuts' = cuts \cup {Len(text)}
      /\ \A o \in queue' : o \in queue \/ o.head = read + 1
  BY DEF Read
<1>2. text \in Seq(STRING) /\ read \in Nat
  BY DEF InTurn, Typed, TypeOK
<1>3. text # <<>>
  BY <1>1, <1>2
<1>4. text[Len(text)] = NewLine
  BY <1>3 DEF Lined
<1>5. read + 1 = 1 \/ text[(read + 1) - 1] = NewLine
  BY <1>2 DEF Lined
<1>6. QED
  BY <1>1, <1>4, <1>5 DEF Lined

LEMMA LinedQuiet ==
  ASSUME InTurn, Lined, UNCHANGED <<text, read, cuts>>,
         \A o \in queue' : \E p \in queue : o.head = p.head \/ o.head = Ret(p) + 1
  PROVE  Lined'
<1>1. ASSUME NEW o \in queue' PROVE o.head = 1 \/ text[o.head - 1] = NewLine
  <2>1. PICK p \in queue : o.head = p.head \/ o.head = Ret(p) + 1
    OBVIOUS
  <2>2. text[Ret(p)] = NewLine /\ Ret(p) \in Nat
    BY RetEndsLine, TurnIs DEF InTurn
  <2>3. QED
    BY <2>1, <2>2 DEF Lined
<1>2. QED
  BY <1>1 DEF Lined

LEMMA LinedNext == ASSUME WholeLines, InTurn, Lined, [Next]_vars PROVE Lined'
<1>1. ASSUME NEW m \in Messages, Emit(m) PROVE Lined'
  BY <1>1, LinedEmit
<1>2. CASE Read
  BY <1>2, LinedRead
<1>3. CASE Deliver \/ Stop \/ StopReturns \/ UNCHANGED vars
  <2>1. UNCHANGED <<text, read, cuts>> /\ queue' \subseteq queue
    BY <1>3 DEF Deliver, Stop, StopReturns, vars
  <2>2. QED
    BY <2>1, LinedQuiet
<1>4. ASSUME NEW op \in queue, Finish(op) \/ Begin(op) PROVE Lined'
  <2>1. UNCHANGED <<text, read, cuts>>
    BY <1>4 DEF Finish, Begin
  <2>2. op \in OpType
    BY OpTyped DEF InTurn
  <2>3. \A s \in {"ready", "parsing", "done"} : [op EXCEPT !.step = s].head = op.head
    BY <2>2, StepChanged
  <2>4. \A o \in queue' : o \in queue \/ o.head = op.head
    BY <1>4, <2>3 DEF Finish, Begin, Become
  <2>5. QED
    BY <2>1, <2>4, LinedQuiet
<1>5. ASSUME NEW op \in queue, Parse(op) PROVE Lined'
  <2>1. UNCHANGED <<text, read, cuts>>
    BY <1>5 DEF Parse
  <2>2. \A o \in queue' : o.head = Ret(op) + 1 \/ o \in queue
    BY <1>5, ParseQueue
  <2>3. QED
    BY <2>1, <2>2, LinedQuiet
<1>6. QED
  BY <1>1, <1>2, <1>3, <1>4, <1>5, Zenon DEF Next, MainStep, WorkerStep

-----------------------------------------------------------------------------
(* The steps of LogChannel                                                 *)

\* The variables of LogChannel.
Pipe == Entries(read + 1, Len(text))
Held == UNION {Entries(op.head, op.to) : op \in queue}
MainQ == Range(posted)

LEMMA HeldIs ==
  ASSUME NEW e
  PROVE  /\ e \in Held <=> \E op \in queue : e \in Entries(op.head, op.to)
         /\ e \in Held' <=> \E op \in queue' : e \in Entries(op.head, op.to)'
BY Zenon DEF Held

LEMMA HoldsSame ==
  ASSUME text' = text, NEW e, NEW l
  PROVE  Holds(e, l)' <=> Holds(e, l)
<1>1. Separator(l)' = Separator(l)
  BY DEF Separator
<1>2. Tagged(l)' <=> Tagged(l)
  BY <1>1, Zenon DEF Tagged
<1>3. EntryOf(l)' = EntryOf(l)
  BY <1>1, Zenon DEF EntryOf, Entry
<1>4. IsLine(l)' <=> IsLine(l)
  BY Zenon DEF IsLine
<1>5. QED
  BY <1>2, <1>3, <1>4, Zenon DEF Holds, Encodes

LEMMA EntriesSame ==
  ASSUME text' = text, NEW from \in Nat, NEW to \in Nat
  PROVE  Entries(from, to)' = Entries(from, to)
<1>1. ASSUME NEW e PROVE e \in Entries(from, to)' <=> e \in Entries(from, to)
  <2>1. \A l \in (from .. to) \X (from .. to) : Holds(e, l)' <=> Holds(e, l)
    BY HoldsSame
  <2>2. QED
    BY <2>1, EntriesAre, EntriesNextAre, Zenon
<1>2. QED
  BY <1>1

LEMMA PipeNextIs ==
  ASSUME NEW e
  PROVE  e \in Pipe' <=> \E l \in (read' + 1 .. Len(text')) \X (read' + 1 .. Len(text')) : Holds(e, l)'
<1>1. Lines(read + 1, Len(text))' =
        {l \in (read' + 1 .. Len(text')) \X (read' + 1 .. Len(text')) : IsLine(l)'}
  BY Zenon DEF Lines, IsLine
<1>2. Pipe' = {f \in {EntryOf(l)' : l \in {k \in Lines(read + 1, Len(text))' : Tagged(k)'}} : Encodes(f)}
  BY Zenon DEF Pipe, Entries, EntryOf
<1>3. QED
  BY <1>1, <1>2, Zenon DEF Holds, Encodes

LEMMA PipeSame ==
  ASSUME Typed, text' = text, read' = read
  PROVE  Pipe' = Pipe
<1>1. read + 1 \in Nat /\ Len(text) \in Nat
  BY DEF Typed, TypeOK
<1>2. ASSUME NEW e PROVE e \in Pipe' <=> e \in Pipe
  <2>1. \A l \in (read + 1 .. Len(text)) \X (read + 1 .. Len(text)) : Holds(e, l)' <=> Holds(e, l)
    BY HoldsSame
  <2>2. e \in Pipe <=> \E l \in (read + 1 .. Len(text)) \X (read + 1 .. Len(text)) : Holds(e, l)
    BY <1>1, EntriesAre DEF Pipe
  <2>3. e \in Pipe' <=> \E l \in (read + 1 .. Len(text)) \X (read + 1 .. Len(text)) : Holds(e, l)'
    BY PipeNextIs
  <2>4. QED
    BY <2>1, <2>2, <2>3, Zenon
<1>3. QED
  BY <1>2

\* An operation that is continued with the same part holds the same.
LEMMA HeldSame ==
  ASSUME Typed, Typed', text' = text,
         \A o \in queue : \/ \A e : e \notin Entries(o.head, o.to)
                          \/ \E p \in queue' : p.head = o.head /\ p.to = o.to,
         \A p \in queue' : \E o \in queue : p.head = o.head /\ p.to = o.to
  PROVE  Held' = Held
<1>1. ASSUME NEW e PROVE e \in Held' <=> e \in Held
  <2>1. \A p \in queue' : Entries(p.head, p.to)' = Entries(p.head, p.to)
    BY EntriesSame DEF Typed, OpType
  <2>2. e \in Held' <=> \E p \in queue' : e \in Entries(p.head, p.to)
    BY <2>1, HeldIs, Zenon
  <2>3. ASSUME NEW p \in queue', e \in Entries(p.head, p.to) PROVE e \in Held
    BY <2>3, HeldIs
  <2>4. ASSUME NEW o \in queue, e \in Entries(o.head, o.to) PROVE e \in Held'
    BY <2>2, <2>4
  <2>5. QED
    BY <2>2, <2>3, <2>4, HeldIs, Zenon
<1>2. QED
  BY <1>1

\* A step of the channel, or none.
ChannelStep ==
  \/ Pipe \subseteq Pipe' /\ Held' = Held /\ MainQ' = MainQ
  \/ Pipe' = {} /\ Held' = Held \cup Pipe /\ MainQ' = MainQ
  \/ Held' = {} /\ Pipe' = Pipe /\ MainQ' = MainQ
  \/ \E e \in Held : Held' = Held \ {e} /\ MainQ' = MainQ \cup {e} /\ Pipe' = Pipe
  \/ \E e \in MainQ : MainQ' = MainQ \ {e} /\ Pipe' = Pipe /\ Held' = Held

LEMMA EmitIsStep == ASSUME InTurn, NEW m \in Messages, Emit(m) PROVE ChannelStep
<1>1. text' = text \o m /\ UNCHANGED <<read, queue, posted>>
  BY DEF Emit
<1>2. Len(text) \in Nat /\ Stays(Len(text))
  BY <1>1, TextStays
<1>3. read \in Nat /\ read + 1 \in Nat /\ 1 <= read + 1 /\ read' = read
  BY <1>1 DEF InTurn, Typed, TypeOK
<1>4. Len(text') \in Nat /\ Len(text) <= Len(text')
  <2>1. m \in Seq(STRING) /\ text \in Seq(STRING)
    BY LogAssumption DEF InTurn, Typed
  <2>2. QED
    BY <1>1, <2>1
<1>5. ASSUME NEW e \in Pipe PROVE e \in Pipe'
  <2>1. PICK l \in (read + 1 .. Len(text)) \X (read + 1 .. Len(text)) : Holds(e, l)
    BY <1>2, <1>3, EntriesAre DEF Pipe
  <2>2. Holds(e, l)'
    BY <1>2, <1>3, <2>1, LineStays
  <2>3. l \in (read' + 1 .. Len(text')) \X (read' + 1 .. Len(text'))
    BY <1>2, <1>3, <1>4
  <2>4. QED
    BY <2>2, <2>3, PipeNextIs
<1>6. Held' = Held
  <2>1. ASSUME NEW op \in queue PROVE Entries(op.head, op.to)' = Entries(op.head, op.to)
    <3>1. op.head \in Nat /\ op.to \in Nat /\ 1 <= op.head /\ op.to <= Len(text)
      BY OpTyped DEF InTurn
    <3>2. Stays(op.to)
      BY <1>2, <3>1 DEF Stays
    <3>3. QED
      BY <3>1, <3>2, EntriesStay
  <2>2. \A e : e \in Held' <=> e \in Held
    BY <1>1, <2>1, HeldIs, Zenon
  <2>3. QED
    BY <2>2
<1>7. MainQ' = MainQ
  BY <1>1 DEF MainQ
<1>8. Pipe \subseteq Pipe'
  BY <1>5
<1>9. QED
  BY <1>6, <1>7, <1>8 DEF ChannelStep

LEMMA ReadIsStep == ASSUME InTurn, InTurn', Read PROVE ChannelStep
<1> DEFINE new == [from |-> read + 1, to |-> Len(text), head |-> read + 1, step |-> "ready"]
<1>1. text' = text /\ posted' = posted /\ read' = Len(text) /\ queue' = queue \cup {new}
  BY DEF Read
<1>2. Len(text) \in Nat
  BY DEF InTurn, Typed
<1>3. Pipe' = {}
  <2>1. ASSUME NEW e PROVE e \notin Pipe'
    <3>1. read' + 1 .. Len(text') = {}
      BY <1>1, <1>2
    <3>2. QED
      BY <3>1, PipeNextIs
  <2>2. QED
    BY <2>1
<1>4. ASSUME NEW e PROVE e \in Held' <=> e \in Held \/ e \in Pipe
  <2>1. \A o \in queue' : Entries(o.head, o.to)' = Entries(o.head, o.to)
    BY <1>1, EntriesSame DEF InTurn, Typed, OpType
  <2>2. e \in Held' <=> \E o \in queue' : e \in Entries(o.head, o.to)
    BY <2>1, HeldIs, Zenon
  <2>3. new.head = read + 1 /\ new.to = Len(text)
    OBVIOUS
  <2>4. QED
    <3> HIDE DEF new
    <3>1. e \in Pipe <=> e \in Entries(new.head, new.to)
      BY <2>3, Zenon DEF Pipe
    <3>2. (\E o \in queue' : e \in Entries(o.head, o.to)) <=>
            (\E o \in queue : e \in Entries(o.head, o.to)) \/ e \in Entries(new.head, new.to)
      BY <1>1, Zenon
    <3>3. QED
      BY <2>2, <3>1, <3>2, HeldIs, Zenon
<1>5. Held' = Held \cup Pipe
  BY <1>4
<1>6. MainQ' = MainQ
  BY <1>1 DEF MainQ
<1>7. QED
  BY <1>3, <1>5, <1>6 DEF ChannelStep

LEMMA RangeIs ==
  ASSUME NEW S, NEW s \in Seq(S), NEW x
  PROVE  x \in Range(s) <=> \E i \in 1 .. Len(s) : x = s[i]
<1>1. DOMAIN s = 1 .. Len(s)
  OBVIOUS
<1>2. QED
  BY <1>1, Zenon DEF Range

\* The first of a sequence without repetition is taken from it.
LEMMA TailRange ==
  ASSUME NEW S, NEW s \in Seq(S), s # <<>>, \A i \in 2 .. Len(s) : s[i] # s[1]
  PROVE  Head(s) \in Range(s) /\ Range(Tail(s)) = Range(s) \ {Head(s)}
<1>1. /\ Len(s) \in Nat /\ 1 <= Len(s) /\ Head(s) = s[1]
      /\ Tail(s) \in Seq(S) /\ Len(Tail(s)) = Len(s) - 1
      /\ \A i \in 1 .. Len(Tail(s)) : Tail(s)[i] = s[i + 1]
  BY HeadTailProperties
<1>2. Head(s) \in Range(s)
  <2>1. 1 \in 1 .. Len(s)
    BY <1>1
  <2>2. QED
    BY <1>1, <2>1, RangeIs
<1>3. ASSUME NEW x \in Range(Tail(s)) PROVE x \in Range(s) /\ x # Head(s)
  <2>0. \E i \in 1 .. Len(Tail(s)) : x = Tail(s)[i]
    <3>1. PICK t \in Seq(S) : t = Tail(s)
      BY <1>1
    <3>2. x \in Range(t)
      BY <3>1
    <3>3. \E i \in 1 .. Len(t) : x = t[i]
      BY <3>2, RangeIs
    <3>4. QED
      BY <3>1, <3>3
  <2>1. PICK i \in 1 .. Len(Tail(s)) : x = Tail(s)[i]
    BY <2>0
  <2>2. i + 1 \in 2 .. Len(s) /\ i + 1 \in 1 .. Len(s) /\ x = s[i + 1]
    BY <1>1, <2>1
  <2>3. QED
    BY <1>1, <2>2, RangeIs
<1>4. ASSUME NEW x \in Range(s), x # Head(s) PROVE x \in Range(Tail(s))
  <2>1. PICK i \in 1 .. Len(s) : x = s[i]
    BY RangeIs
  <2>2. i # 1
    BY <1>1, <1>4, <2>1
  <2>3. i - 1 \in 1 .. Len(Tail(s)) /\ (i - 1) + 1 = i
    BY <1>1, <2>2
  <2>4. Tail(s)[i - 1] = s[i]
    BY <1>1, <2>3
  <2>5. QED
    BY <1>1, <2>1, <2>3, <2>4, RangeIs
<1>5. QED
  BY <1>2, <1>3, <1>4

LEMMA AppendRange ==
  ASSUME NEW S, NEW s \in Seq(S), NEW e \in S
  PROVE  Range(Append(s, e)) = Range(s) \cup {e}
<1>1. /\ Append(s, e) \in Seq(S) /\ Len(Append(s, e)) = Len(s) + 1 /\ Len(s) \in Nat
      /\ \A i \in 1 .. Len(s) : Append(s, e)[i] = s[i]
      /\ Append(s, e)[Len(s) + 1] = e
  OBVIOUS
<1>2. ASSUME NEW x PROVE x \in Range(Append(s, e)) <=> x \in Range(s) \/ x = e
  <2>1. x \in Range(Append(s, e)) <=> \E i \in 1 .. Len(s) + 1 : x = Append(s, e)[i]
    <3>1. x \in Range(Append(s, e)) <=> \E i \in 1 .. Len(Append(s, e)) : x = Append(s, e)[i]
      <4>1. PICK t \in Seq(S) : t = Append(s, e)
        BY <1>1
      <4>2. x \in Range(t) <=> \E i \in 1 .. Len(t) : x = t[i]
        BY RangeIs
      <4>3. QED
        BY <4>1, <4>2, Zenon
    <3>2. QED
      BY <1>1, <3>1, Zenon
  <2>2. x \in Range(s) <=> \E i \in 1 .. Len(s) : x = s[i]
    BY RangeIs, Zenon
  <2>3. QED
    BY <1>1, <2>1, <2>2
<1>3. QED
  BY <1>2

LEMMA DeliverIsStep == ASSUME InTurn, InTurn', Deliver PROVE ChannelStep
<1>1. UNCHANGED <<text, read, queue>> /\ posted # <<>> /\ posted' = Tail(posted)
  BY DEF Deliver
<1>2. delivered \in Seq(EntryType) /\ posted \in Seq(EntryType)
  BY DEF InTurn, Typed
<1>3. ASSUME NEW i \in 2 .. Len(posted) PROVE posted[i] # posted[1]
  <2>1. Len(delivered) \in Nat /\ Len(posted) \in Nat /\ Len(Out) = Len(delivered) + Len(posted)
    BY <1>2 DEF Out
  <2>2. Out[Len(delivered) + 1] = posted[1] /\ Out[Len(delivered) + i] = posted[i]
    BY <1>2, <2>1 DEF Out
  <2>3. /\ Len(delivered) + 1 \in 1 .. Len(Out) /\ Len(delivered) + i \in 1 .. Len(Out)
        /\ Len(delivered) + 1 < Len(delivered) + i
    BY <2>1
  <2>4. Out[Len(delivered) + 1].at # Out[Len(delivered) + i].at
    BY <2>3 DEF InTurn, Once
  <2>5. QED
    BY <2>2, <2>4
<1>4. Head(posted) \in MainQ /\ MainQ' = MainQ \ {Head(posted)}
  BY <1>1, <1>2, <1>3, TailRange DEF MainQ
<1>5. Pipe' = Pipe
  BY <1>1, PipeSame DEF InTurn
<1>6. Held' = Held
  BY <1>1, HeldSame DEF InTurn
<1>7. QED
  BY <1>4, <1>5, <1>6 DEF ChannelStep

\* What a step leaves alone.
ChannelSame == Pipe' = Pipe /\ Held' = Held /\ MainQ' = MainQ

LEMMA StopIsStep == ASSUME InTurn, InTurn', Stop \/ StopReturns \/ UNCHANGED vars PROVE ChannelStep \/ ChannelSame
<1>1. UNCHANGED <<text, read, posted>> /\ (queue' = queue \/ queue' = {})
  BY DEF Stop, StopReturns, vars
<1>2. Pipe' = Pipe /\ MainQ' = MainQ
  BY <1>1, PipeSame DEF InTurn, MainQ
<1>3. CASE queue' = queue
  <2>1. Held' = Held
    BY <1>1, <1>3, HeldSame DEF InTurn
  <2>2. QED
    BY <1>2, <2>1 DEF ChannelSame
<1>4. CASE queue' = {}
  <2>1. Held' = {}
    BY <1>4 DEF Held
  <2>2. QED
    BY <1>2, <2>1 DEF ChannelStep
<1>5. QED
  BY <1>1, <1>3, <1>4

LEMMA WorkIsStep ==
  ASSUME InTurn, InTurn', NEW op \in queue, Finish(op) \/ Begin(op)
  PROVE  ChannelSame
<1>1. UNCHANGED <<text, read, posted>>
  BY DEF Finish, Begin
<1>2. Pipe' = Pipe /\ MainQ' = MainQ
  BY <1>1, PipeSame DEF InTurn, MainQ
<1>3. op \in OpType /\ op.head \in Nat /\ op.to \in Nat
  BY OpTyped DEF InTurn
<1>4. \/ queue' = queue \ {op} /\ ~(op.head <= op.to)
      \/ \E s \in {"ready", "parsing", "done"} : queue' = (queue \ {op}) \cup {[op EXCEPT !.step = s]}
  <2>1. CASE Finish(op)
    BY <2>1 DEF Finish, Become, More
  <2>2. CASE Begin(op)
    BY <2>2 DEF Begin, Become
  <2>3. QED
    BY <2>1, <2>2
<1>5. CASE queue' = queue \ {op} /\ ~(op.head <= op.to)
  <2>1. ASSUME NEW e, e \in Entries(op.head, op.to) PROVE FALSE
    <3>1. op.head <= e.at /\ e.at <= op.to /\ e.at \in Nat
      BY <1>3, <2>1, HeldAt
    <3>2. QED
      BY <1>3, <1>5, <3>1
  <2>2. Held' = Held
    BY <1>1, <1>5, <2>1, HeldSame DEF InTurn
  <2>3. QED
    BY <1>2, <2>2 DEF ChannelSame
<1>6. ASSUME NEW s \in {"ready", "parsing", "done"}, queue' = (queue \ {op}) \cup {[op EXCEPT !.step = s]}
      PROVE  ChannelSame
  <2> DEFINE new == [op EXCEPT !.step = s]
  <2>1. new.head = op.head /\ new.to = op.to /\ queue' = (queue \ {op}) \cup {new}
    BY <1>3, <1>6, StepChanged
  <2> HIDE DEF new
  <2>2. /\ \A o \in queue : \E p \in queue' : p.head = o.head /\ p.to = o.to
        /\ \A p \in queue' : \E o \in queue : p.head = o.head /\ p.to = o.to
    BY <2>1
  <2>3. Held' = Held
    BY <1>1, <2>2, HeldSame DEF InTurn
  <2>4. QED
    BY <1>2, <2>3 DEF ChannelSame
<1>7. QED
  BY <1>4, <1>5, <1>6

\* No other operation, and no later part of this one, holds what a turn posts.
LEMMA HeldOnce ==
  ASSUME InTurn, Lined, NEW op \in queue, NEW e, e.at = op.head, op.head <= op.to
  PROVE  /\ \A o \in queue : o # op => e \notin Entries(o.head, o.to)
         /\ e \notin Entries(Ret(op) + 1, op.to)
<1>1. /\ op.head \in Nat /\ op.to \in Nat /\ op.from \in Nat /\ op.from <= op.head
      /\ Ret(op) \in Nat /\ op.head <= Ret(op) + 1
  BY OpTyped, TurnIs DEF InTurn
<1>2. ASSUME NEW o \in queue, o # op, e \in Entries(o.head, o.to) PROVE FALSE
  <2>1. o.head \in Nat /\ o.to \in Nat /\ o.from \in Nat /\ o.from <= o.head
    BY OpTyped DEF InTurn
  <2>2. o.head <= op.head /\ op.head <= o.to
    BY <1>2, <2>1, HeldAt
  <2>3. o.to < op.from \/ op.to < o.from
    BY <1>2 DEF InTurn, Apart
  <2>4. QED
    BY <1>1, <2>1, <2>2, <2>3
<1>3. ASSUME e \in Entries(Ret(op) + 1, op.to) PROVE FALSE
  <2>1. Ret(op) + 1 <= op.head
    BY <1>1, <1>3, HeldAt
  <2>2. Ret(op) = LineEnd(op.head, op.to) /\ op.head <= LineEnd(op.head, op.to)
    BY <1>1, RetEndsLine, LineEndIs DEF InTurn, IsEnd
  <2>3. QED
    BY <1>1, <2>1, <2>2
<1>4. QED
  BY <1>2, <1>3

LEMMA ParseIsStep ==
  ASSUME InTurn, InTurn', Lined, NEW op \in queue, Parse(op)
  PROVE  ChannelStep \/ ChannelSame
<1> DEFINE e == Entry(op.head, Split(op), Ret(op))
           new == [op EXCEPT !.head = Ret(op) + 1, !.step = "ready"]
<1>1. /\ IF Posts(op) THEN posted' = Append(posted, e) ELSE posted' = posted
      /\ queue' = (queue \ {op}) \cup {new}
      /\ UNCHANGED <<text, read>>
  BY ParseIs DEF InTurn
<1>2. /\ op \in OpType /\ op.head \in Nat /\ op.to \in Nat
      /\ Ret(op) \in Nat /\ Ret(op) + 1 \in Nat
  BY OpTyped, TurnIs DEF InTurn
<1>3. new.head = Ret(op) + 1 /\ new.to = op.to
  BY <1>2, StepChanged
<1>4. Pipe' = Pipe
  BY <1>1, PipeSame DEF InTurn
<1> HIDE DEF new
<1>5. ASSUME NEW x
      PROVE  /\ x \in Held' <=> \/ \E o \in queue \ {op} : x \in Entries(o.head, o.to)
                                \/ x \in Entries(Ret(op) + 1, op.to)
             /\ x \in Held <=> \/ \E o \in queue \ {op} : x \in Entries(o.head, o.to)
                               \/ Posts(op) /\ x = e
                               \/ x \in Entries(Ret(op) + 1, op.to)
  <2>1. \A o \in queue' : Entries(o.head, o.to)' = Entries(o.head, o.to)
    BY <1>1, EntriesSame DEF InTurn, Typed, OpType
  <2>2. x \in Held' <=> \E o \in queue' : x \in Entries(o.head, o.to)
    BY <2>1, HeldIs, Zenon
  <2>3. x \in Entries(new.head, new.to) <=> x \in Entries(Ret(op) + 1, op.to)
    BY <1>3, Zenon
  <2>4. x \in Entries(op.head, op.to) <=> (Posts(op) /\ x = e) \/ x \in Entries(Ret(op) + 1, op.to)
    BY TurnTakes DEF InTurn
  <2>5. x \in Held <=> \E o \in queue : x \in Entries(o.head, o.to)
    BY HeldIs
  <2>6. x \in Held <=> \/ \E o \in queue \ {op} : x \in Entries(o.head, o.to)
                       \/ x \in Entries(op.head, op.to)
    BY <2>5, Zenon
  <2>7. x \in Held' <=> \/ \E o \in queue \ {op} : x \in Entries(o.head, o.to)
                        \/ x \in Entries(new.head, new.to)
    BY <1>1, <2>2, Zenon
  <2>8. QED
    <3> HIDE DEF e
    <3>1. QED
      BY <2>3, <2>4, <2>6, <2>7, Zenon
<1>6. CASE ~Posts(op)
  <2>1. MainQ' = MainQ
    BY <1>1, <1>6 DEF MainQ
  <2>2. \A x : x \in Held' <=> x \in Held
    BY <1>5, <1>6, Zenon
  <2>3. Held' = Held
    BY <2>2
  <2>4. QED
    BY <1>4, <2>1, <2>3 DEF ChannelSame
<1>7. CASE Posts(op)
  <2>1. posted' = Append(posted, e) /\ Valid(op) /\ ~(Split(op) + 1 > Ret(op))
    BY <1>1, <1>7 DEF Posts
  <2>2. e \in EntryType /\ e.at = op.head /\ op.head <= op.to
    BY <2>1, EntryTyped DEF InTurn
  <2> HIDE DEF e
  <2>3. MainQ' = MainQ \cup {e}
    BY <2>1, <2>2, AppendRange DEF MainQ, InTurn, Typed
  <2>4. e \in Held
    BY <1>5, <1>7
  <2>5. e \notin Held'
    <3>1. /\ \A o \in queue : o # op => e \notin Entries(o.head, o.to)
          /\ e \notin Entries(Ret(op) + 1, op.to)
      BY <2>2, HeldOnce
    <3>2. QED
      BY <1>5, <3>1
  <2>6. \A x : x \in Held' <=> x \in Held /\ x # e
    BY <1>5, <2>5, Zenon
  <2>7. Held' = Held \ {e}
    BY <2>6
  <2>8. QED
    BY <1>4, <2>3, <2>4, <2>7 DEF ChannelStep
<1>8. QED
  BY <1>6, <1>7

LEMMA NextIsStep ==
  ASSUME InTurn, InTurn', Lined, [Next]_vars
  PROVE  [Channel!Next]_<<Pipe, Held, MainQ>>
<1>1. ASSUME NEW m \in Messages, Emit(m) PROVE ChannelStep
  BY <1>1, EmitIsStep
<1>2. ASSUME Read PROVE ChannelStep
  BY <1>2, ReadIsStep
<1>3. ASSUME Deliver PROVE ChannelStep
  BY <1>3, DeliverIsStep
<1>4. ASSUME Stop \/ StopReturns \/ UNCHANGED vars PROVE ChannelStep \/ ChannelSame
  BY <1>4, StopIsStep
<1>5. ASSUME NEW op \in queue, Finish(op) \/ Begin(op) PROVE ChannelSame
  BY <1>5, WorkIsStep
<1>6. ASSUME NEW op \in queue, Parse(op) PROVE ChannelStep \/ ChannelSame
  BY <1>6, ParseIsStep
<1>7. ChannelStep \/ ChannelSame
  BY <1>1, <1>2, <1>3, <1>4, <1>5, <1>6, Zenon DEF Next, MainStep, WorkerStep
<1>8. CASE ChannelSame
  BY <1>8 DEF ChannelSame
<1>9. CASE ChannelStep
  BY <1>9, Zenon DEF ChannelStep, Channel!Next, Channel!Emit, Channel!Read, Channel!Analyze,
                     Channel!Stop, Channel!Deliver, Pipe, Held, MainQ
<1>10. QED
  BY <1>7, <1>8, <1>9

\* Where every message ends a line, the analyzer keeps the promise of LogChannel:
\* every entry that is printed is read once, parsed once and posted once, or
\* dropped by a stop() before it was posted; none is made up, split or repeated.
THEOREM ChannelImplemented ==
  ASSUME WholeLines
  PROVE  Spec => ChannelSpec
<1>1. Init => Lined
  BY DEF Init, Lined
<1>2. InTurn /\ Lined /\ [Next]_vars => Lined'
  BY LinedNext
<1>3. Init => Channel!Init
  <2> SUFFICES ASSUME Init PROVE Channel!Init
    OBVIOUS
  <2>1. read + 1 = 1 /\ Len(text) = 0 /\ queue = {} /\ posted = <<>>
    BY DEF Init
  <2>2. Pipe = {}
    <3>1. ASSUME NEW e \in Entries(1, 0) PROVE FALSE
      BY HeldAt
    <3>2. QED
      BY <2>1, <3>1 DEF Pipe
  <2>3. Held = {}
    BY <2>1 DEF Held
  <2>4. MainQ = {}
    BY <2>1 DEF MainQ, Range
  <2>5. QED
    BY <2>2, <2>3, <2>4, Zenon DEF Channel!Init, Pipe, Held, MainQ
<1>4. InTurn /\ InTurn' /\ Lined /\ [Next]_vars => [Channel!Next]_<<Pipe, Held, MainQ>>
  BY NextIsStep
<1>5. QED
  BY <1>1, <1>2, <1>3, <1>4, InTurnInvariant, PTL
     DEF Spec, ChannelSpec, Channel!Spec, Pipe, Held, MainQ

LEMMA ParseHolds ==
  ASSUME InTurn, Lined, NEW op \in queue, Parse(op)
  PROVE  ~trapped'
<1>1. trapped' = (Valid(op) /\ Split(op) + 1 > Ret(op))
  BY ParseIs DEF InTurn
<1>2. /\ op.head \in Nat /\ op.to \in Nat /\ None \in Nat
      /\ Split(op) \in Nat /\ Ret(op) \in Nat
      /\ Split(op) # None => op.head <= Split(op) /\ Split(op) <= op.to
  BY OpTyped, TurnIs DEF InTurn, None
<1>3. IsLast(Split(op), op.head, LineEnd(op.head, op.to) - 1, None)
  BY <1>2, LastBeforeIs DEF Split
<1>4. ASSUME Split(op) # None PROVE Split(op) <= Ret(op) - 1
  <2>1. op.head <= op.to
    BY <1>2, <1>4
  <2>2. Ret(op) = LineEnd(op.head, op.to)
    BY <2>1, RetEndsLine DEF InTurn
  <2>3. QED
    BY <1>2, <1>3, <1>4, <2>2 DEF IsLast
<1>5. ~(Valid(op) /\ Split(op) + 1 > Ret(op))
  <2>1. Split(op) # None => ~(Split(op) + 1 > Ret(op))
    BY <1>2, <1>4
  <2>2. QED
    BY <2>1 DEF Valid
<1>6. QED
  BY <1>1, <1>5, Zenon

\* The range of a value is a range where every message ends a line: the trap needs
\* data that ends with a separator.
THEOREM WholeLinesNeverTrap ==
  ASSUME WholeLines
  PROVE  Spec => []NotTrapped
<1>1. Init => Lined /\ NotTrapped
  BY DEF Init, Lined, NotTrapped
<1>2. InTurn /\ Lined /\ [Next]_vars => Lined'
  BY LinedNext
<1>3. ASSUME InTurn, Lined, NotTrapped, [Next]_vars PROVE NotTrapped'
  <2>1. ASSUME NEW op \in queue, Parse(op) PROVE NotTrapped'
    BY <1>3, <2>1, ParseHolds DEF NotTrapped
  <2>2. ASSUME trapped' = trapped PROVE NotTrapped'
    BY <1>3, <2>2 DEF NotTrapped
  <2>3. ASSUME NEW m \in Messages, Emit(m) PROVE trapped' = trapped
    BY <2>3 DEF Emit
  <2>4. ASSUME MainStep \/ UNCHANGED vars PROVE trapped' = trapped
    BY <2>4 DEF MainStep, Read, Deliver, Stop, StopReturns, vars
  <2>5. ASSUME NEW op \in queue, Finish(op) \/ Begin(op) PROVE trapped' = trapped
    BY <2>5 DEF Finish, Begin
  <2>6. QED
    BY <1>3, <2>1, <2>2, <2>3, <2>4, <2>5, Zenon DEF Next, WorkerStep
<1>4. QED
  BY <1>1, <1>2, <1>3, InTurnInvariant, PTL DEF Spec
=============================================================================
