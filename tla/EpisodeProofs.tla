--------------------------- MODULE EpisodeProofs ---------------------------
(***************************************************************************)
(* Theorems about EpisodeSearch, for any base, any largest Int and any     *)
(* names: what the numerals are, that "next" never comes back, and that    *)
(* series and seasons are gone through in their order.                     *)
(***************************************************************************)
EXTENDS EpisodeSearch, TLAPS, WellFoundedInduction, SequenceTheorems

-----------------------------------------------------------------------------
(* Induction and recursion, with sets and functions as data                *)

LEMMA LeastExists ==
  ASSUME NEW T \in SUBSET Nat, T # {}
  PROVE  \E x \in T : \A y \in T : x <= y
<1>1. PICK x \in T : \A y \in T : ~(<<y, x>> \in OpToRel(<, Nat))
  BY NatLessThanWellFounded, WFMin, Zenon
<1>2. \A y \in T : ~(y < x)
  BY <1>1 DEF OpToRel
<1>3. QED
  BY <1>2

LEMMA Complete ==
  ASSUME NEW S, \A k \in Nat : (\A j \in Nat : j < k => j \in S) => k \in S
  PROVE  \A k \in Nat : k \in S
<1> DEFINE T == Nat \ S
<1>1. ASSUME T # {} PROVE FALSE
  <2>1. PICK k \in T : \A j \in T : k <= j
    BY <1>1, LeastExists
  <2>2. \A j \in Nat : j < k => j \in S
    BY <2>1
  <2>3. QED
    BY <2>1, <2>2
<1>2. QED
  BY <1>1

LEMMA Induct ==
  ASSUME NEW S, 0 \in S, \A k \in Nat : k \in S => k + 1 \in S
  PROVE  \A k \in Nat : k \in S
<1>1. ASSUME NEW k \in Nat, \A j \in Nat : j < k => j \in S PROVE k \in S
  <2>1. CASE k = 0
    BY <2>1
  <2>2. CASE k > 0
    <3>1. k - 1 \in Nat /\ k - 1 < k /\ (k - 1) + 1 = k
      BY <2>2
    <3>2. QED
      BY <1>1, <3>1
  <2>3. QED
    BY <2>1, <2>2
<1>2. QED
  BY <1>1, Complete

\* A function on 0..n by its values for the numbers in first, and of the others by
\* its value for a smaller one.
Unrolls(n, Z, first, b, p, h) ==
  \E f \in [0..n -> Z] : \A k \in 0..n : f[k] = IF k \in first THEN b[k] ELSE h[<<k, f[p[k]]>>]

LEMMA Recursion ==
  ASSUME NEW n \in Nat, NEW Z, NEW first, NEW b \in [0..n -> Z],
         NEW p \in [0..n -> Nat], NEW h \in [(0..n) \X Z -> Z],
         \A k \in 0..n : k \notin first => p[k] < k
  PROVE  Unrolls(n, Z, first, b, p, h)
<1> DEFINE Upto(m, f) == \A k \in 0..m : f[k] = IF k \in first THEN b[k] ELSE h[<<k, f[p[k]]>>]
           S == {m \in Nat : m <= n => \E f \in [0..m -> Z] : Upto(m, f)}
<1>1. 0 \in S
  <2> DEFINE f == [k \in 0..0 |-> b[0]]
  <2>1. 0 \in first /\ b[0] \in Z
    OBVIOUS
  <2>2. f \in [0..0 -> Z] /\ Upto(0, f)
    BY <2>1
  <2>3. QED
    BY <2>2
<1>2. ASSUME NEW m \in Nat, m \in S PROVE m + 1 \in S
  <2> SUFFICES ASSUME m + 1 <= n PROVE \E f \in [0..(m + 1) -> Z] : Upto(m + 1, f)
    OBVIOUS
  <2>0. m <= n
    OBVIOUS
  <2>1. PICK g \in [0..m -> Z] : Upto(m, g)
    <3> HIDE DEF Upto
    <3>1. QED
      BY <1>2, <2>0, Zenon
  <2> DEFINE z == IF m + 1 \in first THEN b[m + 1] ELSE h[<<m + 1, g[p[m + 1]]>>]
             f == [k \in 0..(m + 1) |-> IF k = m + 1 THEN z ELSE g[k]]
  <2>2. m + 1 \in 0..n /\ (m + 1 \notin first => p[m + 1] \in 0..m)
    OBVIOUS
  <2>3. z \in Z
    <3>1. CASE m + 1 \in first
      BY <2>2, <3>1
    <3>2. CASE m + 1 \notin first
      <4>1. g[p[m + 1]] \in Z
        BY <2>2, <3>2
      <4>2. QED
        BY <2>2, <3>2, <4>1
    <3>3. QED
      BY <3>1, <3>2
  <2>4. f \in [0..(m + 1) -> Z]
    BY <2>3
  <2>5. ASSUME NEW k \in 0..(m + 1)
        PROVE  f[k] = IF k \in first THEN b[k] ELSE h[<<k, f[p[k]]>>]
    <3>1. k \in 0..n /\ (k \notin first => p[k] \in 0..m)
      OBVIOUS
    <3>2. k \notin first => f[p[k]] = g[p[k]]
      BY <3>1
    <3>3. CASE k = m + 1
      BY <3>2, <3>3
    <3>4. CASE k \in 0..m
      <4>1. f[k] = g[k]
        BY <3>4
      <4>2. g[k] = IF k \in first THEN b[k] ELSE h[<<k, g[p[k]]>>]
        BY <2>1, <3>4
      <4>3. QED
        BY <3>2, <4>1, <4>2
    <3>5. QED
      BY <3>3, <3>4
  <2>6. QED
    BY <2>4, <2>5
<1>3. n \in S
  <2> HIDE DEF S
  <2>1. QED
    BY <1>1, <1>2, Induct
<1>4. n <= n => \E f \in [0..n -> Z] : Upto(n, f)
  BY <1>3, Zenon
<1>5. n <= n
  OBVIOUS
<1>6. QED
  BY <1>4, <1>5, Zenon DEF Unrolls

LEMMA SeqInduct ==
  ASSUME NEW A, NEW S, <<>> \in S, \A s \in Seq(A) : \A c \in A : s \in S => Append(s, c) \in S
  PROVE  \A s \in Seq(A) : s \in S
<1> DEFINE T == {n \in Nat : \A s \in Seq(A) : Len(s) = n => s \in S}
<1>1. 0 \in T
  BY EmptySeq
<1>2. ASSUME NEW n \in Nat, n \in T PROVE n + 1 \in T
  <2> SUFFICES ASSUME NEW s \in Seq(A), Len(s) = n + 1 PROVE s \in S
    OBVIOUS
  <2>1. s # <<>>
    BY EmptySeq
  <2>2. PICK t \in Seq(A), c \in A : s = Append(t, c)
    BY <2>1, SequenceEmptyOrAppend
  <2>3. Len(t) = n
    <3>1. Len(s) = Len(t) + 1 /\ Len(t) \in Nat
      BY <2>2, AppendProperties, LenProperties, Zenon
    <3>2. QED
      BY <3>1
  <2>4. QED
    BY <1>2, <2>2, <2>3
<1>3. \A n \in Nat : n \in T
  <2> HIDE DEF T
  <2>1. QED
    BY <1>1, <1>2, Induct
<1>4. QED
  BY <1>3, LenProperties

-----------------------------------------------------------------------------
(* Numerals                                                                *)

LEMMA Bases == Base \in Nat /\ Base >= 2 /\ MaxInt \in Nat
BY SearchAssumption

LEMMA ProductGrows ==
  ASSUME NEW k \in Nat
  PROVE  k * Base >= k /\ k * Base \in Nat
BY Bases, SMTT(30)

\* Division by the base.
LEMMA Divided ==
  ASSUME NEW k \in Nat
  PROVE  /\ k \div Base \in Nat /\ k % Base \in 0..(Base - 1)
         /\ k = (k \div Base) * Base + (k % Base)
         /\ k < Base => k \div Base = 0 /\ k % Base = k
         /\ k >= Base => k \div Base >= 1 /\ k \div Base < k
BY Bases, SMTT(30)

LEMMA DivLess ==
  ASSUME NEW k \in Nat
  PROVE  k \div Base \in Nat /\ (~(k < Base) => k \div Base < k)
<1>1. k \div Base \in Nat /\ (k >= Base => k \div Base < k)
  BY Divided, Zenon
<1>2. ~(k < Base) => k >= Base
  BY Bases
<1>3. QED
  BY <1>1, <1>2, Zenon

LEMMA DividedOnce ==
  ASSUME NEW a \in Nat, NEW c \in 0..(Base - 1)
  PROVE  (a * Base + c) \div Base = a /\ (a * Base + c) % Base = c
BY Bases, SMTT(30)

\* One turn of the loop of Value, with v for what was found before.
Valued(digits, v) == [k \in 0..Len(digits) |-> IF k = 0 THEN 0 ELSE v[k - 1] * Base + digits[k]]

LEMMA ValueTurns ==
  ASSUME NEW s \in Seq(Nat)
  PROVE  \E v \in [0..Len(s) -> Nat] :
           /\ v[0] = 0 /\ \A k \in 1..Len(s) : v[k] = v[k - 1] * Base + s[k]
           /\ Value(s) = v[Len(s)]
<1> DEFINE n == Len(s)
           b == [k \in 0..n |-> 0]
           p == [k \in 0..n |-> IF k = 0 THEN 0 ELSE k - 1]
           h == [x \in (0..n) \X Nat |-> IF x[1] = 0 THEN 0 ELSE x[2] * Base + s[x[1]]]
           v == CHOOSE f : f = Valued(s, f)
           first == {0}
<1>1. n \in Nat /\ b \in [0..n -> Nat] /\ p \in [0..n -> Nat] /\ \A k \in 0..n : k \notin first => p[k] < k
  OBVIOUS
<1>2. h \in [(0..n) \X Nat -> Nat]
  <2>1. ASSUME NEW x \in (0..n) \X Nat PROVE (IF x[1] = 0 THEN 0 ELSE x[2] * Base + s[x[1]]) \in Nat
    <3>1. x[1] \in 0..n /\ x[2] \in Nat
      OBVIOUS
    <3>2. x[1] # 0 => s[x[1]] \in Nat
      BY <3>1
    <3>3. x[2] * Base \in Nat
      BY <3>1, Bases
    <3>4. QED
      BY <3>2, <3>3
  <2>2. QED
    BY <2>1
<1>3. PICK f \in [0..n -> Nat] : \A k \in 0..n : f[k] = IF k \in first THEN b[k] ELSE h[<<k, f[p[k]]>>]
  <2> HIDE DEF n, b, p, h, first
  <2>1. Unrolls(n, Nat, first, b, p, h)
    BY <1>1, <1>2, Recursion, Zenon
  <2>2. QED
    BY <2>1, Zenon DEF Unrolls
<1>4. ASSUME NEW k \in 0..n PROVE f[k] = IF k = 0 THEN 0 ELSE f[k - 1] * Base + s[k]
  <2>1. CASE k = 0
    BY <1>3, <2>1
  <2>2. CASE k # 0
    <3>1. k \notin first /\ p[k] = k - 1 /\ k - 1 \in 0..n
      BY <2>2
    <3>2. f[k] = h[<<k, f[k - 1]>>] /\ f[k - 1] \in Nat
      <4> HIDE DEF h, b, p, first
      <4>1. QED
        BY <1>3, <3>1
    <3>3. QED
      BY <2>2, <3>2
  <2>3. QED
    BY <2>1, <2>2
<1>5. f = Valued(s, f)
  <2>1. f = [k \in 0..n |-> f[k]]
    OBVIOUS
  <2>2. QED
    BY <1>4, <2>1 DEF Valued
<1>6. v = Valued(s, v)
  BY <1>5, Zenon
<1>7. Value(s) = v[n]
  BY Zenon DEF Value, Valued
<1>8. v[0] = 0 /\ \A k \in 1..n : v[k] = v[k - 1] * Base + s[k]
  <2> HIDE DEF v
  <2>1. 0 \in 0..n /\ 1..n \subseteq 0..n /\ 0 \notin 1..n
    BY <1>1
  <2>2. \A k \in 0..n : v[k] = Valued(s, v)[k]
    BY <1>6, Zenon
  <2>3. \A k \in 0..n : Valued(s, v)[k] = IF k = 0 THEN 0 ELSE v[k - 1] * Base + s[k]
    BY Zenon DEF Valued
  <2>4. QED
    BY <2>1, <2>2, <2>3
<1>9. v \in [0..n -> Nat]
  <2> HIDE DEF v
  <2>1. DOMAIN v = 0..n /\ v = [k \in 0..n |-> v[k]]
    BY <1>6 DEF Valued
  <2> DEFINE S == {k \in Nat : k <= n => v[k] \in Nat}
  <2>3. ASSUME NEW k \in Nat, k \in S PROVE k + 1 \in S
    <3> SUFFICES ASSUME k + 1 <= n PROVE v[k + 1] \in Nat
      OBVIOUS
    <3>1. v[k] \in Nat /\ s[k + 1] \in Nat
      BY <2>3
    <3>2. v[k + 1] = v[k] * Base + s[k + 1]
      <4>1. k + 1 \in 1..n /\ (k + 1) - 1 = k
        OBVIOUS
      <4>2. QED
        BY <1>8, <4>1
    <3>3. v[k] * Base \in Nat
      BY <3>1, Bases
    <3>4. QED
      BY <3>1, <3>2, <3>3
  <2>4. 0 \in S
    BY <1>8
  <2>5. \A k \in Nat : k \in S
    <3> HIDE DEF S
    <3>1. QED
      BY <2>3, <2>4, Induct
  <2>6. QED
    BY <2>1, <2>5
<1>10. QED
  <2> HIDE DEF v
  <2>1. QED
    BY <1>7, <1>8, <1>9

LEMMA ValueType == ASSUME NEW s \in Seq(Nat) PROVE Value(s) \in Nat
BY ValueTurns

LEMMA ValueEmpty == Value(<<>>) = 0
<1>1. <<>> \in Seq(Nat) /\ Len(<<>>) = 0
  OBVIOUS
<1>2. PICK v \in [0..Len(<<>>) -> Nat] : v[0] = 0 /\ Value(<<>>) = v[Len(<<>>)]
  BY <1>1, ValueTurns
<1>3. QED
  BY <1>1, <1>2

\* What one digit more does.
LEMMA ValueAppend ==
  ASSUME NEW s \in Seq(Nat), NEW c \in Nat
  PROVE  Value(Append(s, c)) = Value(s) * Base + c
<1> DEFINE n == Len(s)
<1>1. /\ Append(s, c) \in Seq(Nat) /\ Len(Append(s, c)) = n + 1 /\ Append(s, c)[n + 1] = c
      /\ \A k \in 1..n : Append(s, c)[k] = s[k]
  BY AppendProperties
<1>2. PICK t \in Seq(Nat) :
        /\ t = Append(s, c) /\ n \in Nat /\ Len(t) = n + 1 /\ t[n + 1] = c
        /\ \A k \in 1..n : t[k] = s[k]
  BY <1>1, LenProperties, Zenon
<1>3. PICK v \in [0..n -> Nat] :
        /\ v[0] = 0 /\ \A k \in 1..n : v[k] = v[k - 1] * Base + s[k]
        /\ Value(s) = v[n]
  BY ValueTurns
<1>4. PICK w \in [0..(n + 1) -> Nat] :
        /\ w[0] = 0 /\ \A k \in 1..(n + 1) : w[k] = w[k - 1] * Base + t[k]
        /\ Value(t) = w[n + 1]
  BY <1>2, ValueTurns
<1> DEFINE S == {k \in Nat : k <= n => w[k] = v[k]}
<1>5. 0 \in S
  BY <1>3, <1>4
<1>6. ASSUME NEW k \in Nat, k \in S PROVE k + 1 \in S
  <2> SUFFICES ASSUME k + 1 <= n PROVE w[k + 1] = v[k + 1]
    OBVIOUS
  <2>1. k + 1 \in 1..n /\ (k + 1) - 1 = k /\ w[k] = v[k] /\ t[k + 1] = s[k + 1]
    BY <1>2, <1>6
  <2>2. w[k + 1] = w[k] * Base + t[k + 1] /\ v[k + 1] = v[k] * Base + s[k + 1]
    BY <1>2, <1>3, <1>4, <2>1
  <2>3. QED
    BY <2>1, <2>2, Zenon
<1>7. \A k \in Nat : k \in S
  <2> HIDE DEF S
  <2>1. QED
    BY <1>5, <1>6, Induct
<1>8. w[n] = v[n] /\ w[n + 1] = w[n] * Base + t[n + 1]
  <2>1. n + 1 \in 1..(n + 1) /\ (n + 1) - 1 = n
    BY <1>2
  <2>2. w[n] = v[n]
    <3>1. n \in S
      BY <1>2, <1>7, Zenon
    <3>2. n <= n
      BY <1>2
    <3>3. QED
      BY <3>1, <3>2, Zenon
  <2>3. QED
    BY <1>2, <1>4, <2>1, <2>2
<1>9. QED
  BY <1>2, <1>3, <1>4, <1>8

Digit == 0..(Base - 1)
Numeral == Seq(Digit) \ {<<>>}

LEMMA DigitNat == Digit \subseteq Nat /\ Seq(Digit) \subseteq Seq(Nat) /\ \A c \in Nat : IsDigit(c) <=> c \in Digit
<1>1. Digit \subseteq Nat /\ \A c \in Nat : IsDigit(c) <=> c \in Digit
  BY Bases DEF Digit, IsDigit
<1>2. \A s \in Seq(Digit) : s \in Seq(Nat)
  BY <1>1, SeqMonotonic, Zenon
<1>3. QED
  BY <1>1, <1>2

Digited(n, d) == [k \in 0..n |-> IF k < Base THEN <<k>> ELSE Append(d[k \div Base], k % Base)]

LEMMA DigitsTurns ==
  ASSUME NEW n \in Nat
  PROVE  \E d \in [0..n -> Seq(Digit)] :
           /\ \A k \in 0..n : d[k] = IF k < Base THEN <<k>> ELSE Append(d[k \div Base], k % Base)
           /\ Digits(n) = d[n]
<1> DEFINE Z == Seq(Digit)
           first == {k \in 0..n : k < Base}
           b == [k \in 0..n |-> IF k < Base THEN <<k>> ELSE <<>>]
           p == [k \in 0..n |-> k \div Base]
           h == [x \in (0..n) \X Z |-> Append(x[2], x[1] % Base)]
           v == CHOOSE f : f = Digited(n, f)
<1>1. /\ p \in [0..n -> Nat]
      /\ \A k \in 0..n : k \notin first => p[k] < k
  BY Divided, Bases
<1>2. b \in [0..n -> Z]
  <2>1. ASSUME NEW k \in 0..n PROVE (IF k < Base THEN <<k>> ELSE <<>>) \in Z
    <3>1. k < Base => k \in Digit
      BY Bases DEF Digit
    <3>2. k \in Digit => <<k>> \in Seq(Digit)
      OBVIOUS
    <3>3. QED
      BY <3>1, <3>2
  <2>2. QED
    BY <2>1
<1>3. h \in [(0..n) \X Z -> Z]
  <2>1. ASSUME NEW x \in (0..n) \X Z PROVE Append(x[2], x[1] % Base) \in Z
    <3>1. x[2] \in Seq(Digit) /\ x[1] \in Nat
      OBVIOUS
    <3>2. x[1] % Base \in Digit
      BY <3>1, Divided DEF Digit
    <3>3. QED
      BY <3>1, <3>2, AppendProperties
  <2>2. QED
    BY <2>1
<1>4. PICK f \in [0..n -> Z] : \A k \in 0..n : f[k] = IF k \in first THEN b[k] ELSE h[<<k, f[p[k]]>>]
  <2> HIDE DEF b, p, h, first, Z
  <2>1. Unrolls(n, Z, first, b, p, h)
    BY <1>1, <1>2, <1>3, Recursion, Zenon
  <2>2. QED
    BY <2>1, Zenon DEF Unrolls
<1>5. ASSUME NEW k \in 0..n PROVE f[k] = IF k < Base THEN <<k>> ELSE Append(f[k \div Base], k % Base)
  <2>1. CASE k < Base
    <3>1. k \in first /\ b[k] = <<k>>
      BY <2>1
    <3>2. QED
      BY <1>4, <2>1, <3>1, Zenon
  <2>2. CASE ~(k < Base)
    <3>1. k \notin first /\ p[k] = k \div Base
      BY <2>2
    <3>2. k \div Base \in 0..n
      <4>1. k \in Nat
        OBVIOUS
      <4>2. k \div Base \in Nat /\ k \div Base < k
        BY <2>2, <4>1, DivLess, Zenon
      <4>3. QED
        BY <4>2
    <3>3. f[k \div Base] \in Z
      BY <3>2
    <3>4. f[k] = h[<<k, f[k \div Base]>>]
      BY <1>4, <3>1, Zenon
    <3>5. QED
      BY <2>2, <3>3, <3>4
  <2>3. QED
    BY <2>1, <2>2
<1>6. f = Digited(n, f)
  <2>1. f = [k \in 0..n |-> f[k]]
    OBVIOUS
  <2>2. QED
    BY <1>5, <2>1, Zenon DEF Digited
<1>7. v = Digited(n, v)
  BY <1>6, Zenon
<1>8. Digits(n) = v[n]
  BY Zenon DEF Digits, Digited
<1>9. \A k \in 0..n : v[k] = IF k < Base THEN <<k>> ELSE Append(v[k \div Base], k % Base)
  <2> HIDE DEF v
  <2>1. \A k \in 0..n : v[k] = Digited(n, v)[k]
    BY <1>7, Zenon
  <2>2. QED
    BY <2>1, Zenon DEF Digited
<1>10. v \in [0..n -> Z]
  <2> HIDE DEF v
  <2>1. v = [k \in 0..n |-> v[k]]
    BY <1>7 DEF Digited
  <2> DEFINE S == {k \in Nat : k <= n => v[k] = f[k]}
  <2>2. ASSUME NEW k \in Nat, \A j \in Nat : j < k => j \in S PROVE k \in S
    <3> SUFFICES ASSUME k <= n PROVE v[k] = f[k]
      OBVIOUS
    <3>1. k \in 0..n
      OBVIOUS
    <3>2. ~(k < Base) => v[k \div Base] = f[k \div Base]
      <4>1. k \div Base \in Nat /\ (~(k < Base) => k \div Base < k)
        BY DivLess, Zenon
      <4>2. ~(k < Base) => k \div Base \in S /\ k \div Base <= n
        BY <2>2, <4>1
      <4>3. QED
        BY <4>2, Zenon
    <3>3. QED
      BY <1>5, <1>9, <3>1, <3>2, Zenon
  <2>3. \A k \in Nat : k \in S
    <3> HIDE DEF S
    <3>1. QED
      BY <2>2, Complete
  <2>4. \A k \in 0..n : v[k] = f[k]
    BY <2>3
  <2>5. QED
    BY <2>1, <2>4
<1>11. QED
  <2> HIDE DEF v
  <2>1. QED
    BY <1>8, <1>9, <1>10

LEMMA DigitsType == ASSUME NEW n \in Nat PROVE Digits(n) \in Seq(Digit)
<1>1. PICK d \in [0..n -> Seq(Digit)] : Digits(n) = d[n]
  BY DigitsTurns
<1>2. QED
  BY <1>1

LEMMA DigitsSmall == ASSUME NEW n \in Nat, n < Base PROVE Digits(n) = <<n>>
<1>1. PICK d \in [0..n -> Seq(Digit)] :
        /\ \A k \in 0..n : d[k] = IF k < Base THEN <<k>> ELSE Append(d[k \div Base], k % Base)
        /\ Digits(n) = d[n]
  BY DigitsTurns
<1>2. n \in 0..n
  OBVIOUS
<1>3. QED
  BY <1>1, <1>2, Zenon

LEMMA DigitsLarge ==
  ASSUME NEW n \in Nat, n >= Base
  PROVE  Digits(n) = Append(Digits(n \div Base), n % Base)
<1> DEFINE m == n \div Base
<1>1. m \in Nat /\ m < n /\ n \in 0..n /\ ~(n < Base)
  BY Divided, Bases
<1>2. PICK d \in [0..n -> Seq(Digit)] :
        /\ \A k \in 0..n : d[k] = IF k < Base THEN <<k>> ELSE Append(d[k \div Base], k % Base)
        /\ Digits(n) = d[n]
  BY DigitsTurns
<1>3. PICK e \in [0..m -> Seq(Digit)] :
        /\ \A k \in 0..m : e[k] = IF k < Base THEN <<k>> ELSE Append(e[k \div Base], k % Base)
        /\ Digits(m) = e[m]
  BY <1>1, DigitsTurns, Zenon
<1> HIDE DEF m
<1> DEFINE S == {k \in Nat : k <= m => d[k] = e[k]}
<1>4. ASSUME NEW k \in Nat, \A j \in Nat : j < k => j \in S PROVE k \in S
  <2> SUFFICES ASSUME k <= m PROVE d[k] = e[k]
    OBVIOUS
  <2>1. k \in 0..m /\ k \in 0..n
    BY <1>1
  <2>2. ~(k < Base) => d[k \div Base] = e[k \div Base]
    <3>1. k \div Base \in Nat /\ (~(k < Base) => k \div Base < k)
      BY DivLess, Zenon
    <3>2. ~(k < Base) => k \div Base \in S /\ k \div Base <= m
      BY <1>1, <1>4, <3>1
    <3>3. QED
      BY <3>2, Zenon
  <2>3. QED
    BY <1>2, <1>3, <2>1, <2>2, Zenon
<1>5. \A k \in Nat : k \in S
  <2> HIDE DEF S
  <2>1. QED
    BY <1>4, Complete
<1>6. d[m] = e[m]
  BY <1>1, <1>5
<1>7. d[n] = Append(d[m], n % Base)
  BY <1>1, <1>2, Zenon DEF m
<1>8. QED
  BY <1>2, <1>3, <1>6, <1>7 DEF m

LEMMA AppendIs ==
  ASSUME NEW A, NEW s \in Seq(A), NEW c \in A
  PROVE  /\ Append(s, c) \in Seq(A) /\ Append(s, c) # <<>> /\ Len(s) \in Nat
         /\ Len(Append(s, c)) = Len(s) + 1 /\ Append(s, c)[Len(s) + 1] = c
         /\ \A i \in 1..Len(s) : Append(s, c)[i] = s[i]
BY AppendProperties, LenProperties

IsAppend(u, s, c) ==
  /\ u = Append(s, c) /\ Len(s) \in Nat /\ Len(u) = Len(s) + 1 /\ u[Len(s) + 1] = c
  /\ \A i \in 1..Len(s) : u[i] = s[i]

LEMMA AppendPick ==
  ASSUME NEW A, NEW s \in Seq(A), NEW c \in A
  PROVE  \E u \in Seq(A) : IsAppend(u, s, c)
<1>1. /\ Append(s, c) \in Seq(A) /\ Len(s) \in Nat
      /\ Len(Append(s, c)) = Len(s) + 1 /\ Append(s, c)[Len(s) + 1] = c
      /\ \A i \in 1..Len(s) : Append(s, c)[i] = s[i]
  BY AppendIs
<1>2. QED
  BY <1>1, Zenon DEF IsAppend

\* s is t, with zeros before it.
Pads(s, t) ==
  /\ Len(t) <= Len(s)
  /\ \A i \in 1..Len(s) : s[i] = IF i <= Len(s) - Len(t) THEN 0 ELSE t[i - (Len(s) - Len(t))]

LEMMA PadsAppend ==
  ASSUME NEW s \in Seq(Nat), NEW t \in Seq(Nat), NEW c \in Nat, NEW d \in Nat
  PROVE  Pads(Append(s, c), Append(t, d)) <=> Pads(s, t) /\ c = d
<1>a. PICK u \in Seq(Nat) : IsAppend(u, s, c)
  BY AppendPick
<1>b. PICK w \in Seq(Nat) : IsAppend(w, t, d)
  BY AppendPick
<1>1. /\ u = Append(s, c) /\ Len(s) \in Nat /\ Len(u) = Len(s) + 1 /\ u[Len(s) + 1] = c
      /\ \A i \in 1..Len(s) : u[i] = s[i]
  BY <1>a DEF IsAppend
<1>2. /\ w = Append(t, d) /\ Len(t) \in Nat /\ Len(w) = Len(t) + 1 /\ w[Len(t) + 1] = d
      /\ \A i \in 1..Len(t) : w[i] = t[i]
  BY <1>b DEF IsAppend
<1> DEFINE k == Len(s) - Len(t)
<1>3. ASSUME Pads(u, w) PROVE Pads(s, t) /\ c = d
  <2>1. Len(t) <= Len(s) /\ Len(u) - Len(w) = k
    BY <1>1, <1>2, <1>3 DEF Pads
  <2>2. \A i \in 1..(Len(s) + 1) : u[i] = IF i <= k THEN 0 ELSE w[i - k]
    BY <1>1, <1>3, <2>1 DEF Pads
  <2>3. c = d
    BY <1>1, <1>2, <2>1, <2>2, SMTT(20)
  <2>4. ASSUME NEW i \in 1..Len(s) PROVE s[i] = IF i <= k THEN 0 ELSE t[i - k]
    <3>1. u[i] = s[i] /\ (i > k => w[i - k] = t[i - k])
      BY <1>1, <1>2, <2>1
    <3>2. i \in 1..(Len(s) + 1) /\ (~(i <= k) => i > k)
      BY <1>1, <1>2
    <3>3. u[i] = IF i <= k THEN 0 ELSE w[i - k]
      BY <2>2, <3>2, Zenon
    <3>4. QED
      BY <3>1, <3>2, <3>3, Zenon
  <2>5. QED
    BY <2>1, <2>3, <2>4 DEF Pads
<1>4. ASSUME Pads(s, t), c = d PROVE Pads(u, w)
  <2>1. Len(t) <= Len(s) /\ Len(u) - Len(w) = k /\ Len(w) <= Len(u)
    BY <1>1, <1>2, <1>4 DEF Pads
  <2>2. ASSUME NEW i \in 1..(Len(s) + 1) PROVE u[i] = IF i <= k THEN 0 ELSE w[i - k]
    <3>1. CASE i = Len(s) + 1
      BY <1>1, <1>2, <1>4, <2>1, <3>1
    <3>2. CASE i \in 1..Len(s)
      <4>1. u[i] = s[i] /\ (i > k => w[i - k] = t[i - k])
        BY <1>1, <1>2, <2>1, <3>2
      <4>2. s[i] = IF i <= k THEN 0 ELSE t[i - k]
        BY <1>4, <3>2 DEF Pads
      <4>3. QED
        BY <4>1, <4>2, <1>1, <1>2
    <3>3. QED
      BY <1>1, <3>1, <3>2
  <2>3. QED
    BY <1>1, <2>1, <2>2 DEF Pads
<1>5. QED
  BY <1>1, <1>2, <1>3, <1>4

LEMMA PadsValue ==
  ASSUME NEW s \in Seq(Nat), NEW t \in Seq(Nat), Pads(s, t)
  PROVE  Value(s) = Value(t)
<1> DEFINE Zeros == {u \in Seq(Nat) : Pads(u, <<>>) => Value(u) = 0}
           S == {w \in Seq(Nat) : \A u \in Seq(Nat) : Pads(u, w) => Value(u) = Value(w)}
<1>1. \A u \in Seq(Nat) : u \in Zeros
  <2>1. <<>> \in Zeros
    BY ValueEmpty
  <2>2. ASSUME NEW u \in Seq(Nat), NEW c \in Nat, u \in Zeros PROVE Append(u, c) \in Zeros
    <3> SUFFICES ASSUME Pads(Append(u, c), <<>>) PROVE Value(Append(u, c)) = 0
      BY AppendIs
    <3>a. PICK x \in Seq(Nat) : IsAppend(x, u, c)
      BY AppendPick
    <3>1. /\ x = Append(u, c) /\ Len(u) \in Nat /\ Len(x) = Len(u) + 1 /\ x[Len(u) + 1] = c
          /\ \A i \in 1..Len(u) : x[i] = u[i]
      BY <3>a DEF IsAppend
    <3>2. \A i \in 1..(Len(u) + 1) : x[i] = 0
      BY <3>1 DEF Pads
    <3>3. c = 0 /\ \A i \in 1..Len(u) : u[i] = 0
      BY <3>1, <3>2
    <3>4. Pads(u, <<>>)
      BY <3>1, <3>3 DEF Pads
    <3>5. Value(u) = 0
      BY <2>2, <3>4
    <3>6. QED
      BY <3>3, <3>5, ValueAppend, Bases
  <2>3. QED
    <3> HIDE DEF Zeros
    <3>1. QED
      BY <2>1, <2>2, SeqInduct
<1>2. <<>> \in S
  BY <1>1, ValueEmpty
<1>3. ASSUME NEW w \in Seq(Nat), NEW c \in Nat, w \in S PROVE Append(w, c) \in S
  <2> SUFFICES ASSUME NEW x \in Seq(Nat), Pads(x, Append(w, c)) PROVE Value(x) = Value(Append(w, c))
    BY AppendIs
  <2>1. Len(x) >= 1
    <3>1. Len(Append(w, c)) = Len(w) + 1 /\ Len(w) \in Nat /\ Len(x) \in Nat
      BY AppendIs, LenProperties
    <3>2. QED
      BY <3>1 DEF Pads
  <2>2. PICK u \in Seq(Nat), d \in Nat : x = Append(u, d)
    <3>1. x # <<>>
      BY <2>1
    <3>2. QED
      BY <3>1, SequenceEmptyOrAppend
  <2>3. Pads(u, w) /\ d = c
    BY <2>2, PadsAppend
  <2>4. Value(u) = Value(w)
    BY <1>3, <2>3
  <2>5. QED
    BY <2>2, <2>3, <2>4, ValueAppend
<1>4. \A w \in Seq(Nat) : w \in S
  <2> HIDE DEF S
  <2>1. QED
    BY <1>2, <1>3, SeqInduct
<1>5. QED
  BY <1>4

LEMMA ValueDigits == ASSUME NEW n \in Nat PROVE Value(Digits(n)) = n
<1> DEFINE S == {k \in Nat : Value(Digits(k)) = k}
<1>1. ASSUME NEW k \in Nat, \A j \in Nat : j < k => j \in S PROVE k \in S
  <2>1. CASE k < Base
    <3>1. Digits(k) = Append(<<>>, k)
      BY <2>1, DigitsSmall
    <3>2. Value(Append(<<>>, k)) = Value(<<>>) * Base + k
      BY EmptySeq, ValueAppend, Zenon
    <3>3. QED
      BY <3>1, <3>2, ValueEmpty, Bases
  <2>2. CASE k >= Base
    <3>1. k \div Base \in Nat /\ k % Base \in Nat /\ k = (k \div Base) * Base + (k % Base)
      BY Divided, Bases
    <3>2. Value(Digits(k \div Base)) = k \div Base
      BY <1>1, <2>2, <3>1, DivLess, Bases
    <3>3. Digits(k \div Base) \in Seq(Nat)
      BY <3>1, DigitsType, DigitNat
    <3>4. Value(Digits(k)) = Value(Digits(k \div Base)) * Base + (k % Base)
      BY <2>2, <3>1, <3>3, DigitsLarge, ValueAppend
    <3>5. QED
      BY <3>1, <3>2, <3>4
  <2>3. QED
    BY <2>1, <2>2, Bases
<1>2. \A k \in Nat : k \in S
  <2> HIDE DEF S
  <2>1. QED
    BY <1>1, Complete
<1>3. QED
  BY <1>2

LEMMA DigitsNumeral == ASSUME NEW n \in Nat PROVE Digits(n) \in Numeral /\ Len(Digits(n)) \in Nat \ {0}
<1>1. Digits(n) \in Seq(Digit)
  BY DigitsType
<1>2. CASE n < Base
  BY <1>1, <1>2, DigitsSmall DEF Numeral
<1>3. CASE n >= Base
  <2>1. n \div Base \in Nat /\ n % Base \in Digit
    BY Divided DEF Digit
  <2>2. Digits(n \div Base) \in Seq(Digit)
    BY <2>1, DigitsType
  <2>3. QED
    BY <1>1, <1>3, <2>1, <2>2, DigitsLarge, AppendIs DEF Numeral
<1>4. QED
  BY <1>2, <1>3, Bases

\* What stands in a name is the numeral that String(Int(...)) makes of it, behind
\* zeros: reading a number and writing it again loses the padding and no more.
LEMMA Canonical == ASSUME NEW s \in Numeral PROVE Pads(s, Digits(Value(s)))
<1> DEFINE S == {t \in Seq(Digit) : t # <<>> => Pads(t, Digits(Value(t)))}
<1>1. <<>> \in S
  BY EmptySeq
<1>2. ASSUME NEW t \in Seq(Digit), NEW c \in Digit, t \in S PROVE Append(t, c) \in S
  <2> DEFINE n == Value(Append(t, c))
  <2>0. t \in Seq(Nat) /\ c \in Nat /\ Append(t, c) \in Seq(Digit) /\ Append(t, c) # <<>>
    BY DigitNat, AppendIs
  <2>1. n = Value(t) * Base + c /\ Value(t) \in Nat
    BY <2>0, ValueAppend, ValueType
  <2>2. n \in Nat /\ n \div Base = Value(t) /\ n % Base = c
    <3>1. (Value(t) * Base + c) \div Base = Value(t) /\ (Value(t) * Base + c) % Base = c
      BY <2>1, DividedOnce DEF Digit
    <3>2. n \in Nat
      BY <2>0, <2>1, Bases
    <3>3. QED
      BY <2>1, <3>1, <3>2
  <2> HIDE DEF n
  <2>3. CASE n < Base
    <3>1. Value(t) = 0 /\ c = n
      BY <2>2, <2>3, Divided
    <3>2. Digits(n) = Append(<<>>, c)
      BY <2>2, <2>3, <3>1, DigitsSmall
    <3>3. Pads(t, <<>>)
      <4>1. CASE t = <<>>
        BY <4>1 DEF Pads
      <4>2. CASE t # <<>>
        <5>1. Pads(t, Digits(0))
          BY <1>2, <3>1, <4>2
        <5>2. Digits(0) = <<0>>
          BY DigitsSmall, Bases
        <5>3. Len(t) \in Nat
          OBVIOUS
        <5>4. \A i \in 1..Len(t) : t[i] = 0
          BY <5>1, <5>2, <5>3 DEF Pads
        <5>5. QED
          BY <5>3, <5>4 DEF Pads
      <4>3. QED
        BY <4>1, <4>2
    <3>4. <<>> \in Seq(Nat)
      OBVIOUS
    <3>5. Pads(Append(t, c), Append(<<>>, c))
      BY <2>0, <3>3, <3>4, PadsAppend
    <3>6. QED
      BY <2>0, <3>2, <3>5 DEF n
  <2>4. CASE n >= Base
    <3>1. t # <<>>
      <4>1. t = <<>> => n = c /\ c < Base
        BY <2>1, ValueEmpty, Bases DEF Digit
      <4>2. QED
        BY <2>2, <2>4, <4>1, Bases
    <3>2. Pads(t, Digits(Value(t)))
      BY <1>2, <3>1
    <3>3. Digits(n) = Append(Digits(Value(t)), c)
      BY <2>2, <2>4, DigitsLarge
    <3>4. Digits(Value(t)) \in Seq(Nat)
      BY <2>1, DigitsType, DigitNat
    <3>5. Pads(Append(t, c), Append(Digits(Value(t)), c))
      BY <2>0, <3>2, <3>4, PadsAppend
    <3>6. QED
      BY <2>0, <3>3, <3>5 DEF n
  <2>5. QED
    BY <2>2, <2>3, <2>4, Bases
<1>3. \A t \in Seq(Digit) : t \in S
  <2> HIDE DEF S
  <2>1. QED
    BY <1>1, <1>2, SeqInduct
<1>4. QED
  BY <1>3 DEF Numeral

LEMMA PadsIs ==
  ASSUME NEW s \in Numeral, NEW t \in Numeral, Len(t) <= Len(s)
  PROVE  Value(s) = Value(t) <=> Pads(s, t)
<1>1. s \in Seq(Nat) /\ t \in Seq(Nat) /\ Len(s) \in Nat /\ Len(t) \in Nat
  BY DigitNat, LenProperties DEF Numeral
<1>2. ASSUME Value(s) = Value(t) PROVE Pads(s, t)
  <2> DEFINE d == Digits(Value(t))
  <2>1. Pads(s, d) /\ Pads(t, d)
    BY <1>2, Canonical
  <2>2. Len(d) \in Nat
    BY <1>1, ValueType, DigitsNumeral
  <2> HIDE DEF d
  <2>3. ASSUME NEW i \in 1..Len(s)
        PROVE  s[i] = IF i <= Len(s) - Len(t) THEN 0 ELSE t[i - (Len(s) - Len(t))]
    <3>1. s[i] = IF i <= Len(s) - Len(d) THEN 0 ELSE d[i - (Len(s) - Len(d))]
      BY <2>1 DEF Pads
    <3>2. CASE i <= Len(s) - Len(t)
      BY <1>1, <2>1, <2>2, <3>1, <3>2 DEF Pads
    <3>3. CASE i > Len(s) - Len(t)
      <4> DEFINE j == i - (Len(s) - Len(t))
      <4>1. j \in 1..Len(t) /\ j - (Len(t) - Len(d)) = i - (Len(s) - Len(d))
            /\ (j <= Len(t) - Len(d) <=> i <= Len(s) - Len(d))
        BY <1>1, <2>2, <3>3
      <4>2. t[j] = IF j <= Len(t) - Len(d) THEN 0 ELSE d[j - (Len(t) - Len(d))]
        BY <2>1, <4>1 DEF Pads
      <4> HIDE DEF j
      <4>3. s[i] = t[j]
        BY <3>1, <4>1, <4>2
      <4>4. ~(i <= Len(s) - Len(t))
        BY <1>1, <3>3
      <4>5. QED
        BY <4>3, <4>4, Zenon DEF j
    <3>4. QED
      BY <1>1, <3>2, <3>3
  <2>4. QED
    BY <2>3 DEF Pads
<1>3. QED
  BY <1>1, <1>2, PadsValue

LEMMA DigitsFit ==
  ASSUME NEW s \in Numeral
  PROVE  Len(Digits(Value(s))) <= Len(s)
BY Canonical DEF Pads

LEMMA DivMono ==
  ASSUME NEW m \in Nat, NEW n \in Nat, m <= n
  PROVE  m \div Base <= n \div Base
<1> DEFINE a == m \div Base
           b == n \div Base
<1>1. /\ a \in Nat /\ m = a * Base + (m % Base) /\ m % Base \in 0..(Base - 1)
      /\ b \in Nat /\ n = b * Base + (n % Base) /\ n % Base \in 0..(Base - 1)
  BY Divided
<1> DEFINE x == m % Base
           y == n % Base
<1> HIDE DEF a, b, x, y
<1>2. ASSUME a >= b + 1 PROVE FALSE
  <2>1. a * Base >= (b + 1) * Base
    BY <1>1, <1>2, Bases
  <2>2. (b + 1) * Base = b * Base + Base
    BY <1>1, Bases
  <2>3. a * Base \in Nat /\ b * Base \in Nat
    BY <1>1, Bases
  <2>4. m = a * Base + x /\ n = b * Base + y /\ x >= 0 /\ y < Base /\ x \in Nat /\ y \in Nat
    BY <1>1, Bases DEF x, y
  <2>5. QED
    BY <2>1, <2>2, <2>3, <2>4, Bases
<1>3. a <= b
  BY <1>1, <1>2
<1>4. QED
  BY <1>3 DEF a, b

LEMMA DigitsLen ==
  ASSUME NEW n \in Nat
  PROVE  /\ n < Base => Len(Digits(n)) = 1
         /\ n >= Base => Len(Digits(n)) = Len(Digits(n \div Base)) + 1
<1>1. n < Base => Len(Digits(n)) = 1
  BY DigitsSmall
<1>2. ASSUME n >= Base PROVE Len(Digits(n)) = Len(Digits(n \div Base)) + 1
  <2>1. Digits(n \div Base) \in Seq(Digit) /\ n % Base \in Digit
    BY Divided, DigitsType DEF Digit
  <2>2. QED
    BY <1>2, <2>1, DigitsLarge, AppendIs
<1>3. QED
  BY <1>1, <1>2

LEMMA DigitsLonger ==
  ASSUME NEW m \in Nat, NEW n \in Nat, m <= n
  PROVE  Len(Digits(m)) <= Len(Digits(n))
<1> DEFINE S == {k \in Nat : \A j \in Nat : j <= k => Len(Digits(j)) <= Len(Digits(k))}
<1>1. ASSUME NEW k \in Nat, \A i \in Nat : i < k => i \in S PROVE k \in S
  <2> SUFFICES ASSUME NEW j \in Nat, j <= k PROVE Len(Digits(j)) <= Len(Digits(k))
    OBVIOUS
  <2>1. Len(Digits(j)) \in Nat \ {0} /\ Len(Digits(k)) \in Nat \ {0}
    BY DigitsNumeral
  <2>2. CASE j < Base
    <3>1. Len(Digits(j)) = 1
      BY <2>2, DigitsLen
    <3>2. QED
      BY <2>1, <3>1
  <2>3. CASE j >= Base
    <3>1. k >= Base /\ ~(k < Base)
      BY <2>3, Bases
    <3>2. k \div Base \in Nat /\ k \div Base < k /\ j \div Base \in Nat
      BY <3>1, DivLess, Zenon
    <3>3. j \div Base <= k \div Base
      BY DivMono
    <3>4. Len(Digits(j \div Base)) <= Len(Digits(k \div Base))
      BY <1>1, <3>2, <3>3
    <3>5. Len(Digits(j \div Base)) \in Nat /\ Len(Digits(k \div Base)) \in Nat
      BY <3>2, DigitsNumeral
    <3>6. Len(Digits(j)) = Len(Digits(j \div Base)) + 1 /\ Len(Digits(k)) = Len(Digits(k \div Base)) + 1
      BY <2>3, <3>1, DigitsLen
    <3>7. QED
      BY <3>4, <3>5, <3>6
  <2>4. QED
    BY <2>2, <2>3, Bases
<1>2. \A k \in Nat : k \in S
  <2> HIDE DEF S
  <2>1. QED
    BY <1>1, Complete
<1>3. QED
  BY <1>2

\* s begins with t.
Begins(s, t) == Len(t) <= Len(s) /\ \A i \in 1..Len(t) : s[i] = t[i]

LEMMA BeginsValue ==
  ASSUME NEW s \in Seq(Nat), NEW t \in Seq(Nat), Begins(s, t)
  PROVE  Value(t) <= Value(s)
<1> DEFINE S == {u \in Seq(Nat) : \A w \in Seq(Nat) : Begins(u, w) => Value(w) <= Value(u)}
<1>1. <<>> \in S
  <2>1. ASSUME NEW w \in Seq(Nat), Begins(<<>>, w) PROVE Value(w) <= Value(<<>>)
    <3>1. w = <<>>
      BY <2>1, EmptySeq DEF Begins
    <3>2. QED
      BY <3>1, ValueEmpty
  <2>2. QED
    BY <2>1, EmptySeq
<1>2. ASSUME NEW u \in Seq(Nat), NEW c \in Nat, u \in S PROVE Append(u, c) \in S
  <2>a. PICK x \in Seq(Nat) : IsAppend(x, u, c)
    BY AppendPick
  <2>1. /\ x = Append(u, c) /\ Len(u) \in Nat /\ Len(x) = Len(u) + 1
        /\ \A i \in 1..Len(u) : x[i] = u[i]
    BY <2>a DEF IsAppend
  <2>2. ASSUME NEW w \in Seq(Nat), Begins(x, w) PROVE Value(w) <= Value(x)
    <3>1. Len(w) \in Nat /\ Len(w) <= Len(u) + 1 /\ \A i \in 1..Len(w) : x[i] = w[i]
      BY <2>1, <2>2, LenProperties DEF Begins
    <3>2. Value(u) \in Nat /\ Value(x) \in Nat /\ Value(x) = Value(u) * Base + c
      BY <2>1, ValueType, ValueAppend
    <3>3. CASE Len(w) = Len(u) + 1
      <4>1. w = x
        BY <2>1, <3>1, <3>3, SeqEqual
      <4>2. QED
        BY <3>2, <4>1
    <3>4. CASE Len(w) <= Len(u)
      <4>1. Begins(u, w)
        BY <2>1, <3>1, <3>4 DEF Begins
      <4>2. Value(w) <= Value(u) /\ Value(w) \in Nat
        BY <1>2, <4>1, ValueType
      <4>3. Value(u) * Base >= Value(u) /\ Value(u) * Base \in Nat
        BY <3>2, Bases, ProductGrows, Zenon
      <4>4. QED
        BY <3>2, <4>2, <4>3
    <3>5. QED
      BY <2>1, <3>1, <3>3, <3>4
  <2>3. QED
    BY <2>1, <2>2
<1>3. \A u \in Seq(Nat) : u \in S
  <2> HIDE DEF S
  <2>1. QED
    BY <1>1, <1>2, SeqInduct
<1>4. QED
  BY <1>3

-----------------------------------------------------------------------------
(* The powers of ten                                                       *)

Tens(n, t) == [k \in 0..n |-> k \in {0, Base} \/ (k % Base = 0 /\ t[k \div Base])]

LEMMA TenTurns ==
  ASSUME NEW n \in Nat
  PROVE  \E t \in [0..n -> BOOLEAN] :
           /\ \A k \in 0..n : t[k] <=> k \in {0, Base} \/ (k % Base = 0 /\ t[k \div Base])
           /\ IsTimesOfTen(n) = t[n]
<1> DEFINE first == {k \in 0..n : k \in {0, Base} \/ k % Base # 0}
           b == [k \in 0..n |-> k \in {0, Base}]
           p == [k \in 0..n |-> k \div Base]
           h == [x \in (0..n) \X BOOLEAN |-> x[2]]
           v == CHOOSE f : f = Tens(n, f)
<1>1. /\ p \in [0..n -> Nat] /\ b \in [0..n -> BOOLEAN] /\ h \in [(0..n) \X BOOLEAN -> BOOLEAN]
  BY DivLess
<1>2. ASSUME NEW k \in 0..n, k \notin {0, Base}, k % Base = 0 PROVE k \div Base \in 0..n /\ k \div Base < k
  <2>1. k \in Nat /\ ~(k < Base)
    BY <1>2, Divided, Bases
  <2>2. k \div Base \in Nat /\ k \div Base < k
    BY <2>1, DivLess, Zenon
  <2>3. QED
    BY <2>2
<1>3. \A k \in 0..n : k \notin first => p[k] < k
  BY <1>2
<1>4. PICK f \in [0..n -> BOOLEAN] : \A k \in 0..n : f[k] = IF k \in first THEN b[k] ELSE h[<<k, f[p[k]]>>]
  <2> HIDE DEF b, p, h, first
  <2>1. Unrolls(n, BOOLEAN, first, b, p, h)
    BY <1>1, <1>3, Recursion, Zenon
  <2>2. QED
    BY <2>1, Zenon DEF Unrolls
<1>5. ASSUME NEW k \in 0..n PROVE f[k] = (k \in {0, Base} \/ (k % Base = 0 /\ f[k \div Base]))
  <2>1. CASE k \in {0, Base} \/ k % Base # 0
    <3>1. k \in first /\ b[k] = (k \in {0, Base})
      BY <2>1, Zenon
    <3>2. f[k] = (k \in {0, Base})
      BY <1>4, <3>1, Zenon
    <3>3. QED
      BY <2>1, <3>2, Zenon
  <2>2. CASE k \notin {0, Base} /\ k % Base = 0
    <3>1. k \notin first /\ p[k] = k \div Base /\ k \div Base \in 0..n
      BY <1>2, <2>2, Zenon
    <3>2. f[k \div Base] \in BOOLEAN
      BY <3>1, Zenon
    <3>3. h[<<k, f[k \div Base]>>] = f[k \div Base]
      BY <3>2
    <3>4. f[k] = f[k \div Base]
      BY <1>4, <3>1, <3>3, Zenon
    <3>5. QED
      BY <2>2, <3>2, <3>4, Zenon
  <2>3. QED
    BY <2>1, <2>2, Zenon
<1>6. f = Tens(n, f)
  <2>1. f = [k \in 0..n |-> f[k]]
    OBVIOUS
  <2>2. QED
    BY <1>5, <2>1, Zenon DEF Tens
<1>7. v = Tens(n, v)
  BY <1>6, Zenon
<1>8. IsTimesOfTen(n) = v[n]
  BY Zenon DEF IsTimesOfTen, Tens
<1>9. \A k \in 0..n : v[k] = (k \in {0, Base} \/ (k % Base = 0 /\ v[k \div Base]))
  <2> HIDE DEF v
  <2>1. \A k \in 0..n : v[k] = Tens(n, v)[k]
    BY <1>7, Zenon
  <2>2. QED
    BY <2>1, Zenon DEF Tens
<1>10. v \in [0..n -> BOOLEAN]
  <2> HIDE DEF v
  <2>1. v = [k \in 0..n |-> v[k]]
    BY <1>7, Zenon DEF Tens
  <2>2. \A k \in 0..n : v[k] \in BOOLEAN
    BY <1>9, Zenon
  <2>3. QED
    BY <2>1, <2>2, Zenon
<1>11. QED
  <2> HIDE DEF v
  <2>1. \A k \in 0..n : v[k] <=> k \in {0, Base} \/ (k % Base = 0 /\ v[k \div Base])
    BY <1>9, Zenon
  <2>2. QED
    BY <1>8, <1>10, <2>1, Zenon

LEMMA TenIs ==
  ASSUME NEW n \in Nat
  PROVE  IsTimesOfTen(n) <=> n \in {0, Base} \/ (n % Base = 0 /\ IsTimesOfTen(n \div Base))
<1> DEFINE m == n \div Base
<1>1. m \in Nat /\ n \in 0..n
  BY DivLess
<1>2. PICK t \in [0..n -> BOOLEAN] :
        /\ \A k \in 0..n : t[k] <=> k \in {0, Base} \/ (k % Base = 0 /\ t[k \div Base])
        /\ IsTimesOfTen(n) = t[n]
  BY TenTurns
<1>3. PICK u \in [0..m -> BOOLEAN] :
        /\ \A k \in 0..m : u[k] <=> k \in {0, Base} \/ (k % Base = 0 /\ u[k \div Base])
        /\ IsTimesOfTen(m) = u[m]
  BY <1>1, TenTurns, Zenon
<1> HIDE DEF m
<1> DEFINE S == {k \in Nat : k <= m /\ k <= n => (t[k] <=> u[k])}
<1>4. ASSUME NEW k \in Nat, \A j \in Nat : j < k => j \in S PROVE k \in S
  <2> SUFFICES ASSUME k <= m, k <= n PROVE t[k] <=> u[k]
    OBVIOUS
  <2>1. k \in 0..m /\ k \in 0..n
    BY <1>1
  <2>2. k \notin {0, Base} /\ k % Base = 0 => (t[k \div Base] <=> u[k \div Base])
    <3>1. ASSUME k \notin {0, Base}, k % Base = 0 PROVE k \div Base \in Nat /\ k \div Base < k
      <4>1. ~(k < Base)
        BY <3>1, Divided, Bases
      <4>2. QED
        BY <4>1, DivLess, Zenon
    <3>2. ASSUME k \notin {0, Base}, k % Base = 0 PROVE k \div Base \in S /\ k \div Base <= m /\ k \div Base <= n
      BY <1>1, <1>4, <3>1, <3>2
    <3>3. QED
      BY <3>2, Zenon
  <2>3. QED
    BY <1>2, <1>3, <2>1, <2>2, Zenon
<1>5. \A k \in Nat : k \in S
  <2> HIDE DEF S
  <2>1. QED
    BY <1>4, Complete
<1>6. n \notin {0, Base} /\ n % Base = 0 => (t[m] <=> u[m])
  <2>1. ASSUME n \notin {0, Base}, n % Base = 0 PROVE m < n
    <3>1. ~(n < Base)
      BY <2>1, Divided, Bases
    <3>2. QED
      BY <3>1, DivLess, Zenon DEF m
  <2>2. ASSUME n \notin {0, Base}, n % Base = 0 PROVE m \in S /\ m <= m /\ m <= n
    BY <1>1, <1>5, <2>1, <2>2
  <2>3. QED
    BY <2>2, Zenon
<1>7. t[n] <=> n \in {0, Base} \/ (n % Base = 0 /\ t[m])
  BY <1>1, <1>2, Zenon DEF m
<1>8. QED
  BY <1>2, <1>3, <1>6, <1>7, Zenon DEF m

\* isTimesOfTen tells where a numeral gets shorter when one is taken from its number,
\* and nowhere else: the padding that the search for the previous file keeps is right.
THEOREM DigitsBelow ==
  ASSUME NEW n \in Nat, n >= 2
  PROVE  Len(Digits(n)) = Len(Digits(n - 1)) + (IF IsTimesOfTen(n) THEN 1 ELSE 0)
<1> DEFINE More(k) == IF IsTimesOfTen(k) THEN 1 ELSE 0
           S == {k \in Nat : k >= 2 => Len(Digits(k)) = Len(Digits(k - 1)) + More(k)}
<1>1. ASSUME NEW k \in Nat, \A j \in Nat : j < k => j \in S PROVE k \in S
  <2> SUFFICES ASSUME k >= 2 PROVE Len(Digits(k)) = Len(Digits(k - 1)) + More(k)
    OBVIOUS
  <2> DEFINE a == k \div Base
  <2>1. a \in Nat /\ k % Base \in 0..(Base - 1) /\ k = a * Base + (k % Base)
        /\ (k < Base => a = 0 /\ k % Base = k) /\ (k >= Base => a >= 1 /\ a < k)
    BY Divided
  <2>2. IsTimesOfTen(k) <=> k \in {0, Base} \/ (k % Base = 0 /\ IsTimesOfTen(a))
    BY TenIs
  <2> HIDE DEF a
  <2>3. CASE k < Base
    <3>1. ~IsTimesOfTen(k)
      BY <2>1, <2>2, <2>3, Bases
    <3>2. k - 1 \in Nat /\ k - 1 < Base
      BY <2>3, Bases
    <3>3. QED
      BY <2>3, <3>1, <3>2, DigitsLen
  <2>4. CASE k = Base
    <3>1. IsTimesOfTen(k)
      BY <2>2, <2>4
    <3>2. k - 1 \in Nat /\ k - 1 < Base /\ a = 1 /\ 1 < Base
      <4>1. k - 1 \in Nat /\ k - 1 < Base /\ 1 < Base
        BY <2>4, Bases
      <4>2. a = 1
        BY <2>4, DividedOnce, Bases DEF a
      <4>3. QED
        BY <4>1, <4>2
    <3>3. Len(Digits(k)) = Len(Digits(a)) + 1 /\ Len(Digits(a)) = 1 /\ Len(Digits(k - 1)) = 1
      BY <2>4, <3>2, DigitsLen, Bases DEF a
    <3>4. QED
      BY <3>1, <3>3
  <2>5. CASE k > Base /\ k % Base # 0
    <3>1. ~IsTimesOfTen(k)
      BY <2>2, <2>5, Bases
    <3>2. k - 1 \in Nat /\ k - 1 >= Base /\ k >= Base
      BY <2>5, Bases
    <3>3. (k - 1) \div Base = a
      <4> DEFINE c == (k % Base) - 1
      <4>1. c \in 0..(Base - 1) /\ k - 1 = a * Base + c
        BY <2>1, <2>5, Bases
      <4>2. (a * Base + c) \div Base = a
        BY <2>1, <4>1, DividedOnce
      <4>3. QED
        BY <4>1, <4>2, Zenon
    <3>4. Len(Digits(k)) = Len(Digits(a)) + 1 /\ Len(Digits(k - 1)) = Len(Digits(a)) + 1
      BY <3>2, <3>3, DigitsLen DEF a
    <3>5. Len(Digits(a)) \in Nat
      BY <2>1, DigitsNumeral
    <3>6. QED
      BY <3>1, <3>4, <3>5
  <2>6. CASE k > Base /\ k % Base = 0
    <3>1. IsTimesOfTen(k) <=> IsTimesOfTen(a)
      BY <2>2, <2>6, Bases
    <3>2. a >= 2 /\ a < k
      <4>1. a = 1 => k = Base
        BY <2>1, <2>6, Bases
      <4>2. QED
        BY <2>1, <2>6, <4>1, Bases
    <3>3. k - 1 \in Nat /\ k - 1 >= Base /\ k >= Base
      BY <2>6, Bases
    <3>4. (k - 1) \div Base = a - 1
      <4> DEFINE d == a - 1
                 c == Base - 1
      <4>1. d \in Nat /\ c \in 0..(Base - 1)
        BY <2>1, <3>2, Bases
      <4>2. a * Base = d * Base + Base
        BY <2>1, Bases
      <4>3. k - 1 = d * Base + c
        BY <2>1, <2>6, <4>1, <4>2, Bases
      <4>4. (d * Base + c) \div Base = d
        BY <4>1, DividedOnce
      <4>5. QED
        BY <4>3, <4>4, Zenon
    <3>5. Len(Digits(k)) = Len(Digits(a)) + 1 /\ Len(Digits(k - 1)) = Len(Digits(a - 1)) + 1
      BY <3>3, <3>4, DigitsLen DEF a
    <3>6. Len(Digits(a)) = Len(Digits(a - 1)) + More(a)
      BY <1>1, <2>1, <3>2
    <3>7. Len(Digits(a - 1)) \in Nat /\ More(a) \in Nat /\ More(a) = More(k)
      BY <2>1, <3>1, <3>2, DigitsNumeral
    <3>8. QED
      <4> HIDE DEF More
      <4>1. QED
        BY <3>5, <3>6, <3>7, SMTT(20)
  <2>7. QED
    BY <2>1, <2>3, <2>4, <2>5, <2>6, Bases
<1>2. \A k \in Nat : k \in S
  <2> HIDE DEF S
  <2>1. QED
    BY <1>1, Complete
<1>3. QED
  BY <1>2

-----------------------------------------------------------------------------
(* Names and their parts                                                   *)

LEMMA NameIs ==
  ASSUME NEW f \in Names
  PROVE  /\ f \in Seq(Nat) /\ Len(f) \in Nat \ {0}
         /\ \A i \in 1..Len(f) : f[i] \in Nat
         /\ f # NoFile /\ DigitParts[f] = PartsOf(f)
<1>1. f \in Seq(Nat) /\ f # <<>>
  BY SearchAssumption
<1>2. DigitParts[f] = PartsOf(f)
  BY Zenon DEF DigitParts
<1>3. QED
  BY <1>1, <1>2 DEF NoFile

LEMMA PartIs ==
  ASSUME NEW f \in Names, NEW r \in DigitParts[f]
  PROVE  /\ r = <<Begin(r), End(r)>>
         /\ Begin(r) \in Nat /\ End(r) \in Nat
         /\ 1 <= Begin(r) /\ Begin(r) <= End(r) /\ End(r) <= Len(f)
         /\ \A i \in Begin(r)..End(r) : f[i] \in Digit
         /\ Begin(r) > 1 => f[Begin(r) - 1] \notin Digit
         /\ End(r) < Len(f) => f[End(r) + 1] \notin Digit
<1>0. /\ Len(f) \in Nat /\ \A i \in 1..Len(f) : f[i] \in Nat
      /\ DigitParts[f] = PartsOf(f)
  BY NameIs
<1>1. /\ r \in (1..Len(f)) \X (1..Len(f))
      /\ Begin(r) <= End(r) /\ \A i \in Begin(r)..End(r) : IsDigit(f[i])
      /\ Begin(r) > 1 => ~IsDigit(f[Begin(r) - 1])
      /\ End(r) < Len(f) => ~IsDigit(f[End(r) + 1])
  BY <1>0, Zenon DEF PartsOf
<1>2. r = <<Begin(r), End(r)>> /\ Begin(r) \in 1..Len(f) /\ End(r) \in 1..Len(f)
  BY <1>1 DEF Begin, End
<1>3. \A c \in Nat : IsDigit(c) <=> c \in Digit
  BY DigitNat
<1> DEFINE b == Begin(r)
           e == End(r)
<1> HIDE DEF b, e
<1>4. b \in 1..Len(f) /\ e \in 1..Len(f) /\ b <= e
  BY <1>1, <1>2 DEF b, e
<1>5. \A i \in b..e : f[i] \in Digit
  <2>1. \A i \in b..e : f[i] \in Nat
    BY <1>0, <1>4
  <2>2. QED
    BY <1>1, <1>3, <2>1, Zenon DEF b, e
<1>6. b > 1 => f[b - 1] \notin Digit
  <2>1. b > 1 => f[b - 1] \in Nat
    BY <1>0, <1>4
  <2>2. QED
    BY <1>1, <1>3, <2>1, Zenon DEF b, e
<1>7. e < Len(f) => f[e + 1] \notin Digit
  <2>1. e < Len(f) => f[e + 1] \in Nat
    BY <1>0, <1>4
  <2>2. QED
    BY <1>1, <1>3, <2>1, Zenon DEF b, e
<1>8. QED
  BY <1>0, <1>2, <1>4, <1>5, <1>6, <1>7 DEF b, e

LEMMA PartMember ==
  ASSUME NEW f \in Names, NEW b \in 1..Len(f), NEW e \in b..Len(f),
         \A i \in b..e : f[i] \in Digit,
         b > 1 => f[b - 1] \notin Digit,
         e < Len(f) => f[e + 1] \notin Digit
  PROVE  <<b, e>> \in DigitParts[f] /\ Begin(<<b, e>>) = b /\ End(<<b, e>>) = e
<1>0. /\ Len(f) \in Nat /\ \A i \in 1..Len(f) : f[i] \in Nat
      /\ DigitParts[f] = PartsOf(f)
  BY NameIs
<1>1. Begin(<<b, e>>) = b /\ End(<<b, e>>) = e
  BY DEF Begin, End
<1>2. <<b, e>> \in (1..Len(f)) \X (1..Len(f)) /\ b <= e
  BY <1>0
<1>3. \A c \in Nat : IsDigit(c) <=> c \in Digit
  BY DigitNat
<1>4. \A i \in b..e : IsDigit(f[i])
  <2>1. \A i \in b..e : f[i] \in Nat
    BY <1>0
  <2>2. QED
    BY <1>3, <2>1, Zenon
<1>5. b > 1 => ~IsDigit(f[b - 1])
  <2>1. b > 1 => f[b - 1] \in Nat
    BY <1>0
  <2>2. QED
    BY <1>3, <2>1, Zenon
<1>6. e < Len(f) => ~IsDigit(f[e + 1])
  <2>1. e < Len(f) => f[e + 1] \in Nat
    BY <1>0
  <2>2. QED
    BY <1>3, <2>1, Zenon
<1>7. <<b, e>> \in PartsOf(f)
  BY <1>1, <1>2, <1>4, <1>5, <1>6, Zenon DEF PartsOf
<1>8. QED
  BY <1>0, <1>1, <1>7, Zenon

\* Two parts of a name do not touch.
LEMMA PartsApart ==
  ASSUME NEW f \in Names, NEW r \in DigitParts[f], NEW s \in DigitParts[f]
  PROVE  /\ Begin(r) = Begin(s) => r = s
         /\ Begin(r) < Begin(s) => End(r) + 1 < Begin(s)
<1> DEFINE a == Begin(r)
           b == End(r)
           c == Begin(s)
           d == End(s)
<1> HIDE DEF a, b, c, d
<1>1. /\ r = <<a, b>> /\ a \in Nat /\ b \in Nat /\ 1 <= a /\ a <= b /\ b <= Len(f)
      /\ \A i \in a..b : f[i] \in Digit
      /\ b < Len(f) => f[b + 1] \notin Digit
  BY PartIs DEF a, b
<1>2. /\ s = <<c, d>> /\ c \in Nat /\ d \in Nat /\ 1 <= c /\ c <= d /\ d <= Len(f)
      /\ \A i \in c..d : f[i] \in Digit
      /\ d < Len(f) => f[d + 1] \notin Digit
      /\ c > 1 => f[c - 1] \notin Digit
  BY PartIs DEF c, d
<1>3. Len(f) \in Nat
  BY NameIs
<1>4. ASSUME a = c PROVE b = d
  <2>1. ~(b < d)
    <3>1. b < d => b + 1 \in c..d /\ b < Len(f)
      BY <1>1, <1>2, <1>3, <1>4
    <3>2. QED
      BY <1>1, <1>2, <3>1
  <2>2. ~(d < b)
    <3>1. d < b => d + 1 \in a..b /\ d < Len(f)
      BY <1>1, <1>2, <1>3, <1>4
    <3>2. QED
      BY <1>1, <1>2, <3>1
  <2>3. QED
    BY <1>1, <1>2, <2>1, <2>2
<1>5. ASSUME a < c PROVE b + 1 < c
  <2>1. ~(c - 1 \in a..b)
    BY <1>1, <1>2, <1>5
  <2>2. QED
    BY <1>1, <1>2, <1>5, <2>1
<1>6. QED
  BY <1>1, <1>2, <1>4, <1>5 DEF a, b, c, d

\* A digit that follows no digit begins a part.
LEMMA RunExists ==
  ASSUME NEW f \in Names, NEW b \in 1..Len(f), NEW m \in b..Len(f),
         \A i \in b..m : f[i] \in Digit,
         b > 1 => f[b - 1] \notin Digit
  PROVE  \E t \in DigitParts[f] : Begin(t) = b /\ End(t) >= m
<1>0. Len(f) \in Nat
  BY NameIs
<1> DEFINE T == {k \in Nat : m <= k /\ (k < Len(f) => f[k + 1] \notin Digit)}
<1>1. PICK k \in T : \A j \in T : k <= j
  <2>1. Len(f) \in T
    BY <1>0
  <2>2. T \in SUBSET Nat /\ T # {}
    BY <2>1
  <2> HIDE DEF T
  <2>3. QED
    BY <2>2, LeastExists
<1>2. k <= Len(f)
  BY <1>0, <1>1
<1>3. ASSUME NEW i \in b..k PROVE f[i] \in Digit
  <2>1. CASE i <= m
    BY <2>1, <1>0
  <2>2. CASE i > m
    <3>1. i - 1 \in Nat /\ m <= i - 1 /\ i - 1 < Len(f) /\ i - 1 < k /\ (i - 1) + 1 = i
      BY <1>0, <1>1, <1>2, <2>2
    <3>2. i - 1 \notin T
      BY <1>1, <3>1
    <3>3. QED
      BY <3>1, <3>2
  <2>3. QED
    BY <1>0, <2>1, <2>2
<1>4. k \in b..Len(f) /\ (k < Len(f) => f[k + 1] \notin Digit)
  BY <1>0, <1>1, <1>2
<1>5. <<b, k>> \in DigitParts[f] /\ Begin(<<b, k>>) = b /\ End(<<b, k>>) = k
  <2> HIDE DEF T
  <2>1. QED
    BY <1>3, <1>4, PartMember
<1>6. QED
  BY <1>1, <1>5

LEMMA RightmostIs ==
  ASSUME NEW f \in Names, NEW T, T \subseteq DigitParts[f], T # {}
  PROVE  Rightmost(T) \in T /\ \A s \in T : Begin(s) <= Begin(Rightmost(T))
<1> DEFINE G == {Len(f) - Begin(r) : r \in T}
<1>1. \A r \in T : Begin(r) \in Nat /\ Begin(r) <= Len(f)
  BY PartIs, NameIs
<1>2. Len(f) \in Nat
  BY NameIs
<1>3. G \in SUBSET Nat /\ G # {}
  BY <1>1, <1>2
<1>4. PICK d \in G : \A x \in G : d <= x
  BY <1>3, LeastExists
<1>5. PICK r \in T : d = Len(f) - Begin(r)
  OBVIOUS
<1>6. \A s \in T : Begin(s) <= Begin(r)
  <2> TAKE s \in T
  <2>1. Len(f) - Begin(s) \in G
    OBVIOUS
  <2>2. Len(f) - Begin(r) <= Len(f) - Begin(s)
    BY <1>4, <1>5, <2>1
  <2>3. QED
    BY <1>1, <1>2, <2>2
<1>7. QED
  BY <1>6, Zenon DEF Rightmost

LEMMA LeftmostIs ==
  ASSUME NEW f \in Names, NEW T, T \subseteq DigitParts[f], T # {}
  PROVE  Leftmost(T) \in T /\ \A s \in T : Begin(Leftmost(T)) <= Begin(s)
<1> DEFINE G == {Begin(r) : r \in T}
<1>1. \A r \in T : Begin(r) \in Nat
  BY PartIs
<1>2. G \in SUBSET Nat /\ G # {}
  BY <1>1
<1>3. PICK d \in G : \A x \in G : d <= x
  BY <1>2, LeastExists
<1>4. PICK r \in T : d = Begin(r)
  OBVIOUS
<1>5. \A s \in T : Begin(r) <= Begin(s)
  BY <1>3, <1>4
<1>6. QED
  BY <1>5, Zenon DEF Leftmost

\* What stands at the places b..e of a name.
LEMMA StretchIs ==
  ASSUME NEW f \in Names, NEW b \in Nat \ {0}, NEW e \in Nat, e <= Len(f)
  PROVE  /\ SubSeq(f, b, e) \in Seq(Nat)
         /\ Len(SubSeq(f, b, e)) = IF b <= e THEN e - b + 1 ELSE 0
         /\ \A i \in 1..(e - b + 1) : SubSeq(f, b, e)[i] = f[b + i - 1]
<1>1. \A i \in b..e : f[i] \in Nat
  BY NameIs
<1>2. b \in Int /\ e \in Int
  OBVIOUS
<1>3. QED
  BY <1>1, <1>2, SubSeqProperties

LEMMA StretchNumeral ==
  ASSUME NEW f \in Names, NEW b \in Nat \ {0}, NEW e \in Nat, e <= Len(f), b <= e,
         \A i \in b..e : f[i] \in Digit
  PROVE  SubSeq(f, b, e) \in Numeral
<1>1. b \in Int /\ e \in Int
  OBVIOUS
<1>2. SubSeq(f, b, e) \in Seq(Digit) /\ Len(SubSeq(f, b, e)) = e - b + 1
  BY <1>1, SubSeqProperties
<1>3. SubSeq(f, b, e) # <<>>
  BY <1>2, EmptySeq
<1>4. QED
  BY <1>2, <1>3 DEF Numeral

LEMMA PartNumeral ==
  ASSUME NEW f \in Names, NEW r \in DigitParts[f]
  PROVE  /\ Part(f, r) \in Numeral /\ Part(f, r) \in Seq(Nat)
         /\ Len(Part(f, r)) = Width(r) /\ Width(r) = End(r) - Begin(r) + 1 /\ Width(r) \in Nat \ {0}
         /\ \A i \in 1..Width(r) : Part(f, r)[i] = f[Begin(r) + i - 1]
         /\ Value(Part(f, r)) \in Nat
<1>1. /\ Begin(r) \in Nat \ {0} /\ End(r) \in Nat /\ Begin(r) <= End(r) /\ End(r) <= Len(f)
      /\ \A i \in Begin(r)..End(r) : f[i] \in Digit
  BY PartIs
<1>2. Part(f, r) \in Numeral
  BY <1>1, StretchNumeral DEF Part
<1>3. /\ Part(f, r) \in Seq(Nat) /\ Len(Part(f, r)) = End(r) - Begin(r) + 1
      /\ \A i \in 1..(End(r) - Begin(r) + 1) : Part(f, r)[i] = f[Begin(r) + i - 1]
  BY <1>1, StretchIs DEF Part
<1>4. QED
  BY <1>1, <1>2, <1>3, ValueType DEF Width

LEMMA PrefixIs ==
  ASSUME NEW p \in Seq(Nat), NEW f \in Seq(Nat)
  PROVE  IsPrefix(p, f) <=> Begins(f, p)
<1> DEFINE n == Len(p)
<1>1. n \in Nat /\ Len(f) \in Nat
  BY LenProperties
<1>2. SubSeq(p, 1, n) = p
  BY SubSeqFull
<1>3. ASSUME n <= Len(f)
      PROVE  /\ SubSeq(f, 1, n) \in Seq(Nat) /\ Len(SubSeq(f, 1, n)) = n
             /\ \A i \in 1..n : SubSeq(f, 1, n)[i] = f[i]
  <2>1. \A i \in 1..n : f[i] \in Nat
    BY <1>1, <1>3, ElementOfSeq
  <2>2. /\ SubSeq(f, 1, n) \in Seq(Nat) /\ Len(SubSeq(f, 1, n)) = IF 1 <= n THEN n - 1 + 1 ELSE 0
        /\ \A i \in 1..(n - 1 + 1) : SubSeq(f, 1, n)[i] = f[1 + i - 1]
    BY <1>1, <2>1, SubSeqProperties
  <2>3. QED
    BY <1>1, <2>2
<1>4. ASSUME n <= Len(f) PROVE p = SubSeq(f, 1, n) <=> \A i \in 1..n : f[i] = p[i]
  <2>1. PICK x \in Seq(Nat) : x = SubSeq(f, 1, n) /\ Len(x) = n /\ \A i \in 1..n : x[i] = f[i]
    BY <1>3, <1>4, Zenon
  <2>2. ASSUME \A i \in 1..n : f[i] = p[i] PROVE p = x
    BY <2>1, <2>2, SeqEqual
  <2>3. QED
    BY <2>1, <2>2
<1>5. QED
  BY <1>2, <1>4 DEF IsPrefix, Begins

LEMMA BeginsConcat ==
  ASSUME NEW x \in Seq(Nat), NEW y \in Seq(Nat), NEW f \in Seq(Nat)
  PROVE  Begins(f, x \o y) <=> /\ Begins(f, x) /\ Len(x) + Len(y) <= Len(f)
                               /\ \A i \in 1..Len(y) : f[Len(x) + i] = y[i]
<1>1. /\ Len(x) \in Nat /\ Len(y) \in Nat /\ Len(f) \in Nat
  BY LenProperties
<1>2. /\ x \o y \in Seq(Nat) /\ Len(x \o y) = Len(x) + Len(y)
      /\ \A i \in 1..(Len(x) + Len(y)) : (x \o y)[i] = IF i <= Len(x) THEN x[i] ELSE y[i - Len(x)]
  BY ConcatProperties
<1>3. PICK z \in Seq(Nat) :
        /\ z = x \o y /\ Len(z) = Len(x) + Len(y)
        /\ \A i \in 1..(Len(x) + Len(y)) : z[i] = IF i <= Len(x) THEN x[i] ELSE y[i - Len(x)]
  BY <1>2, Zenon
<1> DEFINE m == Len(x)
           n == Len(y)
<1> HIDE DEF m, n
<1>4. /\ m \in Nat /\ n \in Nat /\ Len(z) = m + n
      /\ \A i \in 1..(m + n) : z[i] = IF i <= m THEN x[i] ELSE y[i - m]
  BY <1>1, <1>3 DEF m, n
<1>5. (\A i \in 1..m : z[i] = x[i]) /\ (\A i \in 1..n : z[m + i] = y[i])
  <2>1. ASSUME NEW i \in 1..m PROVE z[i] = x[i]
    BY <1>4
  <2>2. ASSUME NEW i \in 1..n PROVE z[m + i] = y[i]
    <3>1. m + i \in 1..(m + n) /\ ~(m + i <= m) /\ (m + i) - m = i
      BY <1>4
    <3>2. QED
      BY <1>4, <3>1
  <2>3. QED
    BY <2>1, <2>2
<1>6. /\ Begins(f, x) <=> m <= Len(f) /\ \A i \in 1..m : f[i] = x[i]
      /\ Begins(f, z) <=> m + n <= Len(f) /\ \A i \in 1..(m + n) : f[i] = z[i]
  BY <1>4, Zenon DEF Begins, m
<1>7. ASSUME m + n <= Len(f), \A i \in 1..(m + n) : f[i] = z[i]
      PROVE  m <= Len(f) /\ (\A i \in 1..m : f[i] = x[i]) /\ \A i \in 1..n : f[m + i] = y[i]
  <2>1. ASSUME NEW i \in 1..m PROVE f[i] = x[i]
    BY <1>4, <1>5, <1>7, SMTT(20)
  <2>2. ASSUME NEW i \in 1..n PROVE f[m + i] = y[i]
    <3>1. m + i \in 1..(m + n)
      BY <1>4
    <3>2. QED
      BY <1>5, <1>7, <3>1
  <2>3. m <= Len(f)
    BY <1>1, <1>4, <1>7
  <2>4. QED
    BY <2>1, <2>2, <2>3, Zenon
<1>8. ASSUME m <= Len(f), \A i \in 1..m : f[i] = x[i], m + n <= Len(f), \A i \in 1..n : f[m + i] = y[i]
      PROVE  \A i \in 1..(m + n) : f[i] = z[i]
  <2>1. ASSUME NEW i \in 1..(m + n) PROVE f[i] = z[i]
    <3>1. CASE i <= m
      <4>1. i \in 1..m
        BY <1>4, <3>1
      <4>2. QED
        BY <1>5, <1>8, <4>1
    <3>2. CASE i > m
      <4>1. i - m \in 1..n /\ m + (i - m) = i
        BY <1>4, <3>2
      <4>2. z[m + (i - m)] = y[i - m]
        BY <1>5, <4>1
      <4>3. f[m + (i - m)] = y[i - m]
        BY <1>8, <4>1
      <4>4. QED
        BY <4>1, <4>2, <4>3
    <3>3. QED
      BY <1>4, <3>1, <3>2
  <2>2. QED
    BY <2>1
<1>9. QED
  <2>1. Begins(f, z) <=> /\ Begins(f, x) /\ m + n <= Len(f) /\ \A i \in 1..n : f[m + i] = y[i]
    BY <1>6, <1>7, <1>8, Zenon
  <2>2. QED
    BY <1>3, <2>1, Zenon DEF m, n

\* f and g are the same at the places 1..n.
Agree(f, g, n) == \A i \in 1..n : f[i] = g[i]

HeadFacts(f, g, b, y) ==
  /\ SubSeq(f, 1, b - 1) \o y \in Seq(Nat)
  /\ Len(SubSeq(f, 1, b - 1) \o y) = b - 1 + Len(y)
  /\ Begins(g, SubSeq(f, 1, b - 1) \o y) <=>
       /\ Agree(f, g, b - 1) /\ b - 1 + Len(y) <= Len(g)
       /\ \A i \in 1..Len(y) : g[b - 1 + i] = y[i]

LEMMA HeadIs ==
  ASSUME NEW f \in Names, NEW g \in Names, NEW b \in Nat \ {0}, b <= Len(f), NEW y \in Seq(Nat)
  PROVE  HeadFacts(f, g, b, y)
<1>1. Len(f) \in Nat /\ Len(g) \in Nat /\ g \in Seq(Nat) /\ Len(y) \in Nat /\ b - 1 \in Nat /\ b - 1 <= Len(f)
  BY NameIs, LenProperties
<1>2. /\ SubSeq(f, 1, b - 1) \in Seq(Nat)
      /\ Len(SubSeq(f, 1, b - 1)) = IF 1 <= b - 1 THEN b - 1 - 1 + 1 ELSE 0
      /\ \A i \in 1..(b - 1 - 1 + 1) : SubSeq(f, 1, b - 1)[i] = f[1 + i - 1]
  <2>1. 1 \in Nat \ {0}
    OBVIOUS
  <2>2. QED
    BY <1>1, <2>1, StretchIs, Zenon
<1>3. PICK x \in Seq(Nat) :
        /\ x = SubSeq(f, 1, b - 1) /\ Len(x) = b - 1 /\ \A i \in 1..(b - 1) : x[i] = f[i]
  <2>1. Len(SubSeq(f, 1, b - 1)) = b - 1
    BY <1>1, <1>2
  <2>2. \A i \in 1..(b - 1) : SubSeq(f, 1, b - 1)[i] = f[i]
    BY <1>1, <1>2
  <2>3. QED
    BY <1>2, <2>1, <2>2, Zenon
<1>4. x \o y \in Seq(Nat) /\ Len(x \o y) = b - 1 + Len(y)
  BY <1>3, ConcatProperties
<1>5. Begins(g, x \o y) <=> /\ Begins(g, x) /\ b - 1 + Len(y) <= Len(g)
                            /\ \A i \in 1..Len(y) : g[b - 1 + i] = y[i]
  <2>1. Begins(g, x \o y) <=> /\ Begins(g, x) /\ Len(x) + Len(y) <= Len(g)
                              /\ \A i \in 1..Len(y) : g[Len(x) + i] = y[i]
    BY <1>1, BeginsConcat, Zenon
  <2>2. QED
    BY <1>3, <2>1, Zenon
<1>6. Begins(g, x) <=> b - 1 <= Len(g) /\ Agree(f, g, b - 1)
  <2>1. Begins(g, x) <=> b - 1 <= Len(g) /\ \A i \in 1..(b - 1) : g[i] = x[i]
    BY <1>3, Zenon DEF Begins
  <2>2. QED
    BY <1>3, <2>1 DEF Agree
<1>7. b - 1 + Len(y) <= Len(g) => b - 1 <= Len(g)
  BY <1>1
<1>8. /\ SubSeq(f, 1, b - 1) \o y \in Seq(Nat)
      /\ Len(SubSeq(f, 1, b - 1) \o y) = b - 1 + Len(y)
      /\ Begins(g, SubSeq(f, 1, b - 1) \o y) <=>
           /\ Agree(f, g, b - 1) /\ b - 1 + Len(y) <= Len(g)
           /\ \A i \in 1..Len(y) : g[b - 1 + i] = y[i]
  BY <1>3, <1>4, <1>5, <1>6, <1>7, Zenon
<1>9. QED
  BY <1>8, Zenon DEF HeadFacts

LEMMA HeadBegins ==
  ASSUME NEW f \in Names, NEW g \in Names, NEW b \in Nat \ {0}, b <= Len(f), NEW y \in Seq(Nat)
  PROVE  /\ SubSeq(f, 1, b - 1) \o y \in Seq(Nat)
         /\ Len(SubSeq(f, 1, b - 1) \o y) = b - 1 + Len(y)
         /\ Begins(g, SubSeq(f, 1, b - 1) \o y) <=>
              /\ Agree(f, g, b - 1) /\ b - 1 + Len(y) <= Len(g)
              /\ \A i \in 1..Len(y) : g[b - 1 + i] = y[i]
<1>1. HeadFacts(f, g, b, y)
  BY HeadIs, Zenon
<1>2. QED
  BY <1>1, Zenon DEF HeadFacts

\* Where the range of a shorter number begins.
LEMMA ShortenedIs ==
  ASSUME NEW f \in Names, NEW r \in DigitParts[f], NEW n \in Nat \ {0}
  PROVE  /\ End(Shortened(r, n)) = End(r) /\ Begin(Shortened(r, n)) \in Nat \ {0}
         /\ Begin(r) <= Begin(Shortened(r, n)) /\ Begin(Shortened(r, n)) <= End(r)
         /\ n <= Width(r) => Begin(Shortened(r, n)) = End(r) - n + 1
         /\ Width(r) <= n => Shortened(r, n) = r
<1>1. /\ Begin(r) \in Nat /\ End(r) \in Nat /\ 1 <= Begin(r) /\ Begin(r) <= End(r)
  BY PartIs
<1>2. Width(r) = End(r) - Begin(r) + 1
  BY DEF Width
<1>3. CASE n < Width(r)
  <2>1. Shortened(r, n) = <<End(r) - n + 1, End(r)>>
    BY <1>3 DEF Shortened
  <2>2. Begin(Shortened(r, n)) = End(r) - n + 1 /\ End(Shortened(r, n)) = End(r)
    BY <2>1 DEF Begin, End
  <2>3. QED
    BY <1>1, <1>2, <1>3, <2>2
<1>4. CASE ~(n < Width(r))
  <2>1. Shortened(r, n) = r
    BY <1>4 DEF Shortened
  <2>2. QED
    BY <1>1, <1>2, <1>4, <2>1
<1>5. QED
  BY <1>3, <1>4

\* Before as many last digits as its value has, a part has zeros.
LEMMA ZerosBefore ==
  ASSUME NEW f \in Names, NEW r \in DigitParts[f], NEW n \in Nat,
         Len(Digits(Value(Part(f, r)))) <= n, NEW i \in Begin(r)..(End(r) - n)
  PROVE  f[i] = 0
<1> DEFINE s == Part(f, r)
           t == Digits(Value(s))
           b == Begin(r)
           e == End(r)
<1>1. b \in Nat /\ e \in Nat /\ b <= e
  BY PartIs
<1>2. /\ s \in Numeral /\ Len(s) = e - b + 1 /\ Value(s) \in Nat
      /\ \A j \in 1..(e - b + 1) : s[j] = f[b + j - 1]
  BY PartNumeral
<1>3. Pads(s, t)
  BY <1>2, Canonical
<1>4. Len(t) \in Nat \ {0} /\ Len(t) <= n
  BY <1>2, DigitsNumeral
<1> HIDE DEF s, t, b, e
<1>5. i - b + 1 \in 1..(e - b + 1) /\ i - b + 1 <= (e - b + 1) - Len(t) /\ b + (i - b + 1) - 1 = i
  BY <1>1, <1>4 DEF b, e
<1>6. s[i - b + 1] = 0
  <2>1. \A j \in 1..Len(s) : s[j] = IF j <= Len(s) - Len(t) THEN 0 ELSE t[j - (Len(s) - Len(t))]
    BY <1>3, Zenon DEF Pads
  <2>2. QED
    BY <1>2, <1>5, <2>1
<1>7. QED
  BY <1>2, <1>5, <1>6

LEMMA PadsAt ==
  ASSUME NEW s, NEW t, NEW m \in Nat, NEW n \in Nat, m = Len(s), n = Len(t), n <= m
  PROVE  Pads(s, t) <=> \A i \in 1..m : s[i] = IF i <= m - n THEN 0 ELSE t[i - (m - n)]
BY Zenon DEF Pads

\* f up to a number, with the numeral d at its last places.
Start(f, r, d) == Before(f, Shortened(r, Len(d))) \o d

\* Which names begin with a prefix that the searches make: those that agree with f up
\* to its number and have the value of d in its place.
THEOREM StartMatches ==
  ASSUME NEW f \in Names, NEW g \in Names, NEW r \in DigitParts[f], r \in DigitParts[g],
         NEW d \in Numeral,
         Len(Digits(Value(Part(f, r)))) <= Len(d),
         Len(d) <= Width(r) \/ d = Digits(Value(d))
  PROVE  /\ Begins(g, Start(f, r, d)) <=> Agree(f, g, Begin(r) - 1) /\ Value(Part(g, r)) = Value(d)
         /\ Begins(g, Start(f, r, d)) => Len(Start(f, r, d)) = End(r)
         /\ Start(f, r, d) \in Seq(Nat)
<1> DEFINE n == Len(d)
           q == Shortened(r, n)
           b == Begin(r)
           e == End(r)
           c == Begin(q)
           s == Part(g, r)
<1>1. /\ b \in Nat \ {0} /\ e \in Nat /\ b <= e /\ e <= Len(f) /\ e <= Len(g)
      /\ e < Len(g) => g[e + 1] \notin Digit
      /\ Len(f) \in Nat /\ Len(g) \in Nat
  <2>1. Len(f) \in Nat /\ Len(g) \in Nat
    BY NameIs
  <2>2. b \in Nat \ {0} /\ e \in Nat /\ b <= e /\ e <= Len(f)
    BY PartIs
  <2>3. e <= Len(g) /\ (e < Len(g) => g[e + 1] \notin Digit)
    BY PartIs
  <2>4. QED
    BY <2>1, <2>2, <2>3, Zenon
<1>2. d \in Seq(Nat) /\ d \in Seq(Digit) /\ n \in Nat \ {0} /\ \A i \in 1..n : d[i] \in Digit
  <2>1. d \in Seq(Digit) /\ d # <<>>
    BY DEF Numeral
  <2>2. QED
    BY <2>1, DigitNat, EmptySeq, LenProperties, ElementOfSeq
<1>3. /\ c \in Nat \ {0} /\ b <= c /\ c <= e
      /\ n <= Width(r) => c = e - n + 1
      /\ Width(r) <= n => c = b
  BY <1>2, ShortenedIs
<1>4. Width(r) = e - b + 1
  BY DEF Width
<1>5. Start(f, r, d) = SubSeq(f, 1, c - 1) \o d
  BY DEF Start, Before
<1>6. /\ Start(f, r, d) \in Seq(Nat)
      /\ Len(Start(f, r, d)) = c - 1 + n
      /\ Begins(g, Start(f, r, d)) <=>
           Agree(f, g, c - 1) /\ c - 1 + n <= Len(g) /\ \A i \in 1..n : g[c - 1 + i] = d[i]
  <2>1. c <= Len(f)
    BY <1>1, <1>3
  <2>2. QED
    <3> HIDE DEF n, q, b, e, c, s
    <3>0. c \in Nat \ {0} /\ d \in Seq(Nat)
      BY <1>2, <1>3
    <3>1. HeadFacts(f, g, c, d)
      BY <2>1, <3>0, HeadIs, Zenon
    <3>2. QED
      BY <1>5, <3>1, Zenon DEF n, HeadFacts
<1>7. /\ s \in Numeral /\ Len(s) = e - b + 1
      /\ \A i \in 1..(e - b + 1) : s[i] = g[b + i - 1]
  BY PartNumeral, <1>4
<1> HIDE DEF n, q, b, e, c, s
<1>8. CASE n <= e - b + 1
  <2>1. c = e - n + 1
    BY <1>3, <1>4, <1>8
  <2>2. Value(s) = Value(d) <=> Pads(s, d)
    BY <1>7, <1>8, PadsIs DEF n
  <2>3. Pads(s, d) <=> \A i \in 1..(e - b + 1) : s[i] = IF i <= (e - b + 1) - n THEN 0 ELSE d[i - ((e - b + 1) - n)]
    <3> DEFINE w == e - b + 1
    <3>1. w \in Nat /\ n \in Nat /\ w = Len(s) /\ n = Len(d) /\ n <= w
      BY <1>1, <1>2, <1>7, <1>8 DEF n
    <3> HIDE DEF w
    <3>2. Pads(s, d) <=> \A i \in 1..w : s[i] = IF i <= w - n THEN 0 ELSE d[i - (w - n)]
      BY <3>1, PadsAt, SMTT(20)
    <3>3. QED
      BY <3>2, Zenon DEF w
  <2>4. \A i \in b..(e - n) : f[i] = 0
    BY <1>2, ZerosBefore DEF b, e, n
  <2>5. ASSUME Agree(f, g, c - 1), \A i \in 1..n : g[c - 1 + i] = d[i]
        PROVE  Agree(f, g, b - 1)
               /\ \A i \in 1..(e - b + 1) : s[i] = IF i <= (e - b + 1) - n THEN 0 ELSE d[i - ((e - b + 1) - n)]
    <3>1. Agree(f, g, b - 1)
      BY <1>1, <1>3, <2>5 DEF Agree
    <3>2. ASSUME NEW i \in 1..(e - b + 1), i <= (e - b + 1) - n PROVE s[i] = 0
      <4>1. b + i - 1 \in b..(e - n) /\ b + i - 1 \in 1..(c - 1)
        BY <1>1, <1>2, <2>1, <3>2, SMTT(20)
      <4>2. f[b + i - 1] = g[b + i - 1]
        BY <2>5, <4>1 DEF Agree
      <4>3. QED
        BY <1>7, <2>4, <4>1, <4>2
    <3>3. ASSUME NEW i \in 1..(e - b + 1), ~(i <= (e - b + 1) - n) PROVE s[i] = d[i - ((e - b + 1) - n)]
      <4>1. /\ i - ((e - b + 1) - n) \in 1..n
            /\ c - 1 + (i - ((e - b + 1) - n)) = b + i - 1
        BY <1>1, <1>2, <2>1, <3>3
      <4>2. g[c - 1 + (i - ((e - b + 1) - n))] = d[i - ((e - b + 1) - n)]
        BY <2>5, <4>1
      <4>3. QED
        BY <1>7, <4>1, <4>2
    <3>4. QED
      BY <3>1, <3>2, <3>3
  <2>6. ASSUME Agree(f, g, b - 1),
               \A i \in 1..(e - b + 1) : s[i] = IF i <= (e - b + 1) - n THEN 0 ELSE d[i - ((e - b + 1) - n)]
        PROVE  Agree(f, g, c - 1) /\ \A i \in 1..n : g[c - 1 + i] = d[i]
    <3>1. ASSUME NEW i \in 1..(c - 1) PROVE f[i] = g[i]
      <4>1. CASE i <= b - 1
        <5>1. i \in 1..(b - 1)
          BY <1>1, <4>1
        <5>2. QED
          BY <2>6, <5>1 DEF Agree
      <4>2. CASE ~(i <= b - 1)
        <5>1. /\ i - b + 1 \in 1..(e - b + 1) /\ i - b + 1 <= (e - b + 1) - n
              /\ b + (i - b + 1) - 1 = i /\ i \in b..(e - n)
          BY <1>1, <1>2, <1>3, <2>1, <4>2
        <5>2. s[i - b + 1] = 0
          BY <2>6, <5>1
        <5>3. s[i - b + 1] = g[i]
          BY <1>7, <5>1
        <5>4. QED
          BY <2>4, <5>1, <5>2, <5>3
      <4>3. QED
        BY <4>1, <4>2
    <3>2. ASSUME NEW i \in 1..n PROVE g[c - 1 + i] = d[i]
      <4>1. /\ c - b + i \in 1..(e - b + 1) /\ ~(c - b + i <= (e - b + 1) - n)
            /\ c - b + i - ((e - b + 1) - n) = i /\ b + (c - b + i) - 1 = c - 1 + i
        BY <1>1, <1>2, <1>3, <2>1
      <4>2. s[c - b + i] = d[i]
        <5> DEFINE k == c - b + i
        <5> HIDE DEF k
        <5>1. k \in 1..(e - b + 1) /\ ~(k <= (e - b + 1) - n) /\ k - ((e - b + 1) - n) = i
          BY <1>1, <1>2, <1>3, <2>1 DEF k
        <5>2. s[k] = d[k - ((e - b + 1) - n)]
          BY <2>6, <5>1, Zenon
        <5>3. QED
          BY <5>1, <5>2, Zenon DEF k
      <4>3. QED
        BY <1>7, <4>1, <4>2
    <3>3. QED
      BY <3>1, <3>2 DEF Agree
  <2>7. c - 1 + n = e /\ c - 1 + n <= Len(g)
    BY <1>1, <1>2, <2>1
  <2>8. QED
    BY <1>6, <2>2, <2>3, <2>5, <2>6, <2>7, Zenon DEF b, e, s
<1>9. CASE ~(n <= e - b + 1)
  <2>1. c = b /\ ~(n <= Width(r)) /\ e - b + 2 \in 1..n /\ c - 1 + (e - b + 2) = e + 1
    BY <1>1, <1>2, <1>3, <1>4, <1>9
  <2>2. ~Begins(g, Start(f, r, d))
    <3>1. ASSUME Begins(g, Start(f, r, d)) PROVE FALSE
      <4>1. c - 1 + n <= Len(g) /\ g[e + 1] = d[e - b + 2]
        BY <1>6, <2>1, <3>1
      <4>2. e < Len(g) /\ g[e + 1] \in Digit
        BY <1>1, <1>2, <1>3, <1>9, <2>1, <4>1
      <4>3. QED
        BY <1>1, <4>2
    <3>2. QED
      BY <3>1
  <2>3. Value(s) # Value(d)
    <3>1. Len(Digits(Value(s))) <= e - b + 1
      BY <1>7, DigitsFit
    <3>2. d = Digits(Value(d))
      BY <2>1 DEF n
    <3>3. ASSUME Value(s) = Value(d) PROVE FALSE
      <4>1. Digits(Value(s)) = d
        BY <3>2, <3>3, Zenon
      <4>2. n <= e - b + 1
        BY <3>1, <4>1, Zenon DEF n
      <4>3. QED
        BY <1>9, <4>2
    <3>4. QED
      BY <3>3
  <2>4. QED
    BY <1>6, <2>2, <2>3, Zenon DEF s
<1>10. QED
  BY <1>8, <1>9

-----------------------------------------------------------------------------
(* What the searches find                                                  *)

LEMMA MinIs ==
  ASSUME NEW T \in SUBSET Nat, T # {}
  PROVE  Min(T) \in T /\ \A x \in T : Min(T) <= x
<1>1. PICK x \in T : \A y \in T : x <= y
  BY LeastExists
<1>2. QED
  BY <1>1, Zenon DEF Min

LEMMA MinOne ==
  ASSUME NEW T \in SUBSET Nat, NEW x \in T, \A y \in T : x <= y
  PROVE  Min(T) = x
<1>1. T # {}
  OBVIOUS
<1>2. Min(T) \in T /\ Min(T) <= x
  BY <1>1, MinIs
<1>3. x <= Min(T) /\ x \in Nat /\ Min(T) \in Nat
  BY <1>2
<1>4. QED
  BY <1>2, <1>3

LEMMA RightmostHit ==
  ASSUME NEW f \in Names, NEW T, T \subseteq DigitParts[f], NEW r \in T,
         \A s \in T : s \notin RightOf(f, r)
  PROVE  Rightmost(T) = r
<1>1. Rightmost(T) \in T /\ Begin(r) <= Begin(Rightmost(T))
  BY RightmostIs
<1>2. Rightmost(T) \in DigitParts[f] /\ r \in DigitParts[f]
  BY <1>1
<1>3. Begin(r) \in Nat /\ Begin(Rightmost(T)) \in Nat
  BY <1>2, PartIs
<1>4. ~(Begin(Rightmost(T)) > Begin(r))
  BY <1>1, <1>2 DEF RightOf
<1>5. QED
  BY <1>1, <1>2, <1>3, <1>4, PartsApart

\* What each number of the name finds.
NextFound(dir, f, r) ==
  IF Value(Part(f, r)) = MaxInt THEN {NoFile} ELSE FirstFound(dir, NextPrefixes(f, r))

PrevFound(dir, f, r) ==
  IF ValueOrZero(Part(f, r)) <= 1 THEN {}
  ELSE IF PrevLast(f, r) # <<>> /\ ValueOrZero(Part(f, PrevLast(f, r))) = 1
  THEN PrevSeason(dir, f, r)
  ELSE FirstFound(dir, PrevPrefixes(f, r))

NextHits(dir, f) == {r \in DigitParts[f] : NextFound(dir, f, r) # {}}
PrevHits(dir, f) == {r \in DigitParts[f] : PrevFound(dir, f, r) # {}}

LEMMA NextIs ==
  ASSUME NEW dir, NEW f \in Names
  PROVE  /\ SearchNext(dir, f) = IF NextHits(dir, f) = {} THEN {}
                                 ELSE NextFound(dir, f, Rightmost(NextHits(dir, f)))
         /\ NextHits(dir, f) # {} => Rightmost(NextHits(dir, f)) \in DigitParts[f]
<1>1. SearchNext(dir, f) = IF NextHits(dir, f) = {} THEN {}
                           ELSE NextFound(dir, f, Rightmost(NextHits(dir, f)))
  BY Zenon DEF SearchNext, NextHits, NextFound
<1>2. NextHits(dir, f) \subseteq DigitParts[f]
  BY DEF NextHits
<1>3. NextHits(dir, f) # {} => Rightmost(NextHits(dir, f)) \in NextHits(dir, f)
  BY <1>2, RightmostIs, Zenon
<1>4. QED
  BY <1>1, <1>2, <1>3, Zenon

LEMMA NextAt ==
  ASSUME NEW dir, NEW f \in Names, NEW r \in DigitParts[f],
         \A s \in RightOf(f, r) : NextFound(dir, f, s) = {},
         NextFound(dir, f, r) # {} \/ \A s \in DigitParts[f] : s # r => NextFound(dir, f, s) = {}
  PROVE  SearchNext(dir, f) = NextFound(dir, f, r)
<1>1. CASE NextFound(dir, f, r) # {}
  <2>1. r \in NextHits(dir, f) /\ NextHits(dir, f) \subseteq DigitParts[f]
    BY <1>1 DEF NextHits
  <2>2. \A s \in NextHits(dir, f) : s \notin RightOf(f, r)
    BY DEF NextHits
  <2>3. Rightmost(NextHits(dir, f)) = r
    BY <2>1, <2>2, RightmostHit, Zenon
  <2>4. NextHits(dir, f) # {}
    BY <2>1
  <2>5. QED
    BY <2>3, <2>4, NextIs, Zenon
<1>2. CASE NextFound(dir, f, r) = {}
  <2>1. NextHits(dir, f) = {}
    BY <1>2, Zenon DEF NextHits
  <2>2. QED
    BY <1>2, <2>1, NextIs, Zenon
<1>3. QED
  BY <1>1, <1>2

LEMMA PrevIs ==
  ASSUME NEW dir, NEW f \in Names
  PROVE  /\ SearchPrevious(dir, f) = IF PrevHits(dir, f) = {} THEN {}
                                     ELSE PrevFound(dir, f, Rightmost(PrevHits(dir, f)))
         /\ PrevHits(dir, f) # {} => Rightmost(PrevHits(dir, f)) \in DigitParts[f]
<1>1. SearchPrevious(dir, f) = IF PrevHits(dir, f) = {} THEN {}
                               ELSE PrevFound(dir, f, Rightmost(PrevHits(dir, f)))
  BY Zenon DEF SearchPrevious, PrevHits, PrevFound
<1>2. PrevHits(dir, f) \subseteq DigitParts[f]
  BY DEF PrevHits
<1>3. PrevHits(dir, f) # {} => Rightmost(PrevHits(dir, f)) \in PrevHits(dir, f)
  BY <1>2, RightmostIs, Zenon
<1>4. QED
  BY <1>1, <1>2, <1>3, Zenon

LEMMA PrevAt ==
  ASSUME NEW dir, NEW f \in Names, NEW r \in DigitParts[f],
         \A s \in RightOf(f, r) : PrevFound(dir, f, s) = {},
         PrevFound(dir, f, r) # {} \/ \A s \in DigitParts[f] : s # r => PrevFound(dir, f, s) = {}
  PROVE  SearchPrevious(dir, f) = PrevFound(dir, f, r)
<1>1. CASE PrevFound(dir, f, r) # {}
  <2>1. r \in PrevHits(dir, f) /\ PrevHits(dir, f) \subseteq DigitParts[f]
    BY <1>1 DEF PrevHits
  <2>2. \A s \in PrevHits(dir, f) : s \notin RightOf(f, r)
    BY DEF PrevHits
  <2>3. Rightmost(PrevHits(dir, f)) = r
    BY <2>1, <2>2, RightmostHit, Zenon
  <2>4. PrevHits(dir, f) # {}
    BY <2>1
  <2>5. QED
    BY <2>3, <2>4, PrevIs, Zenon
<1>2. CASE PrevFound(dir, f, r) = {}
  <2>1. PrevHits(dir, f) = {}
    BY <1>2, Zenon DEF PrevHits
  <2>2. QED
    BY <1>2, <2>1, PrevIs, Zenon
<1>3. QED
  BY <1>1, <1>2

\* What several prefixes find.
LEMMA FoundOne == ASSUME NEW dir, NEW p PROVE FirstFound(dir, <<p>>) = Matching(dir, p)
<1> DEFINE hits == {i \in DOMAIN <<p>> : Matching(dir, <<p>>[i]) # {}}
<1>1. DOMAIN <<p>> = {1} /\ <<p>>[1] = p
  OBVIOUS
<1>2. CASE hits = {}
  <2>1. Matching(dir, p) = {}
    BY <1>1, <1>2
  <2>2. QED
    BY <1>2, <2>1 DEF FirstFound
<1>3. CASE hits # {}
  <2>1. hits = {1} /\ 1 \in Nat
    BY <1>1, <1>3
  <2>2. Min(hits) = 1
    <3> HIDE DEF hits
    <3>1. hits \in SUBSET Nat /\ 1 \in hits /\ \A y \in hits : 1 <= y
      BY <2>1
    <3>2. QED
      BY <3>1, MinOne, Zenon
  <2>3. QED
    BY <1>1, <1>3, <2>2 DEF FirstFound
<1>4. QED
  BY <1>2, <1>3

\* What stands first and has a match, or has no match before it.
LEMMA FoundAt ==
  ASSUME NEW dir, NEW prefixes, DOMAIN prefixes \subseteq Nat, NEW k \in DOMAIN prefixes,
         \A i \in DOMAIN prefixes : i < k => Matching(dir, prefixes[i]) = {},
         Matching(dir, prefixes[k]) # {} \/ \A i \in DOMAIN prefixes : i <= k
  PROVE  FirstFound(dir, prefixes) = Matching(dir, prefixes[k])
<1> DEFINE hits == {i \in DOMAIN prefixes : Matching(dir, prefixes[i]) # {}}
<1>1. CASE Matching(dir, prefixes[k]) # {}
  <2>1. hits \in SUBSET Nat /\ k \in hits /\ \A y \in hits : k <= y
    BY <1>1
  <2>2. Min(hits) = k
    <3> HIDE DEF hits
    <3>1. QED
      BY <2>1, MinOne, Zenon
  <2>3. hits # {}
    BY <2>1
  <2>4. QED
    BY <2>2, <2>3, Zenon DEF FirstFound
<1>2. CASE Matching(dir, prefixes[k]) = {}
  <2>1. hits = {}
    BY <1>2
  <2>2. QED
    BY <1>2, <2>1, Zenon DEF FirstFound
<1>3. QED
  BY <1>1, <1>2

LEMMA FoundIn ==
  ASSUME NEW dir, NEW prefixes, DOMAIN prefixes \subseteq Nat, NEW x \in FirstFound(dir, prefixes)
  PROVE  \E i \in DOMAIN prefixes : x \in Matching(dir, prefixes[i])
<1> DEFINE hits == {i \in DOMAIN prefixes : Matching(dir, prefixes[i]) # {}}
<1>1. hits # {} /\ x \in Matching(dir, prefixes[Min(hits)])
  BY DEF FirstFound
<1>2. hits \in SUBSET Nat
  OBVIOUS
<1>3. Min(hits) \in hits
  <2> HIDE DEF hits
  <2>1. QED
    BY <1>1, <1>2, MinIs
<1>4. QED
  BY <1>1, <1>3

LEMMA FoundSub == ASSUME NEW dir, NEW prefixes PROVE FirstFound(dir, prefixes) \subseteq dir
BY DEF FirstFound, Matching

LEMMA NextSub ==
  ASSUME NEW dir, NEW f \in Names, NEW x \in SearchNext(dir, f)
  PROVE  /\ x = NoFile \/ x \in dir
         /\ \E r \in DigitParts[f] : x \in NextFound(dir, f, r)
<1>1. NextHits(dir, f) # {} /\ x \in NextFound(dir, f, Rightmost(NextHits(dir, f)))
  BY NextIs
<1>2. \A r : NextFound(dir, f, r) \subseteq dir \cup {NoFile}
  BY FoundSub DEF NextFound
<1>3. QED
  BY <1>1, <1>2, NextIs

LEMMA PrevSub ==
  ASSUME NEW dir, NEW f \in Names
  PROVE  SearchPrevious(dir, f) \subseteq dir
<1>1. \A r : PrevSeason(dir, f, r) \subseteq dir
  BY DEF PrevSeason, LastOfSeason, Matching
<1>2. \A r : PrevFound(dir, f, r) \subseteq dir
  BY <1>1, FoundSub DEF PrevFound
<1>3. QED
  BY <1>2, PrevIs

-----------------------------------------------------------------------------
(* Types                                                                   *)

\* The directory and the history hold names; "no file" has not played.
EpisodeTypeOK ==
  /\ files \subseteq Names
  /\ cur \in Names
  /\ watched \in Names \cup {NoFile}
  /\ trapped \in BOOLEAN

LEMMA TypeStep == EpisodeTypeOK /\ [Next]_vars => EpisodeTypeOK'
<1> SUFFICES ASSUME EpisodeTypeOK, [Next]_vars PROVE EpisodeTypeOK'
  OBVIOUS
<1> USE DEF EpisodeTypeOK
<1>1. CASE PlayNext
  <2>1. PICK f \in SearchNext(files, cur) :
          IF f = NoFile
          THEN trapped' = TRUE /\ UNCHANGED <<cur, watched>>
          ELSE cur' = f /\ watched' \in {watched, cur} /\ UNCHANGED trapped
    BY <1>1 DEF PlayNext
  <2>2. f = NoFile \/ f \in files
    BY NextSub
  <2>3. files' = files
    BY <1>1 DEF PlayNext
  <2>4. QED
    BY <2>1, <2>2, <2>3
<1>2. CASE PlayPrevious
  <2>1. cur' \in files
    BY <1>2, PrevSub DEF PlayPrevious
  <2>2. QED
    BY <1>2, <2>1 DEF PlayPrevious
<1>3. CASE Arrive
  BY <1>3 DEF Arrive
<1>4. CASE Vanish
  BY <1>4 DEF Vanish
<1>5. CASE UNCHANGED vars
  BY <1>5 DEF vars
<1>6. QED
  BY <1>1, <1>2, <1>3, <1>4, <1>5 DEF Next

\* Whatever comes and goes, what plays is one of the names, and so is what has
\* played: the searches find files of the directory only.
THEOREM EpisodeTypeCorrect == Spec => []EpisodeTypeOK
<1>1. Init => EpisodeTypeOK
  BY DEF Init, EpisodeTypeOK
<1>2. QED
  BY <1>1, TypeStep, PTL DEF Spec

-----------------------------------------------------------------------------
(* "Next" goes forward                                                     *)

\* The number without its last digit.
Trunc(f, r) == Value(SubSeq(f, Begin(r), End(r) - 1))

LEMMA StretchAppend ==
  ASSUME NEW f \in Names, NEW b \in Nat \ {0}, NEW e \in Nat, e <= Len(f), b <= e
  PROVE  /\ SubSeq(f, b, e) = Append(SubSeq(f, b, e - 1), f[e])
         /\ Value(SubSeq(f, b, e)) = Value(SubSeq(f, b, e - 1)) * Base + f[e]
         /\ Value(SubSeq(f, b, e)) \in Nat /\ Value(SubSeq(f, b, e - 1)) \in Nat /\ f[e] \in Nat
<1>1. e - 1 \in Nat /\ e - 1 <= Len(f) /\ f[e] \in Nat
  BY NameIs
<1>2. /\ SubSeq(f, b, e) \in Seq(Nat) /\ Len(SubSeq(f, b, e)) = IF b <= e THEN e - b + 1 ELSE 0
      /\ \A i \in 1..(e - b + 1) : SubSeq(f, b, e)[i] = f[b + i - 1]
  BY StretchIs, Zenon
<1>3. /\ SubSeq(f, b, e - 1) \in Seq(Nat)
      /\ Len(SubSeq(f, b, e - 1)) = IF b <= e - 1 THEN e - 1 - b + 1 ELSE 0
      /\ \A i \in 1..(e - 1 - b + 1) : SubSeq(f, b, e - 1)[i] = f[b + i - 1]
  BY <1>1, StretchIs, Zenon
<1>4. PICK x \in Seq(Nat) :
        x = SubSeq(f, b, e) /\ Len(x) = e - b + 1 /\ \A i \in 1..(e - b + 1) : x[i] = f[b + i - 1]
  BY <1>2
<1>5. PICK y \in Seq(Nat) :
        y = SubSeq(f, b, e - 1) /\ Len(y) = e - b /\ \A i \in 1..(e - b) : y[i] = f[b + i - 1]
  <2>1. Len(SubSeq(f, b, e - 1)) = e - b
    BY <1>3
  <2>2. \A i \in 1..(e - b) : SubSeq(f, b, e - 1)[i] = f[b + i - 1]
    BY <1>3
  <2>3. QED
    BY <1>3, <2>1, <2>2
<1>6. PICK u \in Seq(Nat) : IsAppend(u, y, f[e])
  BY <1>1, AppendPick
<1>7. u = x
  <2>1. Len(u) = e - b + 1 /\ Len(u) = Len(x)
    BY <1>4, <1>5, <1>6 DEF IsAppend
  <2>2. ASSUME NEW i \in 1..Len(u) PROVE u[i] = x[i]
    <3>1. CASE i <= e - b
      <4>1. i \in 1..(e - b) /\ i \in 1..(e - b + 1) /\ i \in 1..Len(y)
        BY <1>5, <2>1, <3>1
      <4>2. QED
        BY <1>4, <1>5, <1>6, <4>1 DEF IsAppend
    <3>2. CASE ~(i <= e - b)
      <4>1. i = e - b + 1 /\ i = Len(y) + 1 /\ i \in 1..(e - b + 1) /\ b + i - 1 = e
        BY <1>5, <2>1, <3>2
      <4>2. u[i] = f[e]
        BY <1>6, <4>1 DEF IsAppend
      <4>3. x[i] = f[e]
        BY <1>4, <4>1
      <4>4. QED
        BY <4>2, <4>3
    <3>3. QED
      BY <3>1, <3>2
  <2>3. QED
    BY <2>1, <2>2, SeqEqual
<1>8. Append(y, f[e]) = x
  BY <1>6, <1>7 DEF IsAppend
<1>9. Value(x) = Value(y) * Base + f[e] /\ Value(x) \in Nat /\ Value(y) \in Nat
  BY <1>1, <1>8, ValueAppend, ValueType
<1>10. QED
  BY <1>1, <1>4, <1>5, <1>8, <1>9

LEMMA StretchMono ==
  ASSUME NEW f \in Names, NEW b \in Nat \ {0}, NEW m \in Nat, NEW e \in Nat,
         e <= Len(f), b <= m + 1, m <= e
  PROVE  Value(SubSeq(f, b, m)) <= Value(SubSeq(f, b, e))
<1>1. Len(f) \in Nat /\ m <= Len(f)
  BY NameIs
<1>2. /\ SubSeq(f, b, e) \in Seq(Nat) /\ Len(SubSeq(f, b, e)) = IF b <= e THEN e - b + 1 ELSE 0
      /\ \A i \in 1..(e - b + 1) : SubSeq(f, b, e)[i] = f[b + i - 1]
  BY StretchIs, Zenon
<1>3. /\ SubSeq(f, b, m) \in Seq(Nat) /\ Len(SubSeq(f, b, m)) = IF b <= m THEN m - b + 1 ELSE 0
      /\ \A i \in 1..(m - b + 1) : SubSeq(f, b, m)[i] = f[b + i - 1]
  BY <1>1, StretchIs, Zenon
<1>4. Len(SubSeq(f, b, m)) = m - b + 1 /\ Len(SubSeq(f, b, e)) = e - b + 1
  BY <1>2, <1>3
<1>5. Begins(SubSeq(f, b, e), SubSeq(f, b, m))
  <2>1. \A i \in 1..(m - b + 1) : i \in 1..(e - b + 1)
    OBVIOUS
  <2>2. \A i \in 1..(m - b + 1) : SubSeq(f, b, e)[i] = SubSeq(f, b, m)[i]
    BY <1>2, <1>3, <2>1
  <2>3. m - b + 1 <= e - b + 1
    OBVIOUS
  <2>4. QED
    BY <1>4, <2>2, <2>3 DEF Begins
<1>6. QED
  BY <1>2, <1>3, <1>5, BeginsValue

\* The part t of f is at least n, and, when it is not n, has got digits besides.
Reaches(f, t, n) == Value(Part(f, t)) >= n /\ (Value(Part(f, t)) = n \/ Trunc(f, t) >= n)

LEMMA TruncIs ==
  ASSUME NEW f \in Names, NEW r \in DigitParts[f]
  PROVE  /\ Trunc(f, r) \in Nat /\ Value(Part(f, r)) \in Nat
         /\ Trunc(f, r) <= Value(Part(f, r))
<1>1. Begin(r) \in Nat \ {0} /\ End(r) \in Nat /\ End(r) <= Len(f) /\ Begin(r) <= End(r)
  BY PartIs
<1>2. End(r) - 1 \in Nat /\ Begin(r) <= (End(r) - 1) + 1 /\ End(r) - 1 <= End(r)
  BY <1>1
<1>3. Value(SubSeq(f, Begin(r), End(r) - 1)) <= Value(SubSeq(f, Begin(r), End(r)))
  BY <1>1, <1>2, StretchMono
<1>4. QED
  BY <1>1, <1>3, StretchAppend DEF Trunc, Part

LEMMA RunReaches ==
  ASSUME NEW f \in Names, NEW t \in DigitParts[f], NEW m \in Nat,
         Begin(t) <= m, m <= End(t)
  PROVE  Reaches(f, t, Value(SubSeq(f, Begin(t), m)))
<1>1. Begin(t) \in Nat \ {0} /\ End(t) \in Nat /\ End(t) <= Len(f)
  BY PartIs
<1>2. Value(SubSeq(f, Begin(t), m)) <= Value(SubSeq(f, Begin(t), End(t)))
  BY <1>1, StretchMono
<1>3. CASE m = End(t)
  BY <1>2, <1>3 DEF Reaches, Part
<1>4. CASE m < End(t)
  <2>1. End(t) - 1 \in Nat /\ End(t) - 1 <= Len(f) /\ m <= End(t) - 1
    BY <1>1, <1>4
  <2>2. Value(SubSeq(f, Begin(t), m)) <= Value(SubSeq(f, Begin(t), End(t) - 1))
    BY <1>1, <2>1, StretchMono
  <2>3. Value(SubSeq(f, Begin(t), m)) \in Nat
    <3>1. m <= Len(f)
      BY <1>1, <1>4, NameIs
    <3>2. QED
      BY <1>1, <3>1, StretchAppend
  <2>4. Value(SubSeq(f, Begin(t), End(t))) \in Nat /\ Value(SubSeq(f, Begin(t), End(t) - 1)) \in Nat
    BY TruncIs, Zenon DEF Trunc, Part
  <2>5. QED
    BY <1>2, <2>2, <2>3, <2>4 DEF Reaches, Part, Trunc
<1>5. QED
  BY <1>1, <1>3, <1>4

\* What the number of a file and the one at its place in the next file have to do
\* with each other, also when the first is too large for Int.
LEMMA NextStep ==
  ASSUME NEW c \in Names, NEW f \in Names, NEW p \in DigitParts[c],
         Value(Part(c, p)) # MaxInt,
         Begins(f, Start(c, p, NextIndex(c, p)))
  PROVE  \E t \in DigitParts[f] :
           /\ Begin(t) = Begin(p) /\ Agree(c, f, Begin(p) - 1)
           /\ Value(Part(c, p)) < MaxInt => Reaches(f, t, Value(Part(c, p)) + 1)
           /\ Value(Part(c, p)) > MaxInt => Trunc(f, t) >= Trunc(c, p)
<1> DEFINE v == Value(Part(c, p))
           z == ValueOrZero(Part(c, p)) + 1
           d == NextIndex(c, p)
           n == Len(d)
           q == Shortened(p, n)
           b == Begin(p)
           e == End(p)
           a == Begin(q)
           m == a - 1 + n
<1>1. /\ b \in Nat \ {0} /\ e \in Nat /\ b <= e /\ e <= Len(c) /\ Len(c) \in Nat /\ Len(f) \in Nat
      /\ \A i \in b..e : c[i] \in Digit
      /\ b > 1 => c[b - 1] \notin Digit
      /\ v \in Nat
  <2>1. /\ b \in Nat \ {0} /\ e \in Nat /\ b <= e /\ e <= Len(c)
        /\ \A i \in b..e : c[i] \in Digit
        /\ b > 1 => c[b - 1] \notin Digit
    BY PartIs
  <2>2. Len(c) \in Nat /\ Len(f) \in Nat
    BY NameIs
  <2>3. v \in Nat
    BY PartNumeral
  <2>4. QED
    BY <2>1, <2>2, <2>3, Zenon
<1>2. z \in Nat /\ z >= 1 /\ d = Digits(z) /\ (v < MaxInt => z = v + 1) /\ (v > MaxInt => z = 1)
  BY <1>1, Bases DEF ValueOrZero, Fits, NextIndex
<1>3. /\ d \in Numeral /\ n \in Nat \ {0} /\ Value(d) = z /\ d \in Seq(Nat)
      /\ \A i \in 1..n : d[i] \in Digit
  <2>1. d \in Numeral /\ n \in Nat \ {0} /\ Value(d) = z
    BY <1>2, DigitsNumeral, ValueDigits
  <2>2. d \in Seq(Digit)
    BY <2>1 DEF Numeral
  <2>3. QED
    BY <2>1, <2>2, DigitNat, ElementOfSeq
<1>4. /\ a \in Nat \ {0} /\ b <= a /\ a <= e
      /\ n <= Width(p) => a = e - n + 1
      /\ Width(p) <= n => a = b
      /\ Width(p) = e - b + 1
  <2>1. Width(p) = e - b + 1
    BY DEF Width
  <2>2. /\ End(q) = e /\ a \in Nat \ {0} /\ b <= a /\ a <= e
        /\ n <= Width(p) => a = e - n + 1
        /\ Width(p) <= n => q = p
    <3> HIDE DEF n
    <3>1. QED
      BY <1>3, ShortenedIs, Zenon
  <2>3. QED
    BY <2>1, <2>2, Zenon
<1> HIDE DEF v, z, d, n, q, b, e, a, m
<1>5. Agree(c, f, a - 1) /\ m <= Len(f) /\ \A i \in 1..n : f[a - 1 + i] = d[i]
  <2>1. Start(c, p, d) = SubSeq(c, 1, a - 1) \o d
    BY DEF Start, Before, a, q, n
  <2>2. a <= Len(c)
    BY <1>1, <1>4
  <2>3. Begins(f, SubSeq(c, 1, a - 1) \o d)
    BY <2>1, Zenon DEF d
  <2>4. /\ Agree(c, f, a - 1) /\ a - 1 + Len(d) <= Len(f)
        /\ \A i \in 1..Len(d) : f[a - 1 + i] = d[i]
    <3>1. HeadFacts(c, f, a, d)
      BY <1>3, <1>4, <2>2, HeadIs, Zenon
    <3>2. QED
      BY <2>3, <3>1, Zenon DEF HeadFacts
  <2>5. QED
    BY <2>4 DEF m, n
<1>6. m \in Nat /\ m >= a
  BY <1>3, <1>4 DEF m
<1>7. \A i \in a..m : i - (a - 1) \in 1..n /\ f[i] = d[i - (a - 1)]
  <2> TAKE i \in a..m
  <2>1. i - (a - 1) \in 1..n /\ a - 1 + (i - (a - 1)) = i
    BY <1>3, <1>4 DEF m
  <2>2. QED
    BY <1>5, <2>1
<1>8. \A i \in b..m : f[i] \in Digit
  <2> TAKE i \in b..m
  <2>1. CASE i < a
    <3>1. i \in b..e /\ i \in 1..(a - 1)
      BY <1>1, <1>4, <2>1
    <3>2. QED
      BY <1>1, <1>5, <3>1 DEF Agree
  <2>2. CASE ~(i < a)
    <3>1. i \in a..m
      BY <1>1, <1>4, <1>6, <2>2
    <3>2. QED
      BY <1>3, <1>7, <3>1
  <2>3. QED
    BY <2>1, <2>2
<1>9. Agree(c, f, b - 1)
  BY <1>1, <1>4, <1>5 DEF Agree
<1>10. b > 1 => f[b - 1] \notin Digit
  <2>1. b > 1 => b - 1 \in 1..(b - 1)
    BY <1>1
  <2>2. QED
    BY <1>1, <1>9, <2>1 DEF Agree
<1>11. PICK t \in DigitParts[f] : Begin(t) = b /\ End(t) >= m
  <2>1. b \in 1..Len(f) /\ m \in b..Len(f)
    BY <1>1, <1>4, <1>5, <1>6
  <2>2. QED
    BY <1>8, <1>10, <2>1, RunExists
<1>12. End(t) \in Nat /\ End(t) <= Len(f)
  BY PartIs
<1>13. ASSUME v < MaxInt PROVE Reaches(f, t, v + 1)
  <2> DEFINE s == SubSeq(f, b, m)
             w == m - b + 1
  <2>1. s \in Numeral
    BY <1>1, <1>4, <1>5, <1>6, <1>8, StretchNumeral
  <2>2. Len(s) = w /\ \A i \in 1..w : s[i] = f[b + i - 1]
    <3>1. Len(s) = IF b <= m THEN m - b + 1 ELSE 0
      BY <1>1, <1>5, <1>6, StretchIs, Zenon
    <3>2. \A i \in 1..(m - b + 1) : s[i] = f[b + i - 1]
      BY <1>1, <1>5, <1>6, StretchIs, Zenon
    <3>3. QED
      BY <1>1, <1>4, <1>6, <3>1, <3>2
  <2>3. w \in Nat /\ n \in Nat /\ n <= w /\ w - n = a - b
    BY <1>1, <1>3, <1>4 DEF m
  <2> HIDE DEF s, w
  <2>4. \A i \in 1..w : s[i] = IF i <= w - n THEN 0 ELSE d[i - (w - n)]
    <3> TAKE i \in 1..w
    <3>1. CASE i <= w - n
      <4>1. n <= e - b + 1 /\ a = e - n + 1
        BY <1>1, <1>3, <1>4, <2>3, <3>1
      <4>2. b + i - 1 \in b..(e - n) /\ b + i - 1 \in 1..(a - 1)
        BY <1>1, <1>4, <2>3, <3>1, <4>1
      <4>3. Len(Digits(v)) <= n
        BY <1>1, <1>2, <1>13, DigitsLonger, SMTT(20) DEF n
      <4>4. c[b + i - 1] = 0
        BY <1>3, <4>2, <4>3, ZerosBefore DEF v, b, e
      <4>5. QED
        BY <1>5, <2>2, <3>1, <4>2, <4>4 DEF Agree
    <3>2. CASE ~(i <= w - n)
      <4> DEFINE j == b + i - 1
      <4>1. j \in a..m /\ j - (a - 1) = i - (w - n)
        BY <1>1, <1>3, <1>4, <2>3, <3>2 DEF m, w
      <4>2. s[i] = f[j]
        BY <2>2
      <4> HIDE DEF j
      <4>3. f[j] = d[j - (a - 1)]
        BY <1>7, <4>1
      <4>4. QED
        BY <3>2, <4>1, <4>2, <4>3
    <3>3. QED
      BY <3>1, <3>2
  <2>5. Pads(s, d)
    BY <2>2, <2>3, <2>4, PadsAt DEF n
  <2>6. Value(s) = z
    BY <1>3, <2>1, <2>5, PadsValue, DigitNat DEF Numeral
  <2>7. Reaches(f, t, Value(SubSeq(f, Begin(t), m)))
    BY <1>1, <1>4, <1>6, <1>11, RunReaches
  <2>8. QED
    BY <1>2, <1>11, <1>13, <2>6, <2>7, Zenon DEF s
<1>14. ASSUME v > MaxInt PROVE Trunc(f, t) >= Trunc(c, p)
  <2>1. n = 1
    BY <1>2, <1>14, Bases, DigitsLen DEF n
  <2>2. a = e /\ m = e
    BY <1>1, <1>4, <2>1 DEF m
  <2>3. SubSeq(f, b, e - 1) = SubSeq(c, b, e - 1)
    <3>1. e - 1 \in Nat /\ e - 1 <= Len(f) /\ e - 1 <= Len(c)
      BY <1>1, <1>5, <2>2
    <3>2. /\ SubSeq(f, b, e - 1) \in Seq(Nat)
          /\ Len(SubSeq(f, b, e - 1)) = IF b <= e - 1 THEN e - 1 - b + 1 ELSE 0
          /\ \A i \in 1..(e - 1 - b + 1) : SubSeq(f, b, e - 1)[i] = f[b + i - 1]
      BY <1>1, <3>1, StretchIs, Zenon
    <3>3. /\ SubSeq(c, b, e - 1) \in Seq(Nat)
          /\ Len(SubSeq(c, b, e - 1)) = IF b <= e - 1 THEN e - 1 - b + 1 ELSE 0
          /\ \A i \in 1..(e - 1 - b + 1) : SubSeq(c, b, e - 1)[i] = c[b + i - 1]
      BY <1>1, <3>1, StretchIs, Zenon
    <3>4. \A i \in 1..(e - 1 - b + 1) : f[b + i - 1] = c[b + i - 1]
      <4> TAKE i \in 1..(e - 1 - b + 1)
      <4>1. b + i - 1 \in 1..(a - 1)
        BY <1>1, <2>2
      <4>2. QED
        BY <1>5, <4>1 DEF Agree
    <3>5. PICK x \in Seq(Nat), y \in Seq(Nat) :
            /\ x = SubSeq(f, b, e - 1) /\ y = SubSeq(c, b, e - 1)
            /\ Len(x) = e - b /\ Len(y) = e - b
            /\ \A i \in 1..(e - b) : x[i] = y[i]
      <4>1. /\ Len(SubSeq(f, b, e - 1)) = e - b /\ Len(SubSeq(c, b, e - 1)) = e - b
            /\ e - 1 - b + 1 = e - b
        BY <1>1, <3>2, <3>3
      <4>2. \A i \in 1..(e - b) : SubSeq(f, b, e - 1)[i] = SubSeq(c, b, e - 1)[i]
        BY <3>2, <3>3, <3>4, <4>1
      <4>3. QED
        BY <3>2, <3>3, <4>1, <4>2
    <3>6. x = y
      BY <3>5, SeqEqual
    <3>7. QED
      BY <3>5, <3>6
  <2>4. Value(SubSeq(f, b, e - 1)) <= Value(SubSeq(f, b, End(t) - 1))
    <3>1. /\ e - 1 \in Nat /\ End(t) - 1 \in Nat /\ End(t) - 1 <= Len(f)
          /\ b <= (e - 1) + 1 /\ e - 1 <= End(t) - 1
      BY <1>1, <1>11, <1>12, <2>2
    <3>2. QED
      BY <1>1, <3>1, StretchMono
  <2>5. Trunc(f, t) \in Nat /\ Trunc(c, p) \in Nat
    BY TruncIs
  <2>6. Trunc(f, t) = Value(SubSeq(f, b, End(t) - 1)) /\ Trunc(c, p) = Value(SubSeq(c, b, e - 1))
    BY <1>11, Zenon DEF Trunc, b, e
  <2>7. QED
    BY <2>3, <2>4, <2>5, <2>6
<1>15. QED
  BY <1>9, <1>11, <1>13, <1>14 DEF v, b

-----------------------------------------------------------------------------
(* The prefixes                                                            *)

\* The first number to the right.
Following(f, r) == Leftmost(RightOf(f, r))

LEMMA FollowingIs ==
  ASSUME NEW f \in Names, NEW r \in DigitParts[f], RightOf(f, r) # {}
  PROVE  /\ Following(f, r) \in DigitParts[f] /\ Begin(Following(f, r)) > Begin(r)
         /\ End(r) + 1 < Begin(Following(f, r))
<1>1. RightOf(f, r) \subseteq DigitParts[f]
  BY DEF RightOf
<1>2. Following(f, r) \in RightOf(f, r)
  BY <1>1, LeftmostIs DEF Following
<1>3. Following(f, r) \in DigitParts[f] /\ Begin(Following(f, r)) > Begin(r)
  BY <1>2 DEF RightOf
<1>4. Begin(Following(f, r)) \in Nat /\ Begin(r) \in Nat
  BY <1>3, PartIs
<1>5. QED
  BY <1>3, <1>4, PartsApart

LEMMA PaddedOneIs ==
  ASSUME NEW n \in Nat \ {0}
  PROVE  /\ PaddedOne(n) \in Numeral /\ Len(PaddedOne(n)) = n /\ Value(PaddedOne(n)) = 1
         /\ PaddedOne(n) \in Seq(Nat)
<1> DEFINE s == PaddedOne(n)
<1>1. 1 \in Digit /\ 0 \in Digit /\ 1 \in Nat /\ 1 < Base
  BY Bases DEF Digit
<1>2. s \in [1..n -> Digit] /\ \A i \in 1..n : s[i] = IF i = n THEN 1 ELSE 0
  BY <1>1 DEF PaddedOne
<1>3. s \in Seq(Digit) /\ Len(s) = n
  <2> HIDE DEF s
  <2>1. QED
    BY <1>2
<1>4. s \in Numeral
  BY <1>3, EmptySeq DEF Numeral
<1>5. s \in Seq(Nat)
  BY <1>3, DigitNat
<1>6. Digits(1) = <<1>> /\ Value(Digits(1)) = 1
  BY <1>1, DigitsSmall, ValueDigits
<1>7. <<1>> \in Seq(Nat) /\ Len(<<1>>) = 1 /\ <<1>>[1] = 1
  OBVIOUS
<1>8. Pads(s, <<1>>)
  <2> HIDE DEF s
  <2>1. \A i \in 1..n : s[i] = IF i <= n - 1 THEN 0 ELSE <<1>>[i - (n - 1)]
    <3> TAKE i \in 1..n
    <3>1. CASE i = n
      <4>1. i - (n - 1) = 1 /\ ~(i <= n - 1)
        BY <3>1
      <4>2. QED
        BY <1>2, <1>7, <3>1, <4>1
    <3>2. CASE i # n
      BY <1>2, <3>2
    <3>3. QED
      BY <3>1, <3>2
  <2>2. n \in Nat /\ 1 \in Nat /\ 1 <= n
    OBVIOUS
  <2>3. QED
    BY <1>3, <1>7, <2>1, <2>2, PadsAt
<1>9. Value(s) = Value(<<1>>)
  BY <1>5, <1>7, <1>8, PadsValue
<1>10. QED
  BY <1>3, <1>4, <1>5, <1>6, <1>9

LEMMA OneIs == PaddedOne(1) = <<1>>
<1>1. \A i \in 1..1 : (IF i = 1 THEN 1 ELSE 0) = 1
  OBVIOUS
<1>2. QED
  BY <1>1 DEF PaddedOne

NextHead(f, r) == Start(f, r, NextIndex(f, r))

LEMMA NextIndexIs ==
  ASSUME NEW f \in Names, NEW r \in DigitParts[f]
  PROVE  /\ NextIndex(f, r) \in Numeral /\ NextIndex(f, r) \in Seq(Nat)
         /\ Len(NextIndex(f, r)) \in Nat \ {0}
<1>1. ValueOrZero(Part(f, r)) + 1 \in Nat
  BY PartNumeral DEF ValueOrZero
<1>2. NextIndex(f, r) \in Numeral /\ Len(NextIndex(f, r)) \in Nat \ {0}
  BY <1>1, DigitsNumeral DEF NextIndex
<1>3. QED
  BY <1>2, DigitNat DEF Numeral

LEMMA NextLastIs ==
  ASSUME NEW f \in Names, NEW r \in DigitParts[f]
  PROVE  /\ RightOf(f, r) = {} => NextLast(f, r) = <<>>
         /\ RightOf(f, r) # {} =>
              /\ NextLast(f, r) # <<>>
              /\ NextLast(f, r) = NextRange(f, Following(f, r))
              /\ Begin(NextLast(f, r)) \in Nat \ {0} /\ End(NextLast(f, r)) = End(Following(f, r))
              /\ Begin(Following(f, r)) <= Begin(NextLast(f, r))
              /\ Begin(NextLast(f, r)) <= End(NextLast(f, r))
              /\ Width(NextLast(f, r)) \in Nat \ {0}
<1>1. CASE RightOf(f, r) = {}
  BY <1>1 DEF NextLast
<1>2. CASE RightOf(f, r) # {}
  <2> DEFINE s == Following(f, r)
             n == Len(NextIndex(f, s))
  <2>1. s \in DigitParts[f]
    BY <1>2, FollowingIs
  <2>2. NextLast(f, r) = Shortened(s, n) /\ NextLast(f, r) = NextRange(f, s)
    BY <1>2 DEF NextLast, NextRange, Following
  <2>3. n \in Nat \ {0}
    BY <2>1, NextIndexIs
  <2> HIDE DEF s, n
  <2>4. s = <<Begin(s), End(s)>> /\ Begin(s) \in Nat /\ End(s) \in Nat
    BY <2>1, PartIs
  <2>5. Shortened(s, n) # <<>>
    <3>0. <<Begin(s), End(s)>> # <<>>
      OBVIOUS
    <3>1. s # <<>>
      BY <2>4, <3>0, Zenon
    <3>2. <<End(s) - n + 1, End(s)>> # <<>>
      OBVIOUS
    <3>3. QED
      BY <3>1, <3>2 DEF Shortened
  <2>6. /\ End(Shortened(s, n)) = End(s) /\ Begin(Shortened(s, n)) \in Nat \ {0}
        /\ Begin(s) <= Begin(Shortened(s, n)) /\ Begin(Shortened(s, n)) <= End(s)
    BY <2>1, <2>3, ShortenedIs
  <2>7. Width(Shortened(s, n)) \in Nat \ {0}
    BY <2>4, <2>6 DEF Width
  <2>8. QED
    BY <1>2, <2>2, <2>5, <2>6, <2>7 DEF s
<1>3. QED
  BY <1>1, <1>2

\* The text between two numbers.
LEMMA BetweenIs ==
  ASSUME NEW f \in Names, NEW e \in Nat, NEW b \in Nat \ {0}, e < b, b <= Len(f)
  PROVE  /\ SubSeq(f, e + 1, b - 1) \in Seq(Nat)
         /\ Len(SubSeq(f, e + 1, b - 1)) = b - 1 - e
         /\ \A i \in 1..(b - 1 - e) : SubSeq(f, e + 1, b - 1)[i] = f[e + i]
<1>1. e + 1 \in Nat \ {0} /\ b - 1 \in Nat /\ b - 1 <= Len(f)
  BY NameIs
<1>2. /\ SubSeq(f, e + 1, b - 1) \in Seq(Nat)
      /\ Len(SubSeq(f, e + 1, b - 1)) = IF e + 1 <= b - 1 THEN b - 1 - (e + 1) + 1 ELSE 0
      /\ \A i \in 1..(b - 1 - (e + 1) + 1) : SubSeq(f, e + 1, b - 1)[i] = f[e + 1 + i - 1]
  BY <1>1, StretchIs, Zenon
<1>3. b - 1 - (e + 1) + 1 = b - 1 - e
  OBVIOUS
<1>4. Len(SubSeq(f, e + 1, b - 1)) = b - 1 - e
  BY <1>2
<1>5. \A i \in 1..(b - 1 - e) : e + 1 + i - 1 = e + i
  OBVIOUS
<1>6. \A i \in 1..(b - 1 - e) : SubSeq(f, e + 1, b - 1)[i] = f[e + i]
  BY <1>2, <1>3, <1>5
<1>7. QED
  BY <1>2, <1>4, <1>6

\* The start, and the first number to the right, which begins at one again.
NextAgain(f, r, n) ==
  NextHead(f, r) \o SubSeq(f, End(r) + 1, Begin(NextLast(f, r)) - 1) \o PaddedOne(n)

LEMMA NextPrefixIs ==
  ASSUME NEW f \in Names, NEW r \in DigitParts[f]
  PROVE  /\ RightOf(f, r) = {} => NextPrefixes(f, r) = <<NextHead(f, r)>>
         /\ RightOf(f, r) # {} =>
              \/ /\ Width(NextLast(f, r)) > 1
                 /\ NextPrefixes(f, r) =
                      <<NextAgain(f, r, Width(NextLast(f, r))), NextAgain(f, r, 1), NextHead(f, r)>>
              \/ /\ Width(NextLast(f, r)) = 1
                 /\ NextPrefixes(f, r) = <<NextAgain(f, r, 1), NextHead(f, r)>>
<1> DEFINE q == NextRange(f, r)
           last == NextLast(f, r)
           head == Before(f, q) \o NextIndex(f, r)
           again == head \o Between(f, q, last)
<1>1. head = NextHead(f, r)
  BY Zenon DEF NextHead, Start, NextRange
<1>2. End(q) = End(r)
  BY NextIndexIs, ShortenedIs DEF NextRange
<1>3. \A n : again \o PaddedOne(n) = NextAgain(f, r, n)
  BY <1>1, <1>2, Zenon DEF NextAgain, Between
<1>4. NextPrefixes(f, r) =
        IF last = <<>> THEN <<head>>
        ELSE IF Width(last) > 1 THEN <<again \o PaddedOne(Width(last)), again \o <<1>>, head>>
        ELSE <<again \o <<1>>, head>>
  BY Zenon DEF NextPrefixes
<1> HIDE DEF q, head, again, last
<1>5. CASE RightOf(f, r) = {}
  <2>1. last = <<>>
    BY <1>5, NextLastIs DEF last
  <2>2. QED
    BY <1>1, <1>4, <1>5, <2>1, Zenon
<1>6. CASE RightOf(f, r) # {}
  <2>1. last # <<>> /\ Width(last) \in Nat \ {0}
    BY <1>6, NextLastIs DEF last
  <2>2. again \o <<1>> = NextAgain(f, r, 1)
    BY <1>3, OneIs, Zenon
  <2>3. CASE Width(last) > 1
    <3>1. NextPrefixes(f, r) = <<again \o PaddedOne(Width(last)), again \o <<1>>, head>>
      BY <1>4, <2>1, <2>3, Zenon
    <3>2. NextPrefixes(f, r) = <<NextAgain(f, r, Width(last)), NextAgain(f, r, 1), NextHead(f, r)>>
      BY <1>1, <1>3, <2>2, <3>1, Zenon
    <3>3. QED
      BY <1>6, <2>3, <3>2, Zenon DEF last
  <2>4. CASE ~(Width(last) > 1)
    <3>1. NextPrefixes(f, r) = <<again \o <<1>>, head>>
      BY <1>4, <2>1, <2>4, Zenon
    <3>2. NextPrefixes(f, r) = <<NextAgain(f, r, 1), NextHead(f, r)>>
      BY <1>1, <2>2, <3>1, Zenon
    <3>3. Width(last) = 1
      BY <2>1, <2>4
    <3>4. QED
      BY <1>6, <3>2, <3>3, Zenon DEF last
  <2>5. QED
    BY <2>3, <2>4
<1>7. QED
  BY <1>5, <1>6

LEMMA StartIs ==
  ASSUME NEW f \in Names, NEW r \in DigitParts[f], NEW d \in Numeral
  PROVE  Start(f, r, d) \in Seq(Nat)
<1> DEFINE q == Shortened(r, Len(d))
<1>1. d \in Seq(Nat) /\ Len(d) \in Nat \ {0}
  BY DigitNat, EmptySeq, LenProperties DEF Numeral
<1>2. Begin(q) \in Nat \ {0} /\ Begin(q) <= Len(f)
  BY <1>1, ShortenedIs, PartIs, NameIs
<1>3. SubSeq(f, 1, Begin(q) - 1) \o d \in Seq(Nat)
  BY <1>1, <1>2, HeadBegins
<1>4. QED
  BY <1>3, Zenon DEF Start, Before

\* What is at the places of the gap and of the number that begins again.
GapIs(f, g, e, b) == \A i \in (e + 1)..(b - 1) : g[i] = f[i]
OneAt(g, b, n) == b - 1 + n <= Len(g) /\ \A i \in 1..n : g[b - 1 + i] = PaddedOne(n)[i]

\* What it is to begin with x, the places e + 1 .. b - 1 of f, and y.
GapFacts(f, g, x, y, e, b) ==
  /\ x \o SubSeq(f, e + 1, b - 1) \o y \in Seq(Nat)
  /\ Begins(g, x \o SubSeq(f, e + 1, b - 1) \o y) => Begins(g, x)
  /\ Len(x) = e =>
       (Begins(g, x \o SubSeq(f, e + 1, b - 1) \o y) <=>
          /\ Begins(g, x) /\ GapIs(f, g, e, b)
          /\ b - 1 + Len(y) <= Len(g) /\ \A i \in 1..Len(y) : g[b - 1 + i] = y[i])

LEMMA GapBegins ==
  ASSUME NEW f \in Names, NEW g \in Names, NEW x \in Seq(Nat), NEW y \in Seq(Nat),
         NEW e \in Nat, NEW b \in Nat \ {0}, e < b, b <= Len(f)
  PROVE  GapFacts(f, g, x, y, e, b)
<1> DEFINE z == SubSeq(f, e + 1, b - 1)
           u == x \o z
<1>1. z \in Seq(Nat) /\ Len(z) = b - 1 - e /\ \A i \in 1..(b - 1 - e) : z[i] = f[e + i]
  BY BetweenIs
<1>2. g \in Seq(Nat) /\ Len(g) \in Nat /\ Len(x) \in Nat /\ Len(y) \in Nat
  BY NameIs, LenProperties
<1> HIDE DEF z
<1>3. u \in Seq(Nat) /\ Len(u) = Len(x) + (b - 1 - e)
  <2>1. u \in Seq(Nat) /\ Len(u) = Len(x) + Len(z)
    BY <1>1, ConcatProperties, Zenon
  <2>2. QED
    BY <1>1, <2>1, Zenon
<1>4. Begins(g, u) <=> /\ Begins(g, x) /\ Len(x) + Len(z) <= Len(g)
                       /\ \A i \in 1..Len(z) : g[Len(x) + i] = z[i]
  BY <1>1, <1>2, BeginsConcat
<1> HIDE DEF u
<1>5. u \o y \in Seq(Nat)
  BY <1>3, ConcatProperties
<1>6. Begins(g, u \o y) <=> /\ Begins(g, u) /\ Len(u) + Len(y) <= Len(g)
                            /\ \A i \in 1..Len(y) : g[Len(u) + i] = y[i]
  BY <1>2, <1>3, BeginsConcat
<1>7. ASSUME Len(x) = e
      PROVE  Begins(g, u \o y) <=>
               /\ Begins(g, x) /\ GapIs(f, g, e, b)
               /\ b - 1 + Len(y) <= Len(g) /\ \A i \in 1..Len(y) : g[b - 1 + i] = y[i]
  <2>1. Len(u) = b - 1
    BY <1>3, <1>7
  <2>2. Begins(g, u \o y) <=> /\ Begins(g, u) /\ b - 1 + Len(y) <= Len(g)
                              /\ \A i \in 1..Len(y) : g[b - 1 + i] = y[i]
    BY <1>6, <2>1, Zenon
  <2>3. (\A i \in 1..(b - 1 - e) : g[e + i] = z[i]) <=> GapIs(f, g, e, b)
    <3>1. ASSUME \A i \in 1..(b - 1 - e) : g[e + i] = z[i] PROVE GapIs(f, g, e, b)
      <4> SUFFICES ASSUME NEW i \in (e + 1)..(b - 1) PROVE g[i] = f[i]
        BY DEF GapIs
      <4>1. i - e \in 1..(b - 1 - e) /\ e + (i - e) = i
        OBVIOUS
      <4>2. QED
        BY <1>1, <3>1, <4>1
    <3>2. ASSUME GapIs(f, g, e, b), NEW i \in 1..(b - 1 - e) PROVE g[e + i] = z[i]
      <4>1. e + i \in (e + 1)..(b - 1)
        OBVIOUS
      <4>2. QED
        BY <1>1, <3>2, <4>1 DEF GapIs
    <3>3. QED
      BY <3>1, <3>2
  <2>4. Begins(g, u) <=> /\ Begins(g, x) /\ e + (b - 1 - e) <= Len(g)
                         /\ \A i \in 1..(b - 1 - e) : g[e + i] = z[i]
    BY <1>1, <1>4, <1>7, Zenon
  <2>5. b - 1 + Len(y) <= Len(g) => e + (b - 1 - e) <= Len(g)
    BY <1>2
  <2>6. QED
    BY <2>2, <2>3, <2>4, <2>5, Zenon
<1>8. QED
  BY <1>4, <1>5, <1>6, <1>7, Zenon DEF GapFacts, u, z

LEMMA NextAgainIs ==
  ASSUME NEW f \in Names, NEW g \in Names, NEW r \in DigitParts[f], RightOf(f, r) # {},
         NEW n \in Nat \ {0}
  PROVE  /\ NextAgain(f, r, n) \in Seq(Nat)
         /\ Begins(g, NextAgain(f, r, n)) => Begins(g, NextHead(f, r))
         /\ Len(NextHead(f, r)) = End(r) =>
              (Begins(g, NextAgain(f, r, n)) <=>
                 /\ Begins(g, NextHead(f, r))
                 /\ GapIs(f, g, End(r), Begin(NextLast(f, r)))
                 /\ OneAt(g, Begin(NextLast(f, r)), n))
<1> DEFINE x == NextHead(f, r)
           y == PaddedOne(n)
           b == Begin(NextLast(f, r))
           e == End(r)
<1>1. x \in Seq(Nat)
  BY NextIndexIs, StartIs DEF NextHead
<1>2. y \in Seq(Nat) /\ Len(y) = n
  BY PaddedOneIs
<1>3. e \in Nat /\ b \in Nat \ {0} /\ e < b /\ b <= Len(f)
  <2>1. /\ b \in Nat \ {0} /\ Begin(Following(f, r)) <= b /\ b <= End(Following(f, r))
    BY NextLastIs
  <2>2. Following(f, r) \in DigitParts[f] /\ e + 1 < Begin(Following(f, r))
    BY FollowingIs
  <2>3. /\ e \in Nat /\ Begin(Following(f, r)) \in Nat /\ End(Following(f, r)) \in Nat
        /\ End(Following(f, r)) <= Len(f) /\ Len(f) \in Nat
    BY <2>2, PartIs, NameIs
  <2> HIDE DEF b, e
  <2>4. QED
    BY <2>1, <2>2, <2>3
<1> HIDE DEF x, y, b, e
<1>4. /\ x \o SubSeq(f, e + 1, b - 1) \o y \in Seq(Nat)
      /\ Begins(g, x \o SubSeq(f, e + 1, b - 1) \o y) => Begins(g, x)
      /\ Len(x) = e =>
              (Begins(g, x \o SubSeq(f, e + 1, b - 1) \o y) <=>
                 /\ Begins(g, x) /\ GapIs(f, g, e, b)
                 /\ b - 1 + Len(y) <= Len(g) /\ \A i \in 1..Len(y) : g[b - 1 + i] = y[i])
  <2>1. GapFacts(f, g, x, y, e, b)
    BY <1>1, <1>2, <1>3, GapBegins
  <2>2. QED
    BY <2>1, Zenon DEF GapFacts
<1>5. NextAgain(f, r, n) = x \o SubSeq(f, e + 1, b - 1) \o y
  BY Zenon DEF NextAgain, x, y, b, e
<1>6. OneAt(g, b, n) <=> b - 1 + Len(y) <= Len(g) /\ \A i \in 1..Len(y) : g[b - 1 + i] = y[i]
  BY <1>2, Zenon DEF OneAt, y
<1>7. QED
  BY <1>4, <1>5, <1>6, Zenon DEF x, b, e

\* What a number finds has it one up, at its place.
LEMMA NextMatch ==
  ASSUME NEW dir \in SUBSET Names, NEW c \in Names, NEW p \in DigitParts[c],
         NEW f \in NextFound(dir, c, p), f # NoFile
  PROVE  f \in dir /\ Value(Part(c, p)) # MaxInt /\ Begins(f, NextHead(c, p))
<1>1. Value(Part(c, p)) # MaxInt /\ f \in FirstFound(dir, NextPrefixes(c, p))
  BY DEF NextFound
<1>2. f \in dir /\ f \in Names /\ f \in Seq(Nat)
  BY <1>1, FoundSub, NameIs
<1>3. NextHead(c, p) \in Seq(Nat)
  BY NextIndexIs, StartIs DEF NextHead
<1>4. \A i \in DOMAIN NextPrefixes(c, p) : IsPrefix(NextPrefixes(c, p)[i], f) => Begins(f, NextHead(c, p))
  <2>1. CASE RightOf(c, p) = {}
    <3>1. NextPrefixes(c, p) = <<NextHead(c, p)>>
      BY <2>1, NextPrefixIs
    <3>2. \A i \in DOMAIN NextPrefixes(c, p) : NextPrefixes(c, p)[i] = NextHead(c, p)
      BY <3>1
    <3>3. QED
      BY <1>2, <1>3, <3>2, PrefixIs
  <2>2. CASE RightOf(c, p) # {}
    <3>1. ASSUME NEW n \in Nat \ {0}, IsPrefix(NextAgain(c, p, n), f) PROVE Begins(f, NextHead(c, p))
      <4>1. /\ NextAgain(c, p, n) \in Seq(Nat)
            /\ Begins(f, NextAgain(c, p, n)) => Begins(f, NextHead(c, p))
        BY <1>2, <2>2, NextAgainIs
      <4>2. QED
        BY <1>2, <3>1, <4>1, PrefixIs
    <3>2. ASSUME NEW i \in DOMAIN NextPrefixes(c, p)
          PROVE  \/ NextPrefixes(c, p)[i] = NextHead(c, p)
                 \/ \E n \in Nat \ {0} : NextPrefixes(c, p)[i] = NextAgain(c, p, n)
      <4> DEFINE w == Width(NextLast(c, p))
                 a == NextAgain(c, p, w)
                 o == NextAgain(c, p, 1)
                 h == NextHead(c, p)
      <4>1. w \in Nat \ {0} /\ 1 \in Nat \ {0}
        BY <2>2, NextLastIs
      <4>2. NextPrefixes(c, p) = <<a, o, h>> \/ NextPrefixes(c, p) = <<o, h>>
        BY <2>2, NextPrefixIs
      <4> HIDE DEF w, a, o, h
      <4>3. NextPrefixes(c, p)[i] \in {a, o, h}
        BY <4>2
      <4>4. QED
        BY <4>1, <4>3, Zenon DEF a, o, h
    <3>3. QED
      <4> TAKE i \in DOMAIN NextPrefixes(c, p)
      <4>1. CASE NextPrefixes(c, p)[i] = NextHead(c, p)
        BY <1>2, <1>3, <4>1, PrefixIs
      <4>2. CASE \E n \in Nat \ {0} : NextPrefixes(c, p)[i] = NextAgain(c, p, n)
        BY <3>1, <4>2, Zenon
      <4>3. QED
        BY <3>2, <4>1, <4>2, Zenon
  <2>3. QED
    BY <2>1, <2>2
<1>5. DOMAIN NextPrefixes(c, p) \subseteq Nat
  <2>1. RightOf(c, p) = {} => NextPrefixes(c, p) = <<NextHead(c, p)>>
    BY NextPrefixIs
  <2>2. RightOf(c, p) # {} =>
          \/ NextPrefixes(c, p) =
               <<NextAgain(c, p, Width(NextLast(c, p))), NextAgain(c, p, 1), NextHead(c, p)>>
          \/ NextPrefixes(c, p) = <<NextAgain(c, p, 1), NextHead(c, p)>>
    BY NextPrefixIs
  <2>3. QED
    BY <2>1, <2>2
<1>6. PICK i \in DOMAIN NextPrefixes(c, p) : f \in Matching(dir, NextPrefixes(c, p)[i])
  BY <1>1, <1>5, FoundIn, Zenon
<1>7. IsPrefix(NextPrefixes(c, p)[i], f)
  BY <1>6, Zenon DEF Matching
<1>8. QED
  BY <1>1, <1>2, <1>4, <1>7, Zenon

-----------------------------------------------------------------------------
(* No episode plays again                                                  *)

LEMMA SameStretch ==
  ASSUME NEW f \in Names, NEW g \in Names, NEW b \in Nat \ {0}, NEW e \in Nat,
         e <= Len(f), e <= Len(g), Agree(f, g, e)
  PROVE  SubSeq(f, b, e) = SubSeq(g, b, e)
<1>1. /\ SubSeq(f, b, e) \in Seq(Nat) /\ Len(SubSeq(f, b, e)) = IF b <= e THEN e - b + 1 ELSE 0
      /\ \A i \in 1..(e - b + 1) : SubSeq(f, b, e)[i] = f[b + i - 1]
  BY StretchIs, Zenon
<1>2. /\ SubSeq(g, b, e) \in Seq(Nat) /\ Len(SubSeq(g, b, e)) = IF b <= e THEN e - b + 1 ELSE 0
      /\ \A i \in 1..(e - b + 1) : SubSeq(g, b, e)[i] = g[b + i - 1]
  BY StretchIs, Zenon
<1>3. PICK x \in Seq(Nat), y \in Seq(Nat) :
        /\ x = SubSeq(f, b, e) /\ y = SubSeq(g, b, e)
        /\ Len(x) = Len(y) /\ (b <= e => Len(x) = e - b + 1) /\ (~(b <= e) => Len(x) = 0)
        /\ \A i \in 1..(e - b + 1) : x[i] = f[b + i - 1] /\ y[i] = g[b + i - 1]
  BY <1>1, <1>2
<1>4. ASSUME NEW i \in 1..Len(x) PROVE x[i] = y[i]
  <2>1. b <= e
    BY <1>3, <1>4
  <2>2. i \in 1..(e - b + 1) /\ b + i - 1 \in 1..e
    BY <1>3, <2>1
  <2>3. QED
    BY <1>3, <2>2 DEF Agree
<1>5. x = y
  BY <1>3, <1>4, SeqEqual
<1>6. QED
  BY <1>3, <1>5

\* Where two names agree, they have the same numbers.
LEMMA SamePart ==
  ASSUME NEW f \in Names, NEW g \in Names, NEW p \in DigitParts[f], NEW n \in Nat,
         Agree(f, g, n), n <= Len(f), n <= Len(g), End(p) < n
  PROVE  p \in DigitParts[g] /\ Part(g, p) = Part(f, p)
<1> DEFINE b == Begin(p)
           e == End(p)
<1>1. /\ p = <<b, e>> /\ b \in Nat \ {0} /\ e \in Nat /\ b <= e /\ e <= Len(f)
      /\ \A i \in b..e : f[i] \in Digit
      /\ b > 1 => f[b - 1] \notin Digit
      /\ e < Len(f) => f[e + 1] \notin Digit
  BY PartIs
<1>2. Len(f) \in Nat /\ Len(g) \in Nat /\ n \in Nat /\ e < n
  BY NameIs
<1> HIDE DEF b, e
<1>3. \A i \in b..e : g[i] \in Digit
  BY <1>1, <1>2 DEF Agree
<1>4. b > 1 => g[b - 1] \notin Digit
  <2>1. b > 1 => b - 1 \in 1..n
    BY <1>1, <1>2
  <2>2. QED
    BY <1>1, <2>1 DEF Agree
<1>5. e < Len(g) => g[e + 1] \notin Digit
  <2>1. e + 1 \in 1..n /\ e < Len(f)
    BY <1>1, <1>2
  <2>2. QED
    BY <1>1, <2>1 DEF Agree
<1>6. <<b, e>> \in DigitParts[g]
  <2>1. b \in 1..Len(g) /\ e \in b..Len(g)
    BY <1>1, <1>2
  <2>2. QED
    BY <1>3, <1>4, <1>5, <2>1, PartMember
<1>7. SubSeq(f, b, e) = SubSeq(g, b, e)
  <2>1. Agree(f, g, e) /\ e <= Len(g)
    BY <1>1, <1>2 DEF Agree
  <2>2. QED
    BY <1>1, <2>1, SameStretch
<1>8. QED
  BY <1>1, <1>6, <1>7, Zenon DEF Part, b, e

\* The number s of c is greater than the number r of w, at the same place; where it
\* is too large for Int, it remains so without its last digit, which is all that
\* "next" would change in it.
AheadAt(w, c, r, s) ==
  /\ Begin(r) = Begin(s) /\ Agree(w, c, Begin(s) - 1)
  /\ Value(Part(w, r)) < Value(Part(c, s))
  /\ Value(Part(c, s)) <= MaxInt \/ Value(Part(w, r)) < Trunc(c, s)

Ahead(w, c) == \E r \in DigitParts[w], s \in DigitParts[c] : AheadAt(w, c, r, s)

IsNextBy(c, f, p) == Value(Part(c, p)) # MaxInt /\ Begins(f, NextHead(c, p))

LEMMA ReachesAhead ==
  ASSUME NEW w \in Names, NEW f \in Names, NEW r \in DigitParts[w], NEW t \in DigitParts[f],
         NEW v \in Nat, Value(Part(w, r)) < v, v <= MaxInt, Reaches(f, t, v),
         Begin(r) = Begin(t), Agree(w, f, Begin(t) - 1)
  PROVE  Ahead(w, f)
<1>1. Value(Part(w, r)) \in Nat /\ Value(Part(f, t)) \in Nat /\ Trunc(f, t) \in Nat /\ MaxInt \in Nat
  BY TruncIs, PartNumeral, Bases
<1>2. AheadAt(w, f, r, t)
  BY <1>1 DEF AheadAt, Reaches
<1>3. QED
  BY <1>2 DEF Ahead

LEMMA NextAhead ==
  ASSUME NEW c \in Names, NEW f \in Names, NEW p \in DigitParts[c], IsNextBy(c, f, p), FitsAll(c)
  PROVE  Ahead(c, f)
<1> DEFINE v == Value(Part(c, p))
<1>1. v < MaxInt /\ v \in Nat /\ MaxInt \in Nat /\ v # MaxInt /\ Begins(f, Start(c, p, NextIndex(c, p)))
  BY PartNumeral, Bases DEF FitsAll, IsNextBy, NextHead
<1>2. PICK t \in DigitParts[f] :
           Begin(t) = Begin(p) /\ Agree(c, f, Begin(p) - 1) /\ Reaches(f, t, v + 1)
  BY <1>1, NextStep
<1>3. v + 1 \in Nat /\ v < v + 1 /\ v + 1 <= MaxInt
  BY <1>1
<1>4. QED
  <2>1. Agree(c, f, Begin(t) - 1)
    BY <1>2
  <2>2. QED
    BY <1>2, <1>3, <2>1, ReachesAhead

LEMMA StaysAhead ==
  ASSUME NEW w \in Names, NEW c \in Names, NEW f \in Names, NEW p \in DigitParts[c],
         IsNextBy(c, f, p), FitsAll(w), Ahead(w, c)
  PROVE  Ahead(w, f)
<1> DEFINE v == Value(Part(c, p))
<1>1. PICK r \in DigitParts[w], s \in DigitParts[c] : AheadAt(w, c, r, s)
  BY DEF Ahead
<1>2. v \in Nat /\ MaxInt \in Nat /\ v # MaxInt /\ Begins(f, Start(c, p, NextIndex(c, p)))
  BY PartNumeral, Bases DEF IsNextBy, NextHead
<1>3. PICK t \in DigitParts[f] :
        /\ Begin(t) = Begin(p) /\ Agree(c, f, Begin(p) - 1)
        /\ v < MaxInt => Reaches(f, t, v + 1)
        /\ v > MaxInt => Trunc(f, t) >= Trunc(c, p)
  BY <1>2, NextStep
<1>4. /\ Begin(p) \in Nat \ {0} /\ Begin(s) \in Nat \ {0} /\ Begin(r) = Begin(s)
      /\ End(p) \in Nat /\ End(s) \in Nat
      /\ Begin(p) <= End(p) /\ Begin(s) <= End(s) /\ End(p) <= Len(c) /\ End(s) <= Len(c)
      /\ Len(c) \in Nat /\ Len(w) \in Nat /\ Len(f) \in Nat
  <2>1. Begin(r) = Begin(s)
    BY <1>1 DEF AheadAt
  <2>2. Begin(p) \in Nat \ {0} /\ End(p) \in Nat /\ Begin(p) <= End(p) /\ End(p) <= Len(c)
    BY PartIs
  <2>3. Begin(s) \in Nat \ {0} /\ End(s) \in Nat /\ Begin(s) <= End(s) /\ End(s) <= Len(c)
    BY PartIs
  <2>4. QED
    BY <2>1, <2>2, <2>3, NameIs
<1>5. Begin(r) <= Len(w) /\ Begin(t) <= Len(f)
  <2>1. Begin(r) <= End(r) /\ End(r) <= Len(w) /\ End(r) \in Nat
    BY PartIs
  <2>2. Begin(t) <= End(t) /\ End(t) <= Len(f) /\ End(t) \in Nat
    BY PartIs
  <2>3. QED
    BY <1>3, <1>4, <2>1, <2>2
<1>6. Agree(w, c, Begin(s) - 1) /\ Value(Part(w, r)) < Value(Part(c, s))
  BY <1>1 DEF AheadAt
<1> HIDE DEF v
<1>7. CASE Begin(p) < Begin(s)
  <2>1. End(p) < Begin(s) - 1
    BY <1>4, <1>7, PartsApart
  <2>2. p \in DigitParts[w] /\ Part(w, p) = Part(c, p)
    <3>1. /\ Agree(c, w, Begin(s) - 1) /\ Begin(s) - 1 \in Nat
          /\ Begin(s) - 1 <= Len(w) /\ Begin(s) - 1 <= Len(c)
      BY <1>4, <1>5, <1>6 DEF Agree
    <3>2. QED
      BY <2>1, <3>1, SamePart
  <2>3. v < MaxInt /\ Value(Part(w, p)) = v
    BY <2>2 DEF v, FitsAll
  <2>4. Agree(w, f, Begin(t) - 1) /\ Begin(p) = Begin(t)
    BY <1>3, <1>4, <1>6, <1>7 DEF Agree
  <2>5. v + 1 \in Nat /\ Value(Part(w, p)) < v + 1 /\ v + 1 <= MaxInt /\ Reaches(f, t, v + 1)
    BY <1>2, <1>3, <2>3
  <2>6. QED
    BY <2>2, <2>4, <2>5, ReachesAhead
<1>8. CASE Begin(p) = Begin(s)
  <2>1. p = s
    BY <1>8, PartsApart
  <2>2. Agree(w, f, Begin(t) - 1) /\ Begin(r) = Begin(t)
    BY <1>3, <1>4, <1>6, <1>8 DEF Agree
  <2>3. Value(Part(w, r)) \in Nat /\ Value(Part(w, r)) < v
    BY <1>6, <2>1, PartNumeral DEF v
  <2>4. CASE v < MaxInt
    <3>1. v + 1 \in Nat /\ Value(Part(w, r)) < v + 1 /\ v + 1 <= MaxInt /\ Reaches(f, t, v + 1)
      BY <1>2, <1>3, <2>3, <2>4
    <3>2. QED
      BY <2>2, <3>1, ReachesAhead
  <2>5. CASE v > MaxInt
    <3>1. Value(Part(w, r)) < Trunc(c, s)
      BY <1>1, <1>2, <2>1, <2>5 DEF AheadAt, v
    <3>2. Trunc(f, t) \in Nat /\ Value(Part(f, t)) \in Nat /\ Trunc(f, t) <= Value(Part(f, t)) /\ Trunc(c, s) \in Nat
      BY TruncIs
    <3>3. Value(Part(w, r)) < Trunc(f, t)
      BY <1>3, <2>1, <2>3, <2>5, <3>1, <3>2
    <3>4. AheadAt(w, f, r, t)
      BY <2>2, <2>3, <3>2, <3>3 DEF AheadAt
    <3>5. QED
      BY <3>4 DEF Ahead
  <2>6. QED
    BY <1>2, <2>4, <2>5
<1>9. CASE Begin(s) < Begin(p)
  <2>1. End(s) < Begin(p) - 1
    BY <1>4, <1>9, PartsApart
  <2>2. s \in DigitParts[f] /\ Part(f, s) = Part(c, s)
    <3>1. Begin(p) - 1 \in Nat /\ Begin(p) - 1 <= Len(f) /\ Begin(p) - 1 <= Len(c)
      BY <1>3, <1>4, <1>5
    <3>2. QED
      BY <1>3, <2>1, <3>1, SamePart
  <2>3. Trunc(f, s) = Trunc(c, s)
    <3>1. End(s) - 1 \in Nat /\ End(s) - 1 <= Len(f) /\ End(s) - 1 <= Len(c)
      BY <1>3, <1>4, <1>5, <2>1
    <3>2. Agree(c, f, End(s) - 1)
      BY <1>3, <1>4, <2>1 DEF Agree
    <3>3. SubSeq(c, Begin(s), End(s) - 1) = SubSeq(f, Begin(s), End(s) - 1)
      <4>1. Begin(s) \in Nat \ {0}
        BY PartIs
      <4>2. QED
        BY <3>1, <3>2, <4>1, SameStretch, Zenon
    <3>4. QED
      BY <3>3, Zenon DEF Trunc
  <2>4. Agree(w, f, Begin(s) - 1)
    BY <1>3, <1>4, <1>6, <1>9 DEF Agree
  <2>5. AheadAt(w, f, r, s)
    BY <1>1, <2>2, <2>3, <2>4 DEF AheadAt
  <2>6. QED
    BY <2>2, <2>5 DEF Ahead
<1>10. QED
  BY <1>4, <1>7, <1>8, <1>9

LEMMA NotAheadOfItself ==
  ASSUME NEW f \in Names
  PROVE  ~Ahead(f, f)
<1> SUFFICES ASSUME NEW r \in DigitParts[f], NEW s \in DigitParts[f], AheadAt(f, f, r, s)
             PROVE  FALSE
  BY DEF Ahead
<1>1. r = s
  BY PartsApart DEF AheadAt
<1>2. Value(Part(f, r)) \in Nat /\ Value(Part(f, r)) < Value(Part(f, r))
  BY <1>1, PartNumeral DEF AheadAt
<1>3. QED
  BY <1>2

\* The inductive invariant: a file that has played is behind.
WatchedBehind == watched # NoFile /\ FitsAll(watched) => Ahead(watched, cur)

ForwardInv == EpisodeTypeOK /\ WatchedBehind

LEMMA ForwardStep == ForwardInv /\ [Next]_vars => ForwardInv'
<1> SUFFICES ASSUME ForwardInv, [Next]_vars PROVE ForwardInv'
  OBVIOUS
<1>1. EpisodeTypeOK /\ EpisodeTypeOK'
  BY TypeStep DEF ForwardInv
<1>2. WatchedBehind'
  <2>1. CASE PlayNext
    <3>1. PICK f \in SearchNext(files, cur) :
            IF f = NoFile
            THEN trapped' = TRUE /\ UNCHANGED <<cur, watched>>
            ELSE cur' = f /\ watched' \in {watched, cur} /\ UNCHANGED trapped
      BY <2>1 DEF PlayNext
    <3>2. CASE f = NoFile
      BY <3>1, <3>2 DEF ForwardInv, WatchedBehind
    <3>3. CASE f # NoFile
      <4>1. cur' = f /\ watched' \in {watched, cur}
        BY <3>1, <3>3
      <4>2. files \in SUBSET Names /\ cur \in Names /\ watched \in Names \cup {NoFile}
        BY <1>1 DEF EpisodeTypeOK
      <4>3. PICK p \in DigitParts[cur] : f \in NextFound(files, cur, p)
        BY <4>2, NextSub
      <4>4. f \in Names /\ IsNextBy(cur, f, p)
        BY <3>3, <4>2, <4>3, NextMatch DEF IsNextBy
      <4>5. CASE watched' = watched
        <5> SUFFICES ASSUME watched # NoFile, FitsAll(watched) PROVE Ahead(watched, f)
          BY <4>1, <4>5 DEF WatchedBehind
        <5>1. watched \in Names /\ Ahead(watched, cur)
          BY <4>2 DEF ForwardInv, WatchedBehind
        <5>2. QED
          BY <4>2, <4>4, <5>1, StaysAhead
      <4>6. CASE watched' = cur
        <5> SUFFICES ASSUME FitsAll(cur) PROVE Ahead(cur, f)
          BY <4>1, <4>6 DEF WatchedBehind
        <5>1. QED
          BY <4>2, <4>4, NextAhead
      <4>7. QED
        BY <4>1, <4>5, <4>6
    <3>4. QED
      BY <3>2, <3>3
  <2>2. CASE PlayPrevious
    BY <2>2 DEF PlayPrevious, WatchedBehind
  <2>3. CASE Arrive
    BY <2>3 DEF Arrive, ForwardInv, WatchedBehind
  <2>4. CASE Vanish
    BY <2>4 DEF Vanish, ForwardInv, WatchedBehind
  <2>5. CASE UNCHANGED vars
    BY <2>5 DEF vars, ForwardInv, WatchedBehind
  <2>6. QED
    BY <2>1, <2>2, <2>3, <2>4, <2>5 DEF Next
<1>3. QED
  BY <1>1, <1>2 DEF ForwardInv

\* What "next" finds never is the file that plays or one that has played before it,
\* whatever files come and go and whatever is too large for Int in between, as long
\* as the numbers of the file that it finds fit.
THEOREM NeverAgainHolds == Spec => []NeverAgain
<1>1. Init => ForwardInv
  BY DEF Init, ForwardInv, EpisodeTypeOK, WatchedBehind
<1>2. ForwardInv => NeverAgain
  <2> SUFFICES ASSUME ForwardInv, NEW f \in SearchNext(files, cur), f # NoFile, FitsAll(f)
               PROVE  f # cur /\ f # watched
    BY DEF NeverAgain
  <2>1. files \in SUBSET Names /\ cur \in Names /\ watched \in Names \cup {NoFile}
    BY DEF ForwardInv, EpisodeTypeOK
  <2>2. PICK p \in DigitParts[cur] : f \in NextFound(files, cur, p)
    BY <2>1, NextSub
  <2>3. f \in Names /\ IsNextBy(cur, f, p)
    BY <2>1, <2>2, NextMatch DEF IsNextBy
  <2>4. ~Ahead(f, f)
    BY <2>3, NotAheadOfItself
  <2>5. ASSUME f = cur PROVE FALSE
    BY <2>1, <2>3, <2>4, <2>5, NextAhead
  <2>6. ASSUME f = watched PROVE FALSE
    <3>1. Ahead(watched, cur)
      BY <2>6 DEF ForwardInv, WatchedBehind
    <3>2. Ahead(watched, f)
      BY <2>1, <2>3, <2>6, <3>1, StaysAhead
    <3>3. QED
      BY <2>4, <2>6, <3>2
  <2>7. QED
    BY <2>5, <2>6
<1>3. QED
  BY <1>1, <1>2, ForwardStep, PTL DEF Spec

-----------------------------------------------------------------------------
(* One number up, and one down                                             *)

LEMMA FitValue ==
  ASSUME NEW f \in Names, NEW r \in DigitParts[f], Value(Part(f, r)) < MaxInt
  PROVE  ValueOrZero(Part(f, r)) = Value(Part(f, r)) /\ Value(Part(f, r)) # MaxInt
         /\ Value(Part(f, r)) \in Nat
BY PartNumeral, Bases DEF ValueOrZero, Fits

LEMMA MatchingIs ==
  ASSUME NEW dir \in SUBSET Names, NEW x \in Seq(Nat)
  PROVE  Matching(dir, x) = {g \in dir : Begins(g, x)}
<1>1. \A g \in dir : IsPrefix(x, g) <=> Begins(g, x)
  BY PrefixIs, NameIs
<1>2. QED
  BY <1>1, Zenon DEF Matching

LEMMA NextHeadMatches ==
  ASSUME NEW f \in Names, NEW g \in Names, NEW r \in DigitParts[f], r \in DigitParts[g],
         Value(Part(f, r)) < MaxInt
  PROVE  /\ Begins(g, NextHead(f, r)) <=>
              Agree(f, g, Begin(r) - 1) /\ Value(Part(g, r)) = Value(Part(f, r)) + 1
         /\ Begins(g, NextHead(f, r)) => Len(NextHead(f, r)) = End(r)
         /\ NextHead(f, r) \in Seq(Nat)
<1> DEFINE v == Value(Part(f, r))
           d == NextIndex(f, r)
<1>1. v \in Nat /\ v + 1 \in Nat /\ v <= v + 1 /\ d = Digits(v + 1)
  BY FitValue DEF NextIndex
<1>2. d \in Numeral /\ Value(d) = v + 1 /\ d = Digits(Value(d))
  BY <1>1, DigitsNumeral, ValueDigits
<1>3. Len(Digits(v)) <= Len(d)
  BY <1>1, DigitsLonger
<1>4. /\ Begins(g, Start(f, r, d)) <=> Agree(f, g, Begin(r) - 1) /\ Value(Part(g, r)) = Value(d)
      /\ Begins(g, Start(f, r, d)) => Len(Start(f, r, d)) = End(r)
      /\ Start(f, r, d) \in Seq(Nat)
  <2> HIDE DEF d
  <2>1. QED
    BY <1>2, <1>3, StartMatches
<1>5. QED
  BY <1>2, <1>4, Zenon DEF NextHead

PrevHead(f, r) == Start(f, r, PrevIndex(f, r))
PrevTen(f, r) == Start(f, r, <<0>> \o PrevIndex(f, r))

LEMMA PrevIndexIs ==
  ASSUME NEW f \in Names, NEW r \in DigitParts[f], Value(Part(f, r)) < MaxInt, Value(Part(f, r)) >= 2
  PROVE  /\ PrevIndex(f, r) = Digits(Value(Part(f, r)) - 1)
         /\ PrevIndex(f, r) \in Numeral /\ PrevIndex(f, r) \in Seq(Nat)
         /\ Value(PrevIndex(f, r)) = Value(Part(f, r)) - 1
         /\ Len(PrevIndex(f, r)) \in Nat \ {0}
         /\ Len(Digits(Value(Part(f, r)))) =
              Len(PrevIndex(f, r)) + (IF IsTimesOfTen(Value(Part(f, r))) THEN 1 ELSE 0)
<1> DEFINE v == Value(Part(f, r))
<1>1. v \in Nat /\ v - 1 \in Nat /\ PrevIndex(f, r) = Digits(v - 1)
  BY FitValue DEF PrevIndex
<1>2. PrevIndex(f, r) \in Numeral /\ Value(PrevIndex(f, r)) = v - 1 /\ Len(PrevIndex(f, r)) \in Nat \ {0}
  BY <1>1, DigitsNumeral, ValueDigits
<1>3. PrevIndex(f, r) \in Seq(Nat)
  BY <1>2, DigitNat DEF Numeral
<1>4. Len(Digits(v)) = Len(Digits(v - 1)) + (IF IsTimesOfTen(v) THEN 1 ELSE 0)
  BY <1>1, DigitsBelow
<1>5. QED
  BY <1>1, <1>2, <1>3, <1>4, Zenon

\* Down from what is no power of ten.
LEMMA PrevHeadMatches ==
  ASSUME NEW f \in Names, NEW r \in DigitParts[f],
         Value(Part(f, r)) < MaxInt, Value(Part(f, r)) >= 2, ~IsTimesOfTen(Value(Part(f, r)))
  PROVE  /\ PrevPrefixes(f, r) = <<PrevHead(f, r)>> /\ PrevHead(f, r) \in Seq(Nat)
         /\ \A g \in Names : r \in DigitParts[g] =>
              /\ Begins(g, PrevHead(f, r)) <=>
                   Agree(f, g, Begin(r) - 1) /\ Value(Part(g, r)) = Value(Part(f, r)) - 1
              /\ Begins(g, PrevHead(f, r)) => Len(PrevHead(f, r)) = End(r)
<1> DEFINE v == Value(Part(f, r))
           d == PrevIndex(f, r)
<1>1. v \in Nat /\ ValueOrZero(Part(f, r)) = v /\ ~(v <= 1)
  BY FitValue
<1>2. d = Digits(v - 1) /\ d \in Numeral /\ Value(d) = v - 1 /\ Len(d) \in Nat \ {0}
      /\ Len(Digits(v)) = Len(d)
  BY PrevIndexIs
<1>3. Len(d) + 0 = Len(d)
  BY <1>2
<1>4. PrevRange(f, r) = Shortened(r, Len(d))
  BY <1>1, <1>3, Zenon DEF PrevRange
<1>5. PrevPrefixes(f, r) = <<Before(f, PrevRange(f, r)) \o d>>
  BY <1>1, Zenon DEF PrevPrefixes
<1>6. PrevPrefixes(f, r) = <<PrevHead(f, r)>>
  BY <1>4, <1>5, Zenon DEF PrevHead, Start
<1> HIDE DEF d
<1>7. PrevHead(f, r) \in Seq(Nat)
  BY <1>2, StartIs DEF PrevHead, d
<1>8. ASSUME NEW g \in Names, r \in DigitParts[g]
      PROVE  /\ Begins(g, Start(f, r, d)) <=> Agree(f, g, Begin(r) - 1) /\ Value(Part(g, r)) = Value(d)
             /\ Begins(g, Start(f, r, d)) => Len(Start(f, r, d)) = End(r)
  <2>1. Len(Digits(v)) <= Len(d) /\ d = Digits(Value(d))
    BY <1>2
  <2>2. QED
    BY <1>2, <1>8, <2>1, StartMatches
<1>9. QED
  BY <1>2, <1>6, <1>7, <1>8, Zenon DEF PrevHead, d

-----------------------------------------------------------------------------
(* A series is gone through in its order                                   *)

LEMMA BeforeAgree ==
  ASSUME NEW f \in Names, NEW g \in Names, NEW r \in DigitParts[f], r \in DigitParts[g],
         Before(f, r) = Before(g, r)
  PROVE  Agree(f, g, Begin(r) - 1)
<1> DEFINE n == Begin(r) - 1
<1>1. n \in Nat /\ n <= Len(f) /\ n <= Len(g) /\ 1 \in Nat \ {0}
  <2>1. /\ Begin(r) \in Nat \ {0} /\ End(r) \in Nat /\ Begin(r) <= End(r)
        /\ End(r) <= Len(f) /\ Len(f) \in Nat
    BY PartIs, NameIs
  <2>2. End(r) <= Len(g) /\ Len(g) \in Nat
    BY PartIs, NameIs
  <2>3. QED
    BY <2>1, <2>2
<1>2. \A i \in 1..(n - 1 + 1) : SubSeq(f, 1, n)[i] = f[1 + i - 1] /\ SubSeq(g, 1, n)[i] = g[1 + i - 1]
  <2> HIDE DEF n
  <2>1. \A i \in 1..(n - 1 + 1) : SubSeq(f, 1, n)[i] = f[1 + i - 1]
    BY <1>1, StretchIs, Zenon
  <2>2. \A i \in 1..(n - 1 + 1) : SubSeq(g, 1, n)[i] = g[1 + i - 1]
    BY <1>1, StretchIs, Zenon
  <2>3. QED
    BY <2>1, <2>2, Zenon
<1>3. SubSeq(f, 1, n) = SubSeq(g, 1, n)
  BY Zenon DEF Before
<1> HIDE DEF n
<1>4. \A i \in 1..n : f[i] = g[i]
  <2> TAKE i \in 1..n
  <2>1. i \in 1..(n - 1 + 1) /\ 1 + i - 1 = i
    BY <1>1
  <2>2. SubSeq(f, 1, n)[i] = f[i] /\ SubSeq(g, 1, n)[i] = g[i]
    BY <1>2, <2>1
  <2>3. QED
    BY <1>3, <2>2, Zenon
<1>5. QED
  BY <1>4, Zenon DEF Agree, n

LEMMA NoRight ==
  ASSUME NEW f \in Names, NEW r \in DigitParts[f], RightOf(f, r) = {}, NEW dir \in SUBSET Names,
         Value(Part(f, r)) < MaxInt
  PROVE  /\ NextFound(dir, f, r) = {g \in dir : Begins(g, NextHead(f, r))}
         /\ Value(Part(f, r)) <= 1 => PrevFound(dir, f, r) = {}
         /\ Value(Part(f, r)) >= 2 /\ ~IsTimesOfTen(Value(Part(f, r))) =>
              PrevFound(dir, f, r) = {g \in dir : Begins(g, PrevHead(f, r))}
<1>1. ValueOrZero(Part(f, r)) = Value(Part(f, r)) /\ Value(Part(f, r)) # MaxInt /\ Value(Part(f, r)) \in Nat
  BY FitValue
<1>2. NextFound(dir, f, r) = {g \in dir : Begins(g, NextHead(f, r))}
  <2>1. NextPrefixes(f, r) = <<NextHead(f, r)>>
    BY NextPrefixIs
  <2>2. NextFound(dir, f, r) = Matching(dir, NextHead(f, r))
    BY <1>1, <2>1, FoundOne, Zenon DEF NextFound
  <2>3. NextHead(f, r) \in Seq(Nat)
    BY NextIndexIs, StartIs DEF NextHead
  <2>4. QED
    BY <2>2, <2>3, MatchingIs
<1>3. Value(Part(f, r)) <= 1 => PrevFound(dir, f, r) = {}
  BY <1>1, Zenon DEF PrevFound
<1>4. ASSUME Value(Part(f, r)) >= 2, ~IsTimesOfTen(Value(Part(f, r)))
      PROVE  PrevFound(dir, f, r) = {g \in dir : Begins(g, PrevHead(f, r))}
  <2>1. ~(ValueOrZero(Part(f, r)) <= 1)
    BY <1>1, <1>4
  <2>2. PrevLast(f, r) = <<>>
    BY Zenon DEF PrevLast
  <2>3. PrevFound(dir, f, r) = FirstFound(dir, PrevPrefixes(f, r))
    BY <2>1, <2>2, Zenon DEF PrevFound
  <2>4. PrevPrefixes(f, r) = <<PrevHead(f, r)>> /\ PrevHead(f, r) \in Seq(Nat)
    BY <1>4, PrevHeadMatches
  <2>5. PrevFound(dir, f, r) = Matching(dir, PrevHead(f, r))
    BY <2>3, <2>4, FoundOne, Zenon
  <2>6. QED
    BY <2>4, <2>5, MatchingIs
<1>5. QED
  BY <1>2, <1>3, <1>4

LEMMA SingleIs ==
  ASSUME NEW f \in Names, NEW r, DigitParts[f] = {r}
  PROVE  Rightmost(DigitParts[f]) = r /\ RightOf(f, r) = {} /\ Number(f) = Value(Part(f, r))
<1>1. r \in DigitParts[f] /\ Begin(r) \in Nat
  BY PartIs
<1>2. RightOf(f, r) = {}
  BY <1>1 DEF RightOf
<1>3. Rightmost(DigitParts[f]) = r
  BY <1>1, <1>2, RightmostHit
<1>4. QED
  BY <1>2, <1>3, Zenon DEF Number

LEMMA SeriesInOrder == EpisodeTypeOK => SeriesInTurn
<1> SUFFICES ASSUME EpisodeTypeOK, IsSeries(files \cup {cur}), NumbersFit
             PROVE  /\ SearchNext(files, cur) = {f \in files : Number(f) = Number(cur) + 1}
                    /\ \/ Number(cur) > 0 /\ IsTimesOfTen(Number(cur))
                       \/ SearchPrevious(files, cur) =
                            {f \in files : Number(f) = Number(cur) - 1 /\ Number(f) > 0}
  BY DEF SeriesInTurn
<1>1. files \in SUBSET Names /\ cur \in Names
  BY DEF EpisodeTypeOK
<1>2. PICK r \in DigitParts[cur] : DigitParts[cur] = {r}
  BY DEF IsSeries
<1>3. \A g \in files \cup {cur} : DigitParts[g] = {r} /\ Before(cur, r) = Before(g, r)
  <2> TAKE g \in files \cup {cur}
  <2>1. PICK s \in DigitParts[cur] :
          DigitParts[cur] = {s} /\ DigitParts[g] = {s} /\ Before(cur, s) = Before(g, s)
    BY DEF IsSeries
  <2>2. s = r
    BY <1>2, <2>1
  <2>3. QED
    BY <2>1, <2>2
<1>4. \A g \in files : /\ g \in Names /\ r \in DigitParts[g] /\ Agree(cur, g, Begin(r) - 1)
                       /\ Number(g) = Value(Part(g, r)) /\ Number(g) \in Nat
  <2> TAKE g \in files
  <2>1. g \in Names /\ r \in DigitParts[g]
    BY <1>1, <1>3
  <2>2. Agree(cur, g, Begin(r) - 1)
    BY <1>1, <1>3, <2>1, BeforeAgree
  <2>3. Number(g) = Value(Part(g, r))
    BY <1>3, <2>1, SingleIs
  <2>4. QED
    BY <2>1, <2>2, <2>3, PartNumeral
<1>5. /\ RightOf(cur, r) = {} /\ Number(cur) = Value(Part(cur, r)) /\ Number(cur) \in Nat
      /\ Value(Part(cur, r)) < MaxInt
  <2>1. RightOf(cur, r) = {} /\ Number(cur) = Value(Part(cur, r))
    BY <1>1, <1>2, SingleIs
  <2>2. QED
    BY <1>1, <2>1, PartNumeral DEF NumbersFit, FitsAll
<1>6. SearchNext(files, cur) = {f \in files : Number(f) = Number(cur) + 1}
  <2>1. SearchNext(files, cur) = NextFound(files, cur, r)
    BY <1>1, <1>2, <1>5, NextAt
  <2>2. NextFound(files, cur, r) = {g \in files : Begins(g, NextHead(cur, r))}
    BY <1>1, <1>5, NoRight
  <2>3. \A g \in files : Begins(g, NextHead(cur, r)) <=> Number(g) = Number(cur) + 1
    <3> TAKE g \in files
    <3>1. Begins(g, NextHead(cur, r)) <=>
            Agree(cur, g, Begin(r) - 1) /\ Value(Part(g, r)) = Value(Part(cur, r)) + 1
      BY <1>1, <1>4, <1>5, NextHeadMatches
    <3>2. QED
      BY <1>4, <1>5, <3>1
  <2>4. QED
    BY <2>1, <2>2, <2>3
<1>7. SearchPrevious(files, cur) = PrevFound(files, cur, r)
  BY <1>1, <1>2, <1>5, PrevAt
<1>8. CASE Number(cur) <= 1
  <2>1. SearchPrevious(files, cur) = {}
    BY <1>1, <1>5, <1>7, <1>8, NoRight
  <2>2. \A g \in files : ~(Number(g) = Number(cur) - 1 /\ Number(g) > 0)
    BY <1>4, <1>5, <1>8
  <2>3. QED
    BY <1>6, <2>1, <2>2
<1>9. CASE Number(cur) >= 2 /\ ~IsTimesOfTen(Number(cur))
  <2>1. SearchPrevious(files, cur) = {g \in files : Begins(g, PrevHead(cur, r))}
    BY <1>1, <1>5, <1>7, <1>9, NoRight
  <2>2. \A g \in files : Begins(g, PrevHead(cur, r)) <=> Number(g) = Number(cur) - 1 /\ Number(g) > 0
    <3> TAKE g \in files
    <3>1. Begins(g, PrevHead(cur, r)) <=>
            Agree(cur, g, Begin(r) - 1) /\ Value(Part(g, r)) = Value(Part(cur, r)) - 1
      BY <1>1, <1>4, <1>5, <1>9, PrevHeadMatches
    <3>2. Begins(g, PrevHead(cur, r)) <=> Number(g) = Number(cur) - 1
      BY <1>4, <1>5, <3>1, Zenon
    <3>3. Number(g) = Number(cur) - 1 => Number(g) > 0
      BY <1>4, <1>5, <1>9
    <3>4. QED
      BY <3>2, <3>3
  <2>3. QED
    BY <1>6, <2>1, <2>2
<1>10. CASE Number(cur) > 0 /\ IsTimesOfTen(Number(cur))
  BY <1>6, <1>10
<1>11. QED
  <2>1. Number(cur) <= 1 \/ (Number(cur) >= 2 /\ Number(cur) > 0)
    BY <1>5
  <2>2. QED
    BY <1>8, <1>9, <1>10, <2>1, Zenon

\* In a series the next file is the one with the next number and the previous one
\* the one with the number before, whatever the base, the padding and the title.
THEOREM SeriesInTurnHolds == Spec => []SeriesInTurn
BY EpisodeTypeCorrect, SeriesInOrder, PTL

-----------------------------------------------------------------------------
(* Seasons                                                                 *)

\* Two numbers, r and s, at the same places, and the same text before each.
Shape(c, g, r, s) ==
  /\ DigitParts[c] = {r, s} /\ DigitParts[g] = {r, s} /\ Begin(r) < Begin(s)
  /\ Agree(c, g, Begin(r) - 1) /\ GapIs(c, g, End(r), Begin(s))

LEMMA PairIs ==
  ASSUME NEW f \in Names, NEW r, NEW s, DigitParts[f] = {r, s}, Begin(r) < Begin(s)
  PROVE  /\ r \in DigitParts[f] /\ s \in DigitParts[f]
         /\ Season(f) = Value(Part(f, r)) /\ Number(f) = Value(Part(f, s))
         /\ Season(f) \in Nat /\ Number(f) \in Nat
         /\ RightOf(f, r) = {s} /\ RightOf(f, s) = {} /\ Following(f, r) = s
         /\ End(r) + 1 < Begin(s)
<1>1. r \in DigitParts[f] /\ s \in DigitParts[f]
  OBVIOUS
<1>2. Begin(r) \in Nat /\ Begin(s) \in Nat
  BY <1>1, PartIs
<1>3. RightOf(f, r) = {s} /\ RightOf(f, s) = {}
  BY <1>1, <1>2 DEF RightOf
<1>4. Rightmost(DigitParts[f]) = s
  <2>1. \A t \in DigitParts[f] : t \notin RightOf(f, s)
    BY <1>3
  <2>2. QED
    BY <1>1, <2>1, RightmostHit
<1>5. Leftmost(DigitParts[f]) = r
  <2>1. Leftmost(DigitParts[f]) \in DigitParts[f] /\ Begin(Leftmost(DigitParts[f])) <= Begin(r)
    BY <1>1, LeftmostIs
  <2>2. Leftmost(DigitParts[f]) # s
    BY <1>2, <2>1
  <2>3. QED
    BY <2>1, <2>2
<1>6. Following(f, r) = s
  <2>1. RightOf(f, r) \subseteq DigitParts[f] /\ RightOf(f, r) # {}
    BY <1>1, <1>3
  <2>2. Leftmost(RightOf(f, r)) \in RightOf(f, r)
    BY <2>1, LeftmostIs
  <2>3. QED
    BY <1>3, <2>2 DEF Following
<1>7. Season(f) = Value(Part(f, r)) /\ Number(f) = Value(Part(f, s))
  BY <1>4, <1>5, Zenon DEF Season, Number
<1>8. End(r) + 1 < Begin(s)
  BY <1>1, PartsApart
<1>9. Season(f) \in Nat /\ Number(f) \in Nat
  BY <1>1, <1>7, PartNumeral
<1>10. QED
  BY <1>1, <1>3, <1>6, <1>7, <1>8, <1>9

LEMMA SameSeason ==
  ASSUME NEW c \in Names, NEW g \in Names, NEW r, NEW s, Shape(c, g, r, s)
  PROVE  Agree(c, g, Begin(s) - 1) <=> Season(g) = Season(c)
<1> DEFINE b == Begin(r)
           e == End(r)
           t == Begin(s)
           x == Part(c, r)
           y == Part(g, r)
<1>1. /\ DigitParts[c] = {r, s} /\ DigitParts[g] = {r, s} /\ b < t
      /\ Agree(c, g, b - 1) /\ GapIs(c, g, e, t)
  BY DEF Shape
<1>2. /\ r \in DigitParts[c] /\ r \in DigitParts[g] /\ s \in DigitParts[c] /\ e + 1 < t
      /\ Season(c) = Value(x) /\ Season(g) = Value(y)
  BY <1>1, PairIs
<1>3. /\ b \in Nat \ {0} /\ e \in Nat /\ t \in Nat /\ b <= e /\ e <= Len(c) /\ e <= Len(g)
  BY <1>2, PartIs
<1>4. /\ x \in Numeral /\ Len(x) = e - b + 1 /\ \A i \in 1..(e - b + 1) : x[i] = c[b + i - 1]
      /\ y \in Numeral /\ Len(y) = e - b + 1 /\ \A i \in 1..(e - b + 1) : y[i] = g[b + i - 1]
  BY <1>2, PartNumeral
<1>5. ASSUME Agree(c, g, t - 1) PROVE Value(x) = Value(y)
  <2>1. Agree(c, g, e)
    BY <1>2, <1>3, <1>5 DEF Agree
  <2>2. SubSeq(c, b, e) = SubSeq(g, b, e)
    BY <1>3, <2>1, SameStretch
  <2>3. QED
    BY <2>2, Zenon DEF Part
<1> HIDE DEF b, e, t, x, y
<1>6. ASSUME Value(x) = Value(y) PROVE Agree(c, g, t - 1)
  <2> DEFINE n == e - b + 1
  <2>1. n \in Nat /\ n <= n /\ n = Len(x) /\ n = Len(y)
    BY <1>3, <1>4
  <2> HIDE DEF n
  <2>2. Pads(x, y)
    BY <1>4, <1>6, <2>1, PadsIs
  <2>3. \A i \in 1..n : x[i] = IF i <= n - n THEN 0 ELSE y[i - (n - n)]
    BY <2>1, <2>2, Zenon DEF Pads
  <2>4. \A i \in 1..n : x[i] = y[i]
    <3> TAKE i \in 1..n
    <3>1. ~(i <= n - n) /\ i - (n - n) = i
      BY <2>1
    <3>2. QED
      BY <2>3, <3>1
  <2>5. ASSUME NEW i \in 1..(t - 1) PROVE c[i] = g[i]
    <3>1. CASE i < b
      BY <1>1, <1>3, <3>1 DEF Agree
    <3>2. CASE b <= i /\ i <= e
      <4>1. i - b + 1 \in 1..(e - b + 1) /\ b + (i - b + 1) - 1 = i
        BY <1>3, <3>2
      <4>2. x[i - b + 1] = c[i] /\ y[i - b + 1] = g[i]
        BY <1>4, <4>1
      <4>3. QED
        BY <2>4, <4>1, <4>2 DEF n
    <3>3. CASE e < i
      BY <1>1, <1>3, <3>3 DEF GapIs
    <3>4. QED
      BY <1>3, <3>1, <3>2, <3>3
  <2>6. QED
    BY <2>5 DEF Agree
<1>7. QED
  BY <1>2, <1>5, <1>6 DEF t

\* No episode is left out.
AllThere(dir) ==
  \A f \in dir :
    /\ Number(f) \in Nat /\ Season(f) \in Nat /\ Number(f) >= 1 /\ Season(f) >= 1
    /\ Number(f) > 1 => \E g \in dir : Season(g) = Season(f) /\ Number(g) = Number(f) - 1

LEMMA Descend ==
  ASSUME NEW dir, AllThere(dir), NEW h \in dir, NEW m \in Nat, 1 <= m, m <= Number(h)
  PROVE  \E g \in dir : Season(g) = Season(h) /\ Number(g) = m
<1> DEFINE S == {k \in Nat : \A f \in dir : Number(f) = m + k =>
                                \E g \in dir : Season(g) = Season(f) /\ Number(g) = m}
<1>1. 0 \in S
  OBVIOUS
<1>2. ASSUME NEW k \in Nat, k \in S PROVE k + 1 \in S
  <2> SUFFICES ASSUME NEW f \in dir, Number(f) = m + (k + 1)
               PROVE  \E g \in dir : Season(g) = Season(f) /\ Number(g) = m
    OBVIOUS
  <2>1. Number(f) > 1 /\ Number(f) - 1 = m + k
    OBVIOUS
  <2>2. PICK g \in dir : Season(g) = Season(f) /\ Number(g) = m + k
    BY <2>1 DEF AllThere
  <2>3. QED
    BY <1>2, <2>2
<1>3. \A k \in Nat : k \in S
  <2> HIDE DEF S
  <2>1. QED
    BY <1>1, <1>2, Induct
<1>4. Number(h) - m \in Nat /\ Number(h) = m + (Number(h) - m)
  BY DEF AllThere
<1>5. QED
  BY <1>3, <1>4

\* Where the number to the right begins at one again.
LEMMA AgainMatches ==
  ASSUME NEW c \in Names, NEW g \in Names, NEW r, NEW s, Shape(c, g, r, s),
         Season(c) < MaxInt, Number(c) < MaxInt
  PROVE  Begins(g, NextAgain(c, r, Width(NextLast(c, r)))) <=>
           Season(g) = Season(c) + 1 /\ Number(g) = 1
<1> DEFINE last == NextLast(c, r)
           w == Width(last)
           b == Begin(last)
           a == Begin(s)
           e == End(s)
           n == Len(NextIndex(c, s))
           y == Part(g, s)
           one == PaddedOne(w)
<1>1. /\ DigitParts[c] = {r, s} /\ DigitParts[g] = {r, s} /\ Begin(r) < a
      /\ Agree(c, g, Begin(r) - 1) /\ GapIs(c, g, End(r), a)
  BY DEF Shape
<1>2. /\ r \in DigitParts[c] /\ s \in DigitParts[c] /\ RightOf(c, r) = {s} /\ Following(c, r) = s
      /\ Season(c) = Value(Part(c, r)) /\ Number(c) = Value(Part(c, s)) /\ End(r) + 1 < a
  BY <1>1, PairIs
<1>3. /\ r \in DigitParts[g] /\ s \in DigitParts[g]
      /\ Season(g) = Value(Part(g, r)) /\ Number(g) = Value(y)
  BY <1>1, PairIs
<1>4. /\ a \in Nat \ {0} /\ e \in Nat /\ a <= e /\ e <= Len(g) /\ e <= Len(c) /\ End(r) \in Nat
  BY <1>2, <1>3, PartIs
<1>5. n \in Nat \ {0} /\ Len(Digits(Value(Part(c, s)))) <= n
  <2>1. NextIndex(c, s) = Digits(Value(Part(c, s)) + 1) /\ Value(Part(c, s)) \in Nat
    BY <1>2, FitValue, Zenon DEF NextIndex
  <2> DEFINE v == Value(Part(c, s))
  <2>2. v \in Nat /\ v + 1 \in Nat /\ v <= v + 1
    BY <2>1
  <2>3. Len(Digits(v)) <= Len(Digits(v + 1))
    <3> HIDE DEF v
    <3>1. QED
      BY <2>2, DigitsLonger
  <2>4. n \in Nat \ {0}
    BY <1>2, NextIndexIs
  <2>5. QED
    BY <2>1, <2>3, <2>4, Zenon
<1>6. last = Shortened(s, n)
  BY <1>2, NextLastIs DEF NextRange
<1>7. /\ b \in Nat \ {0} /\ a <= b /\ b <= e /\ End(last) = e
      /\ n <= Width(s) => b = e - n + 1
      /\ Width(s) <= n => b = a
      /\ Width(s) = e - a + 1 /\ w = e - b + 1
  BY <1>2, <1>5, <1>6, ShortenedIs DEF Width
<1>8. /\ y \in Numeral /\ Len(y) = e - a + 1 /\ \A i \in 1..(e - a + 1) : y[i] = g[a + i - 1]
  BY <1>3, PartNumeral
<1>9. /\ one \in Numeral /\ Len(one) = w /\ Value(one) = 1 /\ w \in Nat \ {0}
  <2>1. w \in Nat \ {0}
    <3> HIDE DEF w, b, e
    <3>1. QED
      BY <1>4, <1>7
  <2>2. QED
    BY <2>1, PaddedOneIs, Zenon
<1>10. /\ Begins(g, NextHead(c, r)) <=> Season(g) = Season(c) + 1
       /\ Begins(g, NextHead(c, r)) => Len(NextHead(c, r)) = End(r)
  BY <1>1, <1>2, <1>3, NextHeadMatches
<1>11. /\ Begins(g, NextAgain(c, r, w)) => Begins(g, NextHead(c, r))
       /\ Len(NextHead(c, r)) = End(r) =>
             (Begins(g, NextAgain(c, r, w)) <=>
                Begins(g, NextHead(c, r)) /\ GapIs(c, g, End(r), b) /\ OneAt(g, b, w))
  BY <1>2, <1>9, NextAgainIs
<1> HIDE DEF last, w, b, a, e, n, y, one
<1>12. \A i \in a..(b - 1) : c[i] = 0
  <2> TAKE i \in a..(b - 1)
  <2>1. i \in a..(e - n)
    BY <1>4, <1>5, <1>7
  <2>2. QED
    BY <1>2, <1>5, <2>1, ZerosBefore DEF a, e
<1>13. Number(g) = 1 <=> \A i \in 1..(e - a + 1) : y[i] = IF i <= (e - a + 1) - w THEN 0 ELSE one[i - ((e - a + 1) - w)]
  <2> DEFINE m == e - a + 1
  <2>1. m \in Nat /\ w \in Nat /\ m = Len(y) /\ w = Len(one) /\ w <= m
    BY <1>4, <1>7, <1>8, <1>9
  <2> HIDE DEF m
  <2>2. Value(y) = Value(one) <=> Pads(y, one)
    BY <1>8, <1>9, <2>1, PadsIs
  <2>3. Pads(y, one) <=> \A i \in 1..m : y[i] = IF i <= m - w THEN 0 ELSE one[i - (m - w)]
    BY <2>1, Zenon DEF Pads
  <2>4. QED
    BY <1>3, <1>9, <2>2, <2>3, Zenon DEF m
<1>14. ASSUME GapIs(c, g, End(r), b), OneAt(g, b, w) PROVE Number(g) = 1
  <2>1. ASSUME NEW i \in 1..(e - a + 1), i <= (e - a + 1) - w PROVE y[i] = 0
    <3>1. a + i - 1 \in a..(b - 1) /\ a + i - 1 \in (End(r) + 1)..(b - 1)
      BY <1>2, <1>4, <1>7, <2>1 DEF a
    <3>2. g[a + i - 1] = c[a + i - 1]
      BY <1>14, <3>1 DEF GapIs
    <3>3. QED
      BY <1>8, <1>12, <3>1, <3>2
  <2>2. ASSUME NEW i \in 1..(e - a + 1), ~(i <= (e - a + 1) - w)
        PROVE  y[i] = one[i - ((e - a + 1) - w)]
    <3> DEFINE k == i - ((e - a + 1) - w)
    <3>1. k \in 1..w /\ b - 1 + k = a + i - 1
      BY <1>4, <1>7, <2>2
    <3> HIDE DEF k
    <3>2. g[b - 1 + k] = one[k]
      BY <1>14, <3>1 DEF OneAt, one
    <3>3. y[i] = one[k]
      BY <1>8, <3>1, <3>2
    <3>4. QED
      BY <3>3 DEF k
  <2>3. QED
    BY <1>13, <2>1, <2>2
<1>15. ASSUME Number(g) = 1 PROVE GapIs(c, g, End(r), b) /\ OneAt(g, b, w)
  <2>1. ASSUME NEW i \in (End(r) + 1)..(b - 1) PROVE g[i] = c[i]
    <3>1. CASE i < a
      <4>1. i \in (End(r) + 1)..(a - 1)
        BY <1>4, <3>1
      <4>2. QED
        BY <1>1, <4>1 DEF GapIs, a
    <3>2. CASE ~(i < a)
      <4> DEFINE k == i - a + 1
      <4>1. k \in 1..(e - a + 1) /\ k <= (e - a + 1) - w /\ a + k - 1 = i /\ i \in a..(b - 1)
        BY <1>4, <1>7, <3>2
      <4> HIDE DEF k
      <4>2. y[k] = 0 /\ y[k] = g[i]
        BY <1>8, <1>13, <1>15, <4>1
      <4>3. QED
        BY <1>12, <4>1, <4>2
    <3>3. QED
      BY <3>1, <3>2
  <2>2. ASSUME NEW i \in 1..w PROVE g[b - 1 + i] = one[i]
    <3> DEFINE k == i + ((e - a + 1) - w)
    <3>1. /\ k \in 1..(e - a + 1) /\ ~(k <= (e - a + 1) - w) /\ k - ((e - a + 1) - w) = i
          /\ a + k - 1 = b - 1 + i
      BY <1>4, <1>7, <1>9
    <3> HIDE DEF k
    <3>2. y[k] = one[i]
      BY <1>13, <1>15, <3>1
    <3>3. QED
      BY <1>8, <3>1, <3>2
  <2>3. b - 1 + w <= Len(g)
    BY <1>4, <1>7
  <2>4. QED
    BY <2>1, <2>2, <2>3 DEF GapIs, OneAt, one
<1>16. QED
  BY <1>10, <1>11, <1>14, <1>15, Zenon DEF w, last

-----------------------------------------------------------------------------
(* "Next" through the seasons                                              *)

LEMMA FoundFirst ==
  ASSUME NEW dir, NEW prefixes, DOMAIN prefixes \subseteq Nat \ {0}, 1 \in DOMAIN prefixes,
         \/ Matching(dir, prefixes[1]) # {}
         \/ \A i \in DOMAIN prefixes : Matching(dir, prefixes[i]) = {}
  PROVE  FirstFound(dir, prefixes) = Matching(dir, prefixes[1])
<1>1. CASE Matching(dir, prefixes[1]) # {}
  <2>1. DOMAIN prefixes \subseteq Nat /\ \A i \in DOMAIN prefixes : ~(i < 1)
    OBVIOUS
  <2>2. QED
    BY <1>1, <2>1, FoundAt
<1>2. CASE \A i \in DOMAIN prefixes : Matching(dir, prefixes[i]) = {}
  <2>1. {i \in DOMAIN prefixes : Matching(dir, prefixes[i]) # {}} = {}
    BY <1>2
  <2>2. Matching(dir, prefixes[1]) = {}
    BY <1>2
  <2>3. QED
    BY <2>1, <2>2, Zenon DEF FirstFound
<1>3. QED
  BY <1>1, <1>2

\* A directory of seasons, with the numbers at r and s.
Seasons(dir, c, r, s) ==
  /\ dir \in SUBSET Names /\ c \in dir /\ AllThere(dir)
  /\ \A g \in dir : Shape(c, g, r, s) /\ Number(g) < MaxInt /\ Season(g) < MaxInt

LEMMA SeasonsHave ==
  ASSUME NEW dir, NEW c, NEW r, NEW s, Seasons(dir, c, r, s), NEW g \in dir
  PROVE  /\ c \in Names /\ g \in Names /\ Shape(c, g, r, s) /\ DigitParts[g] = {r, s}
         /\ DigitParts[c] = {r, s} /\ Begin(r) < Begin(s)
         /\ r \in DigitParts[g] /\ s \in DigitParts[g]
         /\ Season(g) = Value(Part(g, r)) /\ Number(g) = Value(Part(g, s))
         /\ Season(g) \in Nat /\ Number(g) \in Nat /\ Season(g) >= 1 /\ Number(g) >= 1
         /\ Season(g) < MaxInt /\ Number(g) < MaxInt
<1>1. /\ c \in Names /\ g \in Names /\ Shape(c, g, r, s) /\ Season(g) < MaxInt /\ Number(g) < MaxInt
      /\ Season(g) >= 1 /\ Number(g) >= 1
  BY DEF Seasons, AllThere
<1>2. DigitParts[g] = {r, s} /\ DigitParts[c] = {r, s} /\ Begin(r) < Begin(s)
  BY <1>1 DEF Shape
<1>3. /\ r \in DigitParts[g] /\ s \in DigitParts[g]
      /\ Season(g) = Value(Part(g, r)) /\ Number(g) = Value(Part(g, s))
      /\ Season(g) \in Nat /\ Number(g) \in Nat
  BY <1>1, <1>2, PairIs
<1>4. QED
  BY <1>1, <1>2, <1>3

LEMMA EpisodeUp ==
  ASSUME NEW dir, NEW c, NEW r, NEW s, Seasons(dir, c, r, s)
  PROVE  NextFound(dir, c, s) = {g \in dir : Season(g) = Season(c) /\ Number(g) = Number(c) + 1}
<1>1. c \in dir /\ dir \in SUBSET Names
  BY DEF Seasons
<1>2. /\ c \in Names /\ s \in DigitParts[c] /\ Value(Part(c, s)) < MaxInt /\ Number(c) = Value(Part(c, s))
      /\ DigitParts[c] = {r, s} /\ Begin(r) < Begin(s)
  BY <1>1, SeasonsHave
<1>3. RightOf(c, s) = {}
  BY <1>2, PairIs
<1>4. NextFound(dir, c, s) = {g \in dir : Begins(g, NextHead(c, s))}
  BY <1>1, <1>2, <1>3, NoRight
<1>5. \A g \in dir : Begins(g, NextHead(c, s)) <=> Season(g) = Season(c) /\ Number(g) = Number(c) + 1
  <2> TAKE g \in dir
  <2>1. g \in Names /\ Shape(c, g, r, s) /\ s \in DigitParts[g] /\ Number(g) = Value(Part(g, s))
    BY SeasonsHave
  <2>2. Begins(g, NextHead(c, s)) <=>
          Agree(c, g, Begin(s) - 1) /\ Value(Part(g, s)) = Value(Part(c, s)) + 1
    BY <1>2, <2>1, NextHeadMatches
  <2>3. Agree(c, g, Begin(s) - 1) <=> Season(g) = Season(c)
    BY <1>2, <2>1, SameSeason
  <2>4. QED
    BY <1>2, <2>1, <2>2, <2>3
<1>6. QED
  BY <1>4, <1>5

LEMMA SeasonUp ==
  ASSUME NEW dir, NEW c, NEW r, NEW s, Seasons(dir, c, r, s)
  PROVE  NextFound(dir, c, r) = {g \in dir : Season(g) = Season(c) + 1 /\ Number(g) = 1}
<1> DEFINE E == {g \in dir : Season(g) = Season(c) + 1 /\ Number(g) = 1}
           P == NextPrefixes(c, r)
           w == Width(NextLast(c, r))
           a == NextAgain(c, r, w)
           o == NextAgain(c, r, 1)
           h == NextHead(c, r)
<1>1. c \in dir /\ dir \in SUBSET Names /\ AllThere(dir)
  BY DEF Seasons
<1>2. /\ c \in Names /\ r \in DigitParts[c] /\ Value(Part(c, r)) < MaxInt /\ Season(c) = Value(Part(c, r))
      /\ Season(c) < MaxInt /\ Number(c) < MaxInt /\ Season(c) \in Nat
      /\ DigitParts[c] = {r, s} /\ Begin(r) < Begin(s)
  BY <1>1, SeasonsHave
<1>3. RightOf(c, r) # {}
  BY <1>2, PairIs
<1>4. NextFound(dir, c, r) = FirstFound(dir, P)
  BY <1>2, FitValue, Zenon DEF NextFound
<1>5. w \in Nat \ {0} /\ ((w > 1 /\ P = <<a, o, h>>) \/ (w = 1 /\ P = <<o, h>>))
  BY <1>2, <1>3, NextLastIs, NextPrefixIs
<1>6. a \in Seq(Nat) /\ o \in Seq(Nat) /\ h \in Seq(Nat)
  <2>1. 1 \in Nat \ {0}
    OBVIOUS
  <2>2. a \in Seq(Nat) /\ o \in Seq(Nat)
    BY <1>2, <1>3, <1>5, <2>1, NextAgainIs, Zenon
  <2>3. QED
    BY <1>2, <2>2, NextIndexIs, StartIs DEF NextHead
<1>7. ASSUME NEW g \in dir
      PROVE  /\ Begins(g, a) <=> Season(g) = Season(c) + 1 /\ Number(g) = 1
             /\ Begins(g, h) <=> Season(g) = Season(c) + 1
             /\ Begins(g, o) => Begins(g, h)
  <2>1. /\ g \in Names /\ Shape(c, g, r, s) /\ r \in DigitParts[g] /\ Season(g) = Value(Part(g, r))
    BY SeasonsHave
  <2>2. Begins(g, a) <=> Season(g) = Season(c) + 1 /\ Number(g) = 1
    BY <1>2, <2>1, AgainMatches, Zenon
  <2>3. Begins(g, h) <=> Agree(c, g, Begin(r) - 1) /\ Value(Part(g, r)) = Value(Part(c, r)) + 1
    BY <1>2, <2>1, NextHeadMatches
  <2>4. Agree(c, g, Begin(r) - 1)
    BY <2>1 DEF Shape
  <2>5. Begins(g, o) => Begins(g, h)
    <3>1. 1 \in Nat \ {0}
      OBVIOUS
    <3>2. QED
      BY <1>2, <1>3, <2>1, <3>1, NextAgainIs, Zenon
  <2>6. QED
    BY <1>2, <2>1, <2>2, <2>3, <2>4, <2>5, Zenon
<1> HIDE DEF a, o, h, P, w
<1>8. Matching(dir, a) = E
  <2>1. Matching(dir, a) = {g \in dir : Begins(g, a)}
    BY <1>1, <1>6, MatchingIs
  <2>2. QED
    BY <1>7, <2>1
<1>9. ASSUME E = {} PROVE Matching(dir, a) = {} /\ Matching(dir, o) = {} /\ Matching(dir, h) = {}
  <2>1. \A g \in dir : Season(g) # Season(c) + 1
    <3> SUFFICES ASSUME NEW g \in dir, Season(g) = Season(c) + 1 PROVE FALSE
      OBVIOUS
    <3>1. Number(g) \in Nat /\ Number(g) >= 1
      BY SeasonsHave
    <3>2. PICK k \in dir : Season(k) = Season(g) /\ Number(k) = 1
      BY <1>1, <3>1, Descend
    <3>3. k \in E
      BY <3>2
    <3>4. QED
      BY <1>9, <3>3
  <2>2. \A g \in dir : ~Begins(g, h) /\ ~Begins(g, o)
    BY <1>7, <2>1
  <2>3. Matching(dir, o) = {g \in dir : Begins(g, o)} /\ Matching(dir, h) = {g \in dir : Begins(g, h)}
    BY <1>1, <1>6, MatchingIs
  <2>4. QED
    BY <1>8, <1>9, <2>2, <2>3
<1>10. /\ DOMAIN P \subseteq Nat \ {0} /\ 1 \in DOMAIN P
       /\ \A i \in DOMAIN P : P[i] \in {a, o, h}
  BY <1>5
<1>11. P[1] = a
  <2>1. w = 1 => a = o
    BY Zenon DEF a, o
  <2>2. QED
    BY <1>5, <2>1
<1>12. FirstFound(dir, P) = Matching(dir, P[1])
  <2>1. Matching(dir, P[1]) # {} \/ \A i \in DOMAIN P : Matching(dir, P[i]) = {}
    <3> HIDE DEF E
    <3>1. CASE E = {}
      BY <1>9, <1>10, <3>1
    <3>2. CASE E # {}
      BY <1>8, <1>11, <3>2
    <3>3. QED
      BY <3>1, <3>2
  <2>2. QED
    BY <1>10, <2>1, FoundFirst
<1>13. QED
  BY <1>4, <1>8, <1>11, <1>12, Zenon

LEMMA NextInOrder ==
  ASSUME NEW dir, NEW c, NEW r, NEW s, Seasons(dir, c, r, s)
  PROVE  SearchNext(dir, c) = {f \in dir : Follows(dir, f, c)}
<1>1. c \in dir /\ dir \in SUBSET Names /\ AllThere(dir)
  BY DEF Seasons
<1>2. /\ c \in Names /\ r \in DigitParts[c] /\ s \in DigitParts[c]
      /\ Season(c) \in Nat /\ Number(c) \in Nat /\ Number(c) >= 1
      /\ DigitParts[c] = {r, s} /\ Begin(r) < Begin(s)
  BY <1>1, SeasonsHave
<1>3. RightOf(c, r) = {s} /\ RightOf(c, s) = {}
  BY <1>2, PairIs
<1>4. NextFound(dir, c, s) = {g \in dir : Season(g) = Season(c) /\ Number(g) = Number(c) + 1}
  BY EpisodeUp
<1>5. NextFound(dir, c, r) = {g \in dir : Season(g) = Season(c) + 1 /\ Number(g) = 1}
  BY SeasonUp
<1>6. \A f \in dir : Number(f) \in Nat /\ Season(f) \in Nat
  BY SeasonsHave
<1>7. CASE NextFound(dir, c, s) # {}
  <2>1. SearchNext(dir, c) = NextFound(dir, c, s)
    BY <1>2, <1>3, <1>7, NextAt
  <2>2. PICK k \in dir : Season(k) = Season(c) /\ Number(k) = Number(c) + 1
    BY <1>4, <1>7
  <2>3. ~(\A h \in dir : Season(h) = Season(c) => Number(h) <= Number(c))
    BY <1>2, <2>2
  <2>4. \A f \in dir : Follows(dir, f, c) <=> Season(f) = Season(c) /\ Number(f) = Number(c) + 1
    BY <2>3, Zenon DEF Follows
  <2>5. QED
    BY <1>4, <2>1, <2>4
<1>8. CASE NextFound(dir, c, s) = {}
  <2>1. SearchNext(dir, c) = NextFound(dir, c, r)
    <3>1. \A t \in RightOf(c, r) : NextFound(dir, c, t) = {}
      BY <1>3, <1>8
    <3>2. \A t \in DigitParts[c] : t # r => NextFound(dir, c, t) = {}
      BY <1>2, <1>8
    <3>3. QED
      BY <1>2, <3>1, <3>2, NextAt
  <2>2. \A h \in dir : Season(h) = Season(c) => Number(h) <= Number(c)
    <3> SUFFICES ASSUME NEW h \in dir, Season(h) = Season(c), ~(Number(h) <= Number(c)) PROVE FALSE
      OBVIOUS
    <3>1. Number(c) + 1 \in Nat /\ 1 <= Number(c) + 1 /\ Number(c) + 1 <= Number(h)
      BY <1>2, <1>6
    <3>2. PICK k \in dir : Season(k) = Season(h) /\ Number(k) = Number(c) + 1
      BY <1>1, <3>1, Descend
    <3>3. QED
      BY <1>4, <1>8, <3>2
  <2>3. \A f \in dir : ~(Season(f) = Season(c) /\ Number(f) = Number(c) + 1)
    BY <1>4, <1>8
  <2>4. \A f \in dir : Follows(dir, f, c) <=> Season(f) = Season(c) + 1 /\ Number(f) = 1
    BY <2>2, <2>3, Zenon DEF Follows
  <2>5. QED
    BY <1>5, <2>1, <2>4
<1>9. QED
  BY <1>7, <1>8

-----------------------------------------------------------------------------
(* "Previous" through the seasons                                          *)

LEMMA FirstDigitsIs ==
  ASSUME NEW g \in Names, NEW s \in DigitParts[g], NEW p, Len(p) = Begin(s) - 1
  PROVE  FirstDigitPart(g, p) = Part(g, s)
<1> DEFINE b == Begin(s)
           e == End(s)
           T == {i \in Len(p)..Len(g) : \A j \in (Len(p) + 1)..i : IsDigit(g[j])}
<1>1. /\ b \in Nat \ {0} /\ e \in Nat /\ b <= e /\ e <= Len(g) /\ Len(g) \in Nat
      /\ \A i \in b..e : g[i] \in Digit
      /\ e < Len(g) => g[e + 1] \notin Digit
  BY PartIs, NameIs
<1>2. Len(p) = b - 1 /\ Len(p) + 1 = b
  BY <1>1
<1> HIDE DEF b, e
<1>3. \A i \in 1..Len(g) : IsDigit(g[i]) <=> g[i] \in Digit
  BY DigitNat, NameIs
<1>4. e \in T
  <2>1. \A j \in b..e : IsDigit(g[j])
    BY <1>1, <1>3
  <2>2. QED
    BY <1>1, <1>2, <2>1
<1>5. \A i \in T : i <= e
  <2> SUFFICES ASSUME NEW i \in T, ~(i <= e) PROVE FALSE
    OBVIOUS
  <2>1. e + 1 \in (Len(p) + 1)..i /\ i <= Len(g) /\ e + 1 \in 1..Len(g) /\ e < Len(g)
    BY <1>1, <1>2
  <2>2. IsDigit(g[e + 1])
    BY <2>1
  <2>3. QED
    BY <1>1, <1>3, <2>1, <2>2
<1>6. Max(T) = e
  <2>1. \A i \in T : i \in Nat
    BY <1>1, <1>2
  <2> HIDE DEF T
  <2>2. \A x \in T : (\A y \in T : x >= y) <=> x = e
    BY <1>1, <1>4, <1>5, <2>1
  <2>3. QED
    BY <1>4, <2>2 DEF Max
<1>7. QED
  BY <1>2, <1>6, Zenon DEF FirstDigitPart, Part, b, e

\* What the season of the number k has for its last episode.
LastOf(dir, k) == {f \in dir : Season(f) = k /\ \A g \in dir : Season(g) = k => Number(g) <= Number(f)}

LEMMA LastIs ==
  ASSUME NEW dir, NEW c, NEW r, NEW s, Seasons(dir, c, r, s), NEW k, NEW x \in Seq(Nat),
         \A g \in dir : /\ Begins(g, x) <=> Season(g) = k
                        /\ Begins(g, x) => Len(x) = End(r)
  PROVE  LastOfSeason(dir, x \o SubSeq(c, End(r) + 1, Begin(s) - 1)) = LastOf(dir, k)
<1> DEFINE e == End(r)
           b == Begin(s)
           y == SubSeq(c, e + 1, b - 1)
           z == x \o y
<1>1. c \in dir /\ dir \in SUBSET Names
  BY DEF Seasons
<1>2. /\ c \in Names /\ DigitParts[c] = {r, s} /\ Begin(r) < b /\ r \in DigitParts[c] /\ s \in DigitParts[c]
  BY <1>1, SeasonsHave
<1>3. e \in Nat /\ b \in Nat \ {0} /\ e < b /\ b <= Len(c) /\ e + 1 < b
  <2>1. e \in Nat /\ b \in Nat \ {0} /\ b <= End(s) /\ End(s) <= Len(c) /\ End(s) \in Nat /\ Len(c) \in Nat
    BY <1>2, PartIs, NameIs
  <2>2. e + 1 < b
    BY <1>2, PartsApart
  <2>3. QED
    BY <2>1, <2>2
<1>4. y \in Seq(Nat) /\ Len(y) = b - 1 - e
  <2> HIDE DEF e, b
  <2>1. QED
    BY <1>2, <1>3, BetweenIs
<1>5. <<>> \in Seq(Nat) /\ Len(<<>>) = 0
  OBVIOUS
<1> HIDE DEF e, b, y
<1>6. z \in Seq(Nat) /\ Len(z) = Len(x) + Len(y) /\ z \o <<>> = z
  <2>1. z \in Seq(Nat) /\ Len(z) = Len(x) + Len(y)
    BY <1>4, ConcatProperties, Zenon
  <2> HIDE DEF z
  <2>2. QED
    BY <2>1, ConcatEmptySeq, Zenon
<1>7. ASSUME NEW g \in dir PROVE Begins(g, z) <=> Season(g) = k
  <2>1. g \in Names /\ Shape(c, g, r, s) /\ s \in DigitParts[g]
    BY SeasonsHave
  <2>2. GapFacts(c, g, x, <<>>, e, b)
    BY <1>2, <1>3, <1>5, <2>1, GapBegins
  <2>3. Len(x) = e => (Begins(g, z \o <<>>) <=> /\ Begins(g, x) /\ GapIs(c, g, e, b)
                                                 /\ b - 1 + Len(<<>>) <= Len(g)
                                                 /\ \A i \in 1..Len(<<>>) : g[b - 1 + i] = <<>>[i])
    BY <2>2, Zenon DEF GapFacts, y
  <2>4. Begins(g, z \o <<>>) => Begins(g, x)
    BY <2>2, Zenon DEF GapFacts, y
  <2>5. GapIs(c, g, e, b)
    BY <2>1 DEF Shape, e, b
  <2>6. b - 1 + Len(<<>>) <= Len(g) /\ \A i \in 1..Len(<<>>) : g[b - 1 + i] = <<>>[i]
    <3>1. b <= Len(g)
      <4>1. b <= End(s) /\ End(s) <= Len(g) /\ End(s) \in Nat /\ Len(g) \in Nat
        BY <2>1, PartIs, NameIs DEF b
      <4>2. QED
        BY <1>3, <4>1
    <3>2. Len(g) \in Nat
      BY <2>1, NameIs
    <3>3. QED
      BY <1>3, <1>5, <3>1, <3>2
  <2>7. Begins(g, z) <=> Begins(g, x)
    BY <1>6, <2>3, <2>4, <2>5, <2>6, Zenon DEF e
  <2>8. QED
    BY <2>7
<1>8. ASSUME NEW g \in dir, Begins(g, z) PROVE EpisodeIn(g, z) = Number(g)
  <2>1. /\ g \in Names /\ s \in DigitParts[g] /\ Number(g) = Value(Part(g, s)) /\ Number(g) < MaxInt
    BY SeasonsHave
  <2>2. Len(x) = e
    BY <1>7, <1>8 DEF e
  <2>3. Len(z) = Begin(s) - 1
    BY <1>3, <1>4, <1>6, <2>2 DEF b
  <2>4. FirstDigitPart(g, z) = Part(g, s)
    BY <2>1, <2>3, FirstDigitsIs
  <2>5. Part(g, s) # <<>>
    BY <2>1, PartNumeral DEF Numeral
  <2>6. ValueOrZero(Part(g, s)) = Number(g)
    BY <2>1, FitValue
  <2>7. QED
    BY <2>4, <2>5, <2>6, Zenon DEF EpisodeIn
<1> HIDE DEF z
<1>9. Matching(dir, z) = {g \in dir : Season(g) = k}
  <2>1. Matching(dir, z) = {g \in dir : Begins(g, z)}
    BY <1>1, <1>6, MatchingIs
  <2>2. QED
    BY <1>7, <2>1
<1>10. \A g \in dir : Number(g) \in Nat /\ Number(g) > 0
  <2> TAKE g \in dir
  <2>1. Number(g) \in Nat /\ Number(g) >= 1
    BY SeasonsHave
  <2>2. QED
    BY <2>1
<1>11. \A g \in Matching(dir, z) : EpisodeIn(g, z) = Number(g)
  BY <1>7, <1>8, <1>9
<1>12. LastOfSeason(dir, z) = LastOf(dir, k)
  <2>1. LastOfSeason(dir, z) =
          {f \in Matching(dir, z) : /\ EpisodeIn(f, z) > 0
                                    /\ \A g \in Matching(dir, z) : EpisodeIn(g, z) <= EpisodeIn(f, z)}
    BY Zenon DEF LastOfSeason
  <2>2. QED
    BY <1>9, <1>10, <1>11, <2>1 DEF LastOf
<1>13. QED
  BY <1>12, Zenon DEF z, y, e, b

LEMMA ZeroFirst ==
  ASSUME NEW d \in Numeral
  PROVE  /\ <<0>> \o d \in Numeral /\ Len(<<0>> \o d) = Len(d) + 1 /\ Value(<<0>> \o d) = Value(d)
<1> DEFINE z == <<0>> \o d
           n == Len(d)
<1>1. 0 \in Digit /\ <<0>> \in Seq(Digit) /\ Len(<<0>>) = 1 /\ <<0>>[1] = 0
  <2>1. 0 \in Digit
    BY Bases DEF Digit
  <2>2. QED
    BY <2>1
<1>2. d \in Seq(Digit) /\ d \in Seq(Nat) /\ n \in Nat \ {0}
  BY DigitNat, EmptySeq, LenProperties DEF Numeral
<1>3. /\ z \in Seq(Digit) /\ Len(z) = Len(<<0>>) + n
      /\ \A i \in 1..(Len(<<0>>) + n) : z[i] = IF i <= Len(<<0>>) THEN <<0>>[i] ELSE d[i - Len(<<0>>)]
  BY <1>1, <1>2, ConcatProperties, Zenon
<1> HIDE DEF z, n
<1>4. /\ z \in Seq(Digit) /\ Len(z) = n + 1
      /\ \A i \in 1..(n + 1) : z[i] = IF i <= 1 THEN 0 ELSE d[i - 1]
  <2>1. 1 + n = n + 1
    BY <1>2
  <2>2. \A i \in 1..(n + 1) : z[i] = IF i <= 1 THEN 0 ELSE d[i - 1]
    <3> TAKE i \in 1..(n + 1)
    <3>1. z[i] = IF i <= 1 THEN <<0>>[i] ELSE d[i - 1]
      BY <1>1, <1>3, <2>1, Zenon
    <3>2. i <= 1 => i = 1
      BY <1>2
    <3>3. QED
      BY <1>1, <3>1, <3>2, Zenon
  <2>3. QED
    BY <1>1, <1>3, <2>1, <2>2
<1>5. z \in Numeral /\ z \in Seq(Nat)
  BY <1>2, <1>4, EmptySeq, DigitNat DEF Numeral
<1>6. Pads(z, d)
  <2> DEFINE m == n + 1
  <2>1. m \in Nat /\ n <= m /\ m - n = 1 /\ m = Len(z) /\ n = Len(d)
    BY <1>2, <1>4 DEF n
  <2>2. \A i \in 1..m : z[i] = IF i <= m - n THEN 0 ELSE d[i - (m - n)]
    BY <1>4, <2>1
  <2> HIDE DEF m
  <2>3. QED
    BY <2>1, <2>2, Zenon DEF Pads
<1>7. Value(z) = Value(d)
  BY <1>2, <1>5, <1>6, PadsValue
<1>8. QED
  BY <1>4, <1>5, <1>7, Zenon DEF z, n

\* "10 - 1 = 9": the first form, in a range that has a place more.
PrevPlain(f, r) == Before(f, PrevRange(f, r)) \o PrevIndex(f, r)

\* Down from a power of ten.
LEMMA PrevTenMatches ==
  ASSUME NEW f \in Names, NEW r \in DigitParts[f],
         Value(Part(f, r)) < MaxInt, Value(Part(f, r)) >= 2, IsTimesOfTen(Value(Part(f, r)))
  PROVE  /\ PrevPrefixes(f, r) = <<PrevPlain(f, r), PrevTen(f, r)>>
         /\ PrevPlain(f, r) \in Seq(Nat) /\ Len(PrevPlain(f, r)) = End(r) - 1
         /\ PrevTen(f, r) \in Seq(Nat)
         /\ \A g \in Names : r \in DigitParts[g] =>
              /\ Begins(g, PrevTen(f, r)) <=>
                   Agree(f, g, Begin(r) - 1) /\ Value(Part(g, r)) = Value(Part(f, r)) - 1
              /\ Begins(g, PrevTen(f, r)) => Len(PrevTen(f, r)) = End(r)
<1> DEFINE v == Value(Part(f, r))
           d == PrevIndex(f, r)
           z == <<0>> \o d
           n == Len(d)
           q == Shortened(r, n + 1)
<1>1. v \in Nat /\ ValueOrZero(Part(f, r)) = v /\ ~(v <= 1)
  BY FitValue
<1>2. /\ d \in Numeral /\ d \in Seq(Nat) /\ Value(d) = v - 1 /\ n \in Nat \ {0}
      /\ Len(Digits(v)) = n + 1
  BY PrevIndexIs
<1>3. z \in Numeral /\ Len(z) = n + 1 /\ Value(z) = v - 1
  BY <1>2, ZeroFirst
<1>4. PrevRange(f, r) = q
  BY <1>1, Zenon DEF PrevRange
<1>5. PrevPrefixes(f, r) = <<PrevPlain(f, r), Before(f, q) \o <<0>> \o d>>
  BY <1>1, <1>4, Zenon DEF PrevPrefixes, PrevPlain
<1>6. /\ End(r) \in Nat /\ Begin(r) \in Nat \ {0} /\ Begin(r) <= End(r) /\ End(r) <= Len(f) /\ Len(f) \in Nat
  BY PartIs, NameIs
<1>7. n + 1 <= Width(r)
  BY <1>2, PartNumeral, DigitsFit
<1>8. Begin(q) = End(r) - n /\ Begin(q) \in Nat \ {0} /\ Begin(q) <= Len(f)
  <2>1. n + 1 \in Nat \ {0}
    BY <1>2
  <2>2. Begin(q) = End(r) - (n + 1) + 1 /\ Begin(q) \in Nat \ {0} /\ Begin(q) <= End(r)
    BY <1>7, <2>1, ShortenedIs
  <2> HIDE DEF q
  <2>3. QED
    BY <1>2, <1>6, <2>2
<1>9. Before(f, q) \in Seq(Nat)
  <2>1. 1 \in Nat \ {0} /\ Begin(q) - 1 \in Nat /\ Begin(q) - 1 <= Len(f)
    BY <1>6, <1>8
  <2>2. SubSeq(f, 1, Begin(q) - 1) \in Seq(Nat)
    BY <2>1, StretchIs, Zenon
  <2>3. QED
    BY <2>2, Zenon DEF Before
<1>10. PrevTen(f, r) = Before(f, q) \o <<0>> \o d
  <2>1. PrevTen(f, r) = Before(f, q) \o z
    BY <1>3, Zenon DEF PrevTen, Start
  <2>2. <<0>> \in Seq(Nat)
    OBVIOUS
  <2>3. QED
    <3> HIDE DEF d, q
    <3>1. (Before(f, q) \o <<0>>) \o d = Before(f, q) \o (<<0>> \o d)
      BY <1>2, <1>9, <2>2, ConcatAssociative, SMTT(20)
    <3>2. QED
      BY <2>1, <3>1, Zenon
<1>11. PrevPlain(f, r) \in Seq(Nat) /\ Len(PrevPlain(f, r)) = End(r) - 1
  <2>1. PrevPlain(f, r) = SubSeq(f, 1, Begin(q) - 1) \o d
    BY <1>4, Zenon DEF PrevPlain, Before
  <2>2. /\ SubSeq(f, 1, Begin(q) - 1) \o d \in Seq(Nat)
        /\ Len(SubSeq(f, 1, Begin(q) - 1) \o d) = Begin(q) - 1 + Len(d)
    <3>1. d \in Seq(Nat) /\ Begin(q) \in Nat \ {0} /\ Begin(q) <= Len(f)
      BY <1>2, <1>8
    <3> HIDE DEF q, d
    <3>2. HeadFacts(f, f, Begin(q), d)
      BY <3>1, HeadIs, Zenon
    <3>3. QED
      BY <3>2, Zenon DEF HeadFacts
  <2> HIDE DEF q, d
  <2>3. QED
    BY <1>2, <1>6, <1>8, <2>1, <2>2, SMTT(20)
<1> HIDE DEF z, d, n, q
<1>12. PrevTen(f, r) = Start(f, r, z)
  BY Zenon DEF PrevTen, z, d
<1>13. Start(f, r, z) \in Seq(Nat)
  BY <1>3, StartIs
<1>14. ASSUME NEW g \in Names, r \in DigitParts[g]
       PROVE  /\ Begins(g, Start(f, r, z)) <=> Agree(f, g, Begin(r) - 1) /\ Value(Part(g, r)) = Value(z)
              /\ Begins(g, Start(f, r, z)) => Len(Start(f, r, z)) = End(r)
  <2>1. Len(Digits(v)) <= Len(z) /\ Len(z) <= Width(r)
    BY <1>2, <1>3, <1>7
  <2>2. QED
    BY <1>3, <1>14, <2>1, StartMatches
<1>15. PrevPrefixes(f, r) = <<PrevPlain(f, r), PrevTen(f, r)>>
  BY <1>5, <1>10, Zenon
<1>16. QED
  BY <1>3, <1>11, <1>12, <1>13, <1>14, <1>15, Zenon

\* What does not end with the number, but goes on like f after it, is not there.
LEMMA PlainMisses ==
  ASSUME NEW f \in Names, NEW g \in Names, NEW r \in DigitParts[f], r \in DigitParts[g],
         NEW x \in Seq(Nat), Len(x) = End(r) - 1,
         NEW b \in Nat, End(r) + 1 < b, b <= Len(f)
  PROVE  ~Begins(g, x \o SubSeq(f, End(r) + 1, b - 1))
<1> DEFINE e == End(r)
           y == SubSeq(f, e + 1, b - 1)
<1>1. /\ e \in Nat /\ 1 <= e /\ e <= Len(f) /\ Len(f) \in Nat
      /\ e < Len(f) => f[e + 1] \notin Digit
  <2>1. Len(f) \in Nat
    BY NameIs
  <2>2. /\ e \in Nat /\ Begin(r) \in Nat \ {0} /\ Begin(r) <= e /\ e <= Len(f)
        /\ e < Len(f) => f[e + 1] \notin Digit
    BY PartIs
  <2>3. QED
    BY <2>1, <2>2
<1>2. g[e] \in Digit /\ e <= Len(g)
  <2>1. Begin(r) \in Nat /\ Begin(r) <= e /\ \A i \in Begin(r)..e : g[i] \in Digit
    BY PartIs
  <2>2. e \in Begin(r)..e
    BY <1>1, <2>1
  <2>3. QED
    BY <2>1, <2>2, PartIs
<1> HIDE DEF e
<1>3. e < b /\ b \in Nat \ {0} /\ e + 1 < b
  BY <1>1 DEF e
<1>4. y \in Seq(Nat) /\ Len(y) = b - 1 - e /\ \A i \in 1..(b - 1 - e) : y[i] = f[e + i]
  BY <1>1, <1>3, BetweenIs
<1> HIDE DEF y
<1>5. Begins(g, x \o y) <=> /\ Begins(g, x) /\ Len(x) + Len(y) <= Len(g)
                            /\ \A i \in 1..Len(y) : g[Len(x) + i] = y[i]
  <2>1. g \in Seq(Nat)
    BY NameIs
  <2>2. QED
    BY <1>4, <2>1, BeginsConcat, Zenon
<1>6. 1 \in 1..(b - 1 - e) /\ 1 \in 1..Len(y) /\ Len(x) + 1 = e /\ e < Len(f)
  BY <1>1, <1>3, <1>4 DEF e
<1>7. y[1] \notin Digit
  BY <1>1, <1>4, <1>6
<1>8. ~Begins(g, x \o y)
  BY <1>2, <1>5, <1>6, <1>7
<1>9. QED
  BY <1>8, Zenon DEF y, e

SeasonPrefix(f, r, i) ==
  PrevPrefixes(f, r)[i] \o SubSeq(f, End(PrevRange(f, r)) + 1, Begin(PrevLast(f, r)) - 1)

LEMMA PrevSeasonAt ==
  ASSUME NEW dir, NEW f, NEW r, DOMAIN PrevPrefixes(f, r) \subseteq Nat,
         NEW k \in DOMAIN PrevPrefixes(f, r),
         \A i \in DOMAIN PrevPrefixes(f, r) : i < k => LastOfSeason(dir, SeasonPrefix(f, r, i)) = {},
         \A i \in DOMAIN PrevPrefixes(f, r) : i <= k
  PROVE  PrevSeason(dir, f, r) = LastOfSeason(dir, SeasonPrefix(f, r, k))
<1> DEFINE D == DOMAIN PrevPrefixes(f, r)
           hits == {i \in D : LastOfSeason(dir, SeasonPrefix(f, r, i)) # {}}
<1>1. PrevSeason(dir, f, r) = IF hits = {} THEN {} ELSE LastOfSeason(dir, SeasonPrefix(f, r, Min(hits)))
  <2> DEFINE seasons == [i \in DOMAIN PrevPrefixes(f, r) |->
                            PrevPrefixes(f, r)[i] \o Between(f, PrevRange(f, r), PrevLast(f, r))]
             H == {i \in DOMAIN seasons : LastOfSeason(dir, seasons[i]) # {}}
  <2>1. PrevSeason(dir, f, r) = IF H = {} THEN {} ELSE LastOfSeason(dir, seasons[Min(H)])
    BY Zenon DEF PrevSeason
  <2>2. DOMAIN seasons = D /\ \A i \in D : seasons[i] = SeasonPrefix(f, r, i)
    BY Zenon DEF Between, SeasonPrefix
  <2> HIDE DEF seasons, D
  <2>3. H = hits
    BY <2>2
  <2>4. hits # {} => Min(hits) \in D
    <3>1. hits \in SUBSET Nat
      BY DEF D
    <3>2. hits # {} => Min(hits) \in hits
      <4> HIDE DEF hits
      <4>1. QED
        BY <3>1, MinIs
    <3>3. QED
      BY <3>2
  <2>5. QED
    <3> HIDE DEF hits, H
    <3>1. QED
      BY <2>1, <2>2, <2>3, <2>4, Zenon
<1>2. CASE LastOfSeason(dir, SeasonPrefix(f, r, k)) # {}
  <2>1. hits \in SUBSET Nat /\ k \in hits /\ \A i \in hits : k <= i
    BY <1>2
  <2> HIDE DEF hits
  <2>2. Min(hits) = k /\ hits # {}
    BY <2>1, MinOne
  <2>3. QED
    BY <1>1, <2>2, Zenon
<1>3. CASE LastOfSeason(dir, SeasonPrefix(f, r, k)) = {}
  <2>1. hits = {}
    BY <1>3
  <2>2. QED
    BY <1>1, <1>3, <2>1, Zenon
<1>4. QED
  BY <1>2, <1>3

LEMMA EpisodeDown ==
  ASSUME NEW dir, NEW c, NEW r, NEW s, Seasons(dir, c, r, s),
         Number(c) >= 2, ~IsTimesOfTen(Number(c))
  PROVE  PrevFound(dir, c, s) = {g \in dir : Season(g) = Season(c) /\ Number(g) = Number(c) - 1}
<1>1. c \in dir /\ dir \in SUBSET Names
  BY DEF Seasons
<1>2. /\ c \in Names /\ s \in DigitParts[c] /\ Value(Part(c, s)) < MaxInt /\ Number(c) = Value(Part(c, s))
      /\ DigitParts[c] = {r, s} /\ Begin(r) < Begin(s)
  BY <1>1, SeasonsHave
<1>3. RightOf(c, s) = {}
  BY <1>2, PairIs
<1>4. PrevFound(dir, c, s) = {g \in dir : Begins(g, PrevHead(c, s))}
  BY <1>1, <1>2, <1>3, NoRight
<1>5. \A g \in dir : Begins(g, PrevHead(c, s)) <=> Season(g) = Season(c) /\ Number(g) = Number(c) - 1
  <2> TAKE g \in dir
  <2>1. g \in Names /\ Shape(c, g, r, s) /\ s \in DigitParts[g] /\ Number(g) = Value(Part(g, s))
    BY SeasonsHave
  <2>2. Begins(g, PrevHead(c, s)) <=>
          Agree(c, g, Begin(s) - 1) /\ Value(Part(g, s)) = Value(Part(c, s)) - 1
    BY <1>2, <2>1, PrevHeadMatches
  <2>3. Agree(c, g, Begin(s) - 1) <=> Season(g) = Season(c)
    BY <1>2, <2>1, SameSeason
  <2>4. QED
    BY <1>2, <2>1, <2>2, <2>3
<1>6. QED
  BY <1>4, <1>5

\* From the first episode of a season to the last one of the season before.
LEMMA SeasonDown ==
  ASSUME NEW dir, NEW c, NEW r, NEW s, Seasons(dir, c, r, s), Number(c) = 1
  PROVE  /\ Season(c) = 1 => PrevFound(dir, c, r) = {}
         /\ Season(c) >= 2 => PrevFound(dir, c, r) = LastOf(dir, Season(c) - 1)
<1>1. c \in dir /\ dir \in SUBSET Names
  BY DEF Seasons
<1>2. /\ c \in Names /\ r \in DigitParts[c] /\ s \in DigitParts[c]
      /\ Season(c) = Value(Part(c, r)) /\ Number(c) = Value(Part(c, s))
      /\ Season(c) < MaxInt /\ Number(c) < MaxInt /\ Season(c) \in Nat
      /\ DigitParts[c] = {r, s} /\ Begin(r) < Begin(s)
  BY <1>1, SeasonsHave
<1>3. ValueOrZero(Part(c, r)) = Season(c) /\ ValueOrZero(Part(c, s)) = 1
  BY <1>2, FitValue
<1>4. Season(c) = 1 => PrevFound(dir, c, r) = {}
  <2>1. Season(c) = 1 => ValueOrZero(Part(c, r)) <= 1
    BY <1>3
  <2>2. QED
    BY <2>1, Zenon DEF PrevFound
<1>5. ASSUME Season(c) >= 2 PROVE PrevFound(dir, c, r) = LastOf(dir, Season(c) - 1)
  <2>1. ~(ValueOrZero(Part(c, r)) <= 1)
    BY <1>2, <1>3, <1>5
  <2>2. RightOf(c, r) = {s} /\ Following(c, r) = s /\ End(r) + 1 < Begin(s)
    BY <1>2, PairIs
  <2>3. PrevLast(c, r) = s
    <3>1. RightOf(c, r) # {}
      BY <2>2
    <3>2. PrevLast(c, r) = PrevRange(c, s)
      BY <2>2, <3>1, Zenon DEF PrevLast, Following
    <3>3. ValueOrZero(Part(c, s)) <= 1
      BY <1>3
    <3>4. QED
      BY <3>2, <3>3, Zenon DEF PrevRange
  <2>4. s # <<>>
    BY <1>2, PartIs
  <2>5. PrevFound(dir, c, r) = PrevSeason(dir, c, r)
    BY <1>3, <2>1, <2>3, <2>4, Zenon DEF PrevFound
  <2>6. End(PrevRange(c, r)) = End(r)
    <3> DEFINE n == Len(PrevIndex(c, r))
               m == n + (IF IsTimesOfTen(ValueOrZero(Part(c, r))) THEN 1 ELSE 0)
    <3>1. n \in Nat \ {0}
      BY <1>2, <1>5, PrevIndexIs
    <3>2. m \in Nat \ {0}
      <4> HIDE DEF n
      <4>1. QED
        BY <3>1
    <3>3. PrevRange(c, r) = Shortened(r, m)
      BY <2>1, Zenon DEF PrevRange
    <3> HIDE DEF m
    <3>4. QED
      BY <1>2, <3>2, <3>3, ShortenedIs
  <2> DEFINE gap == SubSeq(c, End(r) + 1, Begin(s) - 1)
  <2>7. \A i : SeasonPrefix(c, r, i) = PrevPrefixes(c, r)[i] \o gap
    BY <2>3, <2>6, Zenon DEF SeasonPrefix
  <2>8. ASSUME NEW x \in Seq(Nat),
               \A g \in Names : r \in DigitParts[g] =>
                 /\ Begins(g, x) <=>
                      Agree(c, g, Begin(r) - 1) /\ Value(Part(g, r)) = Value(Part(c, r)) - 1
                 /\ Begins(g, x) => Len(x) = End(r)
        PROVE  LastOfSeason(dir, x \o gap) = LastOf(dir, Season(c) - 1)
    <3>1. ASSUME NEW g \in dir
          PROVE  /\ Begins(g, x) <=> Season(g) = Season(c) - 1
                 /\ Begins(g, x) => Len(x) = End(r)
      <4>1. g \in Names /\ Shape(c, g, r, s) /\ r \in DigitParts[g] /\ Season(g) = Value(Part(g, r))
        BY SeasonsHave
      <4>2. Agree(c, g, Begin(r) - 1)
        BY <4>1 DEF Shape
      <4>3. QED
        BY <1>2, <2>8, <4>1, <4>2, Zenon
    <3>2. QED
      BY <3>1, LastIs
  <2>9. CASE ~IsTimesOfTen(Season(c))
    <3>1. PrevPrefixes(c, r) = <<PrevHead(c, r)>> /\ PrevHead(c, r) \in Seq(Nat)
          /\ \A g \in Names : r \in DigitParts[g] =>
              /\ Begins(g, PrevHead(c, r)) <=>
                   Agree(c, g, Begin(r) - 1) /\ Value(Part(g, r)) = Value(Part(c, r)) - 1
              /\ Begins(g, PrevHead(c, r)) => Len(PrevHead(c, r)) = End(r)
      BY <1>2, <1>5, <2>9, PrevHeadMatches
    <3>2. LastOfSeason(dir, PrevHead(c, r) \o gap) = LastOf(dir, Season(c) - 1)
      BY <2>8, <3>1
    <3>3. /\ DOMAIN PrevPrefixes(c, r) = {1} /\ PrevPrefixes(c, r)[1] = PrevHead(c, r)
      BY <3>1
    <3>4. PrevSeason(dir, c, r) = LastOfSeason(dir, SeasonPrefix(c, r, 1))
      <4>1. /\ DOMAIN PrevPrefixes(c, r) \subseteq Nat /\ 1 \in DOMAIN PrevPrefixes(c, r)
            /\ \A i \in DOMAIN PrevPrefixes(c, r) : i <= 1 /\ ~(i < 1)
        BY <3>3
      <4>2. QED
        BY <4>1, PrevSeasonAt
    <3>5. QED
      BY <2>5, <2>7, <3>2, <3>3, <3>4, Zenon
  <2>10. CASE IsTimesOfTen(Season(c))
    <3>1. /\ PrevPrefixes(c, r) = <<PrevPlain(c, r), PrevTen(c, r)>>
          /\ PrevPlain(c, r) \in Seq(Nat) /\ Len(PrevPlain(c, r)) = End(r) - 1
          /\ PrevTen(c, r) \in Seq(Nat)
          /\ \A g \in Names : r \in DigitParts[g] =>
              /\ Begins(g, PrevTen(c, r)) <=>
                   Agree(c, g, Begin(r) - 1) /\ Value(Part(g, r)) = Value(Part(c, r)) - 1
              /\ Begins(g, PrevTen(c, r)) => Len(PrevTen(c, r)) = End(r)
      BY <1>2, <1>5, <2>10, PrevTenMatches
    <3>2. LastOfSeason(dir, PrevTen(c, r) \o gap) = LastOf(dir, Season(c) - 1)
      BY <2>8, <3>1
    <3>3. /\ DOMAIN PrevPrefixes(c, r) = {1, 2}
          /\ PrevPrefixes(c, r)[1] = PrevPlain(c, r) /\ PrevPrefixes(c, r)[2] = PrevTen(c, r)
      BY <3>1
    <3>4. LastOfSeason(dir, PrevPlain(c, r) \o gap) = {}
      <4>1. ASSUME NEW g \in dir PROVE ~Begins(g, PrevPlain(c, r) \o gap)
        <5>1. g \in Names /\ r \in DigitParts[g]
          BY SeasonsHave
        <5>2. Begin(s) \in Nat /\ Begin(s) <= Len(c)
          BY <1>2, PartIs, NameIs
        <5>3. QED
          BY <1>2, <2>2, <3>1, <5>1, <5>2, PlainMisses
      <4>2. PrevPlain(c, r) \o gap \in Seq(Nat)
        <5>1. gap \in Seq(Nat)
          <6>1. End(r) \in Nat /\ Begin(s) \in Nat \ {0} /\ End(r) < Begin(s) /\ Begin(s) <= Len(c)
            <7>1. End(r) \in Nat
              BY <1>2, PartIs
            <7>2. Begin(s) \in Nat \ {0} /\ Begin(s) <= End(s) /\ End(s) <= Len(c) /\ End(s) \in Nat
                  /\ Len(c) \in Nat
              BY <1>2, PartIs, NameIs, SMTT(20)
            <7>3. QED
              BY <2>2, <7>1, <7>2
          <6>2. QED
            BY <1>2, <6>1, BetweenIs
        <5> HIDE DEF gap
        <5>2. QED
          BY <3>1, <5>1, ConcatProperties, Zenon
      <4>3. Matching(dir, PrevPlain(c, r) \o gap) = {}
        <5> HIDE DEF gap
        <5>1. QED
          BY <1>1, <4>1, <4>2, MatchingIs
      <4>4. QED
        BY <4>3 DEF LastOfSeason
    <3>5. PrevSeason(dir, c, r) = LastOfSeason(dir, SeasonPrefix(c, r, 2))
      <4>1. /\ DOMAIN PrevPrefixes(c, r) \subseteq Nat /\ 2 \in DOMAIN PrevPrefixes(c, r)
            /\ \A i \in DOMAIN PrevPrefixes(c, r) : i <= 2 /\ (i < 2 => i = 1)
        BY <3>3
      <4>2. LastOfSeason(dir, SeasonPrefix(c, r, 1)) = {}
        BY <2>7, <3>3, <3>4, Zenon
      <4>3. QED
        BY <4>1, <4>2, PrevSeasonAt
    <3>6. QED
      BY <2>5, <2>7, <3>2, <3>3, <3>5, Zenon
  <2>11. QED
    BY <2>9, <2>10
<1>6. QED
  BY <1>4, <1>5

LEMMA PrevInOrder ==
  ASSUME NEW dir, NEW c, NEW r, NEW s, Seasons(dir, c, r, s), ~IsTimesOfTen(Number(c))
  PROVE  SearchPrevious(dir, c) = {f \in dir : Follows(dir, c, f)}
<1>1. c \in dir /\ dir \in SUBSET Names /\ AllThere(dir)
  BY DEF Seasons
<1>2. /\ c \in Names /\ r \in DigitParts[c] /\ s \in DigitParts[c]
      /\ Season(c) \in Nat /\ Number(c) \in Nat /\ Number(c) >= 1 /\ Season(c) >= 1
      /\ DigitParts[c] = {r, s} /\ Begin(r) < Begin(s)
      /\ Value(Part(c, s)) < MaxInt /\ Number(c) = Value(Part(c, s))
  BY <1>1, SeasonsHave
<1>3. RightOf(c, r) = {s} /\ RightOf(c, s) = {}
  BY <1>2, PairIs
<1>4. \A f \in dir : Number(f) \in Nat /\ Season(f) \in Nat /\ Number(f) >= 1 /\ Season(f) >= 1
  BY SeasonsHave
<1>5. CASE Number(c) >= 2
  <2>1. PrevFound(dir, c, s) = {g \in dir : Season(g) = Season(c) /\ Number(g) = Number(c) - 1}
    BY <1>5, EpisodeDown
  <2>2. PrevFound(dir, c, s) # {}
    <3>1. Number(c) > 1
      BY <1>2, <1>5
    <3>2. PICK g \in dir : Season(g) = Season(c) /\ Number(g) = Number(c) - 1
      BY <1>1, <3>1 DEF AllThere
    <3>3. QED
      BY <2>1, <3>2
  <2>3. SearchPrevious(dir, c) = PrevFound(dir, c, s)
    BY <1>2, <1>3, <2>2, PrevAt
  <2>4. ASSUME NEW f \in dir
        PROVE  Follows(dir, c, f) <=> Season(f) = Season(c) /\ Number(f) = Number(c) - 1
    <3>1. Number(c) # 1 /\ (Number(c) = Number(f) + 1 <=> Number(f) = Number(c) - 1)
      BY <1>2, <1>4, <1>5
    <3>2. QED
      BY <3>1, Zenon DEF Follows
  <2>5. QED
    BY <2>1, <2>3, <2>4
<1>6. CASE Number(c) = 1
  <2>1. PrevFound(dir, c, s) = {}
    <3>1. Value(Part(c, s)) <= 1
      BY <1>2, <1>6
    <3>2. QED
      BY <1>1, <1>2, <1>3, <3>1, NoRight
  <2>2. SearchPrevious(dir, c) = PrevFound(dir, c, r)
    <3>1. \A t \in RightOf(c, r) : PrevFound(dir, c, t) = {}
      BY <1>3, <2>1
    <3>2. \A t \in DigitParts[c] : t # r => PrevFound(dir, c, t) = {}
      BY <1>2, <2>1
    <3>3. QED
      BY <1>2, <3>1, <3>2, PrevAt
  <2>3. ASSUME NEW f \in dir
        PROVE  Follows(dir, c, f) <=>
                 /\ Season(c) = Season(f) + 1
                 /\ \A h \in dir : Season(h) = Season(f) => Number(h) <= Number(f)
    <3>1. Number(c) # Number(f) + 1
      BY <1>4, <1>6
    <3>2. QED
      BY <1>6, <3>1, Zenon DEF Follows
  <2>4. CASE Season(c) = 1
    <3>1. SearchPrevious(dir, c) = {}
      BY <1>6, <2>2, <2>4, SeasonDown
    <3>2. \A f \in dir : Season(c) # Season(f) + 1
      BY <1>4, <2>4
    <3>3. \A f \in dir : ~Follows(dir, c, f)
      BY <2>3, <3>2
    <3>4. QED
      BY <3>1, <3>3
  <2>5. CASE Season(c) >= 2
    <3>1. SearchPrevious(dir, c) = LastOf(dir, Season(c) - 1)
      BY <1>6, <2>2, <2>5, SeasonDown
    <3>2. \A f \in dir : Season(c) = Season(f) + 1 <=> Season(f) = Season(c) - 1
      BY <1>2, <1>4
    <3>3. ASSUME NEW f \in dir
          PROVE  Follows(dir, c, f) <=>
                   /\ Season(f) = Season(c) - 1
                   /\ \A h \in dir : Season(h) = Season(c) - 1 => Number(h) <= Number(f)
      <4>1. CASE Season(f) = Season(c) - 1
        <5>1. Season(c) = Season(f) + 1
          BY <3>2, <4>1
        <5>2. QED
          BY <2>3, <4>1, <5>1, Zenon
      <4>2. CASE Season(f) # Season(c) - 1
        BY <2>3, <3>2, <4>2, Zenon
      <4>3. QED
        BY <4>1, <4>2
    <3>4. QED
      BY <3>1, <3>3, Zenon DEF LastOf
  <2>6. QED
    BY <1>2, <2>4, <2>5
<1>7. QED
  BY <1>2, <1>5, <1>6

LEMMA SeasonsAre ==
  ASSUME EpisodeTypeOK, AreSeasons(files), cur \in files, NumbersFit
  PROVE  \E r, s : Seasons(files, cur, r, s)
<1>1. files \in SUBSET Names /\ cur \in Names
  BY DEF EpisodeTypeOK
<1>2. PICK r \in DigitParts[cur], s \in DigitParts[cur] :
        Begin(r) < Begin(s) /\ DigitParts[cur] = {r, s}
  BY DEF AreSeasons
<1>3. ASSUME NEW g \in files
      PROVE  /\ DigitParts[g] = {r, s} /\ Before(cur, r) = Before(g, r)
             /\ Between(cur, r, s) = Between(g, r, s)
  <2>1. PICK p \in DigitParts[cur], q \in DigitParts[cur] :
          /\ Begin(p) < Begin(q) /\ DigitParts[cur] = {p, q} /\ DigitParts[g] = {p, q}
          /\ Before(cur, p) = Before(g, p) /\ Between(cur, p, q) = Between(g, p, q)
    BY <1>3 DEF AreSeasons
  <2>2. Begin(r) \in Nat /\ Begin(s) \in Nat
    BY <1>1, PartIs
  <2>3. p = r /\ q = s
    BY <1>2, <2>1, <2>2
  <2>4. QED
    BY <2>1, <2>3
<1>4. ASSUME NEW g \in files
      PROVE  /\ Shape(cur, g, r, s) /\ Number(g) < MaxInt /\ Season(g) < MaxInt
             /\ Number(g) \in Nat /\ Season(g) \in Nat
  <2>1. g \in Names /\ r \in DigitParts[g] /\ s \in DigitParts[g] /\ DigitParts[g] = {r, s}
    BY <1>1, <1>3
  <2>2. Agree(cur, g, Begin(r) - 1)
    BY <1>1, <1>3, <2>1, BeforeAgree
  <2>3. GapIs(cur, g, End(r), Begin(s))
    <3> DEFINE e == End(r)
               b == Begin(s)
    <3>1. /\ e \in Nat /\ b \in Nat \ {0} /\ b <= End(s) /\ End(s) <= Len(cur) /\ End(s) <= Len(g)
          /\ End(s) \in Nat /\ Len(cur) \in Nat /\ Len(g) \in Nat
      <4>1. e \in Nat
        BY <1>1, PartIs
      <4>2. b \in Nat \ {0} /\ b <= End(s) /\ End(s) \in Nat /\ End(s) <= Len(cur)
        BY <1>1, PartIs
      <4>3. End(s) <= Len(g)
        BY <2>1, PartIs
      <4>4. Len(cur) \in Nat /\ Len(g) \in Nat
        BY <1>1, <2>1, NameIs
      <4>5. QED
        BY <4>1, <4>2, <4>3, <4>4
    <3>2. e < b
      <4>1. e + 1 < b
        BY <1>1, <1>2, PartsApart
      <4>2. QED
        BY <3>1, <4>1
    <3>3. b <= Len(cur) /\ b <= Len(g)
      BY <3>1
    <3>4. SubSeq(cur, e + 1, b - 1) = SubSeq(g, e + 1, b - 1)
      BY <1>3, Zenon DEF Between
    <3> HIDE DEF e, b
    <3>5. /\ \A i \in 1..(b - 1 - e) : SubSeq(cur, e + 1, b - 1)[i] = cur[e + i]
          /\ \A i \in 1..(b - 1 - e) : SubSeq(g, e + 1, b - 1)[i] = g[e + i]
      BY <1>1, <2>1, <3>1, <3>2, <3>3, BetweenIs
    <3>6. ASSUME NEW i \in (e + 1)..(b - 1) PROVE g[i] = cur[i]
      <4>1. i - e \in 1..(b - 1 - e) /\ e + (i - e) = i
        BY <3>1
      <4>2. QED
        BY <3>4, <3>5, <4>1
    <3>7. QED
      BY <3>6 DEF GapIs, e, b
  <2>4. Shape(cur, g, r, s)
    BY <1>2, <2>1, <2>2, <2>3 DEF Shape
  <2>5. /\ Season(g) = Value(Part(g, r)) /\ Number(g) = Value(Part(g, s))
        /\ Season(g) \in Nat /\ Number(g) \in Nat
    BY <1>2, <2>1, PairIs
  <2>6. Value(Part(g, r)) < MaxInt /\ Value(Part(g, s)) < MaxInt
    BY <2>1 DEF NumbersFit, FitsAll
  <2>7. QED
    BY <2>4, <2>5, <2>6, Zenon
<1>5. AllThere(files)
  BY <1>4 DEF AllThere, AreSeasons
<1>6. Seasons(files, cur, r, s)
  BY <1>1, <1>4, <1>5, Zenon DEF Seasons
<1>7. QED
  BY <1>6

LEMMA SeasonsInOrder == EpisodeTypeOK => SeasonsInTurn
<1> SUFFICES ASSUME EpisodeTypeOK, AreSeasons(files), cur \in files, NumbersFit
             PROVE  /\ SearchNext(files, cur) = {f \in files : Follows(files, f, cur)}
                    /\ \/ IsTimesOfTen(Number(cur))
                       \/ SearchPrevious(files, cur) = {f \in files : Follows(files, cur, f)}
  BY DEF SeasonsInTurn
<1>1. PICK r, s : Seasons(files, cur, r, s)
  BY SeasonsAre
<1>2. QED
  BY <1>1, NextInOrder, PrevInOrder, Zenon

\* Through the seasons of a directory "next" and "previous" go one way and the other,
\* from the last episode of a season to the first one of the next and back, whatever
\* the padding of either number; only down from a power of ten it need not be so.
THEOREM SeasonsInTurnHolds == Spec => []SeasonsInTurn
BY EpisodeTypeCorrect, SeasonsInOrder, PTL
=============================================================================
