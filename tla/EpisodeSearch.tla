--------------------------- MODULE EpisodeSearch ---------------------------
(***************************************************************************)
(* The search for the next and the previous episode by the name of the     *)
(* file that plays (PlayListController).  A name is a sequence of          *)
(* characters, digits 0 .. Base - 1 and letters above; extension and case  *)
(* are left out, and so are files that are not playable, which the         *)
(* directory does not list.  The file system lists a directory in no       *)
(* order, so that "the first that matches" is any that matches.            *)
(***************************************************************************)
EXTENDS Integers, Sequences, FiniteSets, SequencesExt, FiniteSetsExt

CONSTANTS
  Base,       \* of the numbers in names: 10 in the code, less to keep names short
  MaxInt,     \* of Int, which has 64 bits in the code
  Names,      \* bound: the names a file may have
  MaxFiles    \* bound: files in the directory

ASSUME SearchAssumption ==
  /\ Base \in Nat \ {0, 1} /\ MaxInt \in Nat /\ MaxFiles \in Nat
  /\ \A n \in Names : n \in Seq(Nat) /\ n # <<>>

VARIABLES
  files,    \* the directory
  cur,      \* the file that plays, also when it has been removed since
  watched,  \* history: one of those that played before it, since the last "previous"
  trapped   \* history: the program was ended by an overflow

vars == <<files, cur, watched, trapped>>

---------------------------------------------------------------------------
(* Names *)

NoFile == <<>>

IsDigit(c) == c < Base

\* Int(_: String); nil for a number that is too large.
Value(digits) ==
  LET v[k \in 0..Len(digits)] == IF k = 0 THEN 0 ELSE v[k - 1] * Base + digits[k]
  IN v[Len(digits)]
Fits(digits) == Value(digits) <= MaxInt

\* Int(_: String) ?? 0
ValueOrZero(digits) == IF Fits(digits) THEN Value(digits) ELSE 0

\* String(_: Int)
Digits(n) ==
  LET d[k \in 0..n] == IF k < Base THEN <<k>> ELSE Append(d[k \div Base], k % Base)
  IN d[n]

\* String(format: "%0nd", 1)
PaddedOne(n) == [i \in 1..n |-> IF i = n THEN 1 ELSE 0]

Begin(r) == r[1]
End(r) == r[2]
Width(r) == End(r) - Begin(r) + 1
Part(f, r) == SubSeq(f, Begin(r), End(r))
Before(f, r) == SubSeq(f, 1, Begin(r) - 1)
Between(f, r, last) == SubSeq(f, End(r) + 1, Begin(last) - 1)

Rightmost(parts) == CHOOSE r \in parts : \A s \in parts : Begin(s) <= Begin(r)
Leftmost(parts) == CHOOSE r \in parts : \A s \in parts : Begin(r) <= Begin(s)

\* findDigitParts: the maximal runs of digits.  The searches take them from the
\* right to the left.
PartsOf(f) ==
  {r \in (1..Len(f)) \X (1..Len(f)) :
     /\ Begin(r) <= End(r) /\ \A i \in Begin(r)..End(r) : IsDigit(f[i])
     /\ Begin(r) > 1 => ~IsDigit(f[Begin(r) - 1])
     /\ End(r) < Len(f) => ~IsDigit(f[End(r) + 1])}
DigitParts == [f \in Names |-> PartsOf(f)]

\* The parts a search has gone through when it comes to r.
RightOf(f, r) == {s \in DigitParts[f] : Begin(s) > Begin(r)}

\* A number with fewer digits takes the end of the range: the rest is padding.
Shortened(r, n) == IF n < Width(r) THEN <<End(r) - n + 1, End(r)>> ELSE r

Matching(dir, prefix) == {f \in dir : IsPrefix(prefix, f)}

\* What the first of the prefixes that has a match finds.
FirstFound(dir, prefixes) ==
  LET hits == {i \in DOMAIN prefixes : Matching(dir, prefixes[i]) # {}}
  IN IF hits = {} THEN {} ELSE Matching(dir, prefixes[Min(hits)])

---------------------------------------------------------------------------
(* searchNextMoviePath *)

\* Variant: the number itself is looked for again.
SameIndex(f, r) == Digits(ValueOrZero(Part(f, r)))

NextIndex(f, r) == Digits(ValueOrZero(Part(f, r)) + 1)

\* Variant: the padding is left out.
NextRangeWhole(f, r) == r

NextRange(f, r) == Shortened(r, Len(NextIndex(f, r)))

\* lastRange, for the part r; <<>> if there is none.
NextLast(f, r) ==
  IF RightOf(f, r) = {} THEN <<>> ELSE NextRange(f, Leftmost(RightOf(f, r)))

\* "match with padding, e.g. 0001", "match unpadded, e.g. 1", "plain increment";
\* the first two where there is a number to the right, which starts at one again.
NextPrefixes(f, r) ==
  LET q == NextRange(f, r)
      last == NextLast(f, r)
      head == Before(f, q) \o NextIndex(f, r)
      again == head \o Between(f, q, last)
  IN IF last = <<>> THEN <<head>>
     ELSE IF Width(last) > 1 THEN <<again \o PaddedOne(Width(last)), again \o <<1>>, head>>
     ELSE <<again \o <<1>>, head>>

\* The numbers from the right to the left, until one of them finds a file.
\* Adding one to the largest Int ends the program.
SearchNext(dir, f) ==
  LET found(r) ==
        IF Value(Part(f, r)) = MaxInt THEN {NoFile} ELSE FirstFound(dir, NextPrefixes(f, r))
      hits == {r \in DigitParts[f] : found(r) # {}}
  IN IF hits = {} THEN {} ELSE found(Rightmost(hits))

---------------------------------------------------------------------------
(* searchPreviousMoviePath *)

\* isTimesOfTen: 0, and the powers of the base but 1.
IsTimesOfTen(n) ==
  LET ten[k \in 0..n] == k \in {0, Base} \/ (k % Base = 0 /\ ten[k \div Base])
  IN ten[n]

PrevIndex(f, r) == Digits(ValueOrZero(Part(f, r)) - 1)

\* "10 - 1 = 9 or 09": the range keeps a place for the second form.
PrevRange(f, r) ==
  LET n == ValueOrZero(Part(f, r))
  IN IF n <= 1 THEN r
     ELSE Shortened(r, Len(PrevIndex(f, r)) + (IF IsTimesOfTen(n) THEN 1 ELSE 0))

PrevPrefixes(f, r) ==
  LET q == PrevRange(f, r)
      n == ValueOrZero(Part(f, r))
      plain == Before(f, q) \o PrevIndex(f, r)
  IN IF IsTimesOfTen(n) THEN <<plain, Before(f, q) \o <<0>> \o PrevIndex(f, r)>> ELSE <<plain>>

PrevLast(f, r) ==
  IF RightOf(f, r) = {} THEN <<>> ELSE PrevRange(f, Leftmost(RightOf(f, r)))

\* getFirstDigitPart of what follows the prefix.
FirstDigitPart(f, prefix) ==
  SubSeq(f, Len(prefix) + 1,
         Max({i \in Len(prefix)..Len(f) : \A j \in (Len(prefix) + 1)..i : IsDigit(f[j])}))

EpisodeIn(f, prefix) ==
  LET digits == FirstDigitPart(f, prefix)
  IN IF digits # <<>> THEN ValueOrZero(digits) ELSE 0

\* Variant: the first match is taken for the last episode.
LastOfSeasonAny(dir, prefix) == {f \in Matching(dir, prefix) : EpisodeIn(f, prefix) > 0}

\* "we've reached the first episode of a season, need to find the last episode
\* of the previous season"
LastOfSeason(dir, prefix) ==
  {f \in Matching(dir, prefix) :
     /\ EpisodeIn(f, prefix) > 0
     /\ \A g \in Matching(dir, prefix) : EpisodeIn(g, prefix) <= EpisodeIn(f, prefix)}

PrevSeason(dir, f, r) ==
  LET gap == Between(f, PrevRange(f, r), PrevLast(f, r))
      seasons == [i \in DOMAIN PrevPrefixes(f, r) |-> PrevPrefixes(f, r)[i] \o gap]
      hits == {i \in DOMAIN seasons : LastOfSeason(dir, seasons[i]) # {}}
  IN IF hits = {} THEN {} ELSE LastOfSeason(dir, seasons[Min(hits)])

SearchPrevious(dir, f) ==
  LET found(r) ==
        IF ValueOrZero(Part(f, r)) <= 1 THEN {}
        ELSE IF PrevLast(f, r) # <<>> /\ ValueOrZero(Part(f, PrevLast(f, r))) = 1
        THEN PrevSeason(dir, f, r)
        ELSE FirstFound(dir, PrevPrefixes(f, r))
      hits == {r \in DigitParts[f] : found(r) # {}}
  IN IF hits = {} THEN {} ELSE found(Rightmost(hits))

---------------------------------------------------------------------------
(* The actions of the menu, and of the end of a file when the next one is to
   follow; the directory is listed anew by each search. *)

Init ==
  /\ cur \in Names
  /\ files = {cur}
  /\ watched = NoFile /\ trapped = FALSE

PlayNext ==
  /\ ~trapped
  /\ \E f \in SearchNext(files, cur) :
       IF f = NoFile
       THEN trapped' = TRUE /\ UNCHANGED <<cur, watched>>
       ELSE cur' = f /\ watched' \in {watched, cur} /\ UNCHANGED trapped
  /\ UNCHANGED files

PlayPrevious ==
  /\ ~trapped
  /\ cur' \in SearchPrevious(files, cur)
  /\ watched' = NoFile
  /\ UNCHANGED <<files, trapped>>

\* Files come and go, by other programs.
Arrive ==
  /\ ~trapped
  /\ Cardinality(files) < MaxFiles
  /\ \E f \in Names \ files : files' = files \cup {f}
  /\ UNCHANGED <<cur, watched, trapped>>

Vanish ==
  /\ ~trapped
  /\ \E f \in files : files' = files \ {f}
  /\ UNCHANGED <<cur, watched, trapped>>

Next == PlayNext \/ PlayPrevious \/ Arrive \/ Vanish

Spec == Init /\ [][Next]_vars
---------------------------------------------------------------------------
(* Properties *)

\* No number of a name is too large for Int (PlayListController, line 217).
FitsAll(f) == \A r \in DigitParts[f] : Value(Part(f, r)) < MaxInt
NumbersFit == \A f \in files \cup {cur} : FitsAll(f)

\* "Next" goes forward only: whatever files come, go and match by accident, what it
\* finds is neither the file that plays nor one that has played before it, so that
\* the episodes that follow one another by themselves end, and none plays twice
\* (PlayerController, line 1029).  A file with a number too large for Int can be
\* its own next one.  This is said of what the search finds and not of a step: to
\* play the same file again changes none of the variables.
NeverAgain ==
  \A f \in SearchNext(files, cur) \ {NoFile} : FitsAll(f) => f # cur /\ f # watched

\* A series: names with one number, of one width, and the same text before it.
\* A title may follow.
IsSeries(dir) ==
  \A f, g \in dir : \E r \in DigitParts[f] :
    DigitParts[f] = {r} /\ DigitParts[g] = {r} /\ Before(f, r) = Before(g, r)
Number(f) == Value(Part(f, Rightmost(DigitParts[f])))

\* In a series the next file is the one with the next number, or there is none;
\* the previous one is the one with the number before, from 2 on.  Down from a
\* power of ten it need not be: BackFromTen.
SeriesInTurn ==
  IsSeries(files \cup {cur}) /\ NumbersFit =>
    /\ SearchNext(files, cur) = {f \in files : Number(f) = Number(cur) + 1}
    /\ \/ Number(cur) > 0 /\ IsTimesOfTen(Number(cur))
       \/ SearchPrevious(files, cur) = {f \in files : Number(f) = Number(cur) - 1 /\ Number(f) > 0}

\* "10 - 1 = 9 or 09" (PlayListController, line 289): the episode before 10 may
\* be one of number 9.
BackFromTen ==
  IsSeries(files \cup {cur}) /\ NumbersFit =>
    \A f \in files : Number(f) = Number(cur) - 1 /\ Number(f) > 0 => f \in SearchPrevious(files, cur)

\* Seasons: two numbers, each of one width, with the same text before each, and
\* none left out.
Season(f) == Value(Part(f, Leftmost(DigitParts[f])))
AreSeasons(dir) ==
  /\ \A f, g \in dir : \E r, s \in DigitParts[f] :
       /\ Begin(r) < Begin(s) /\ DigitParts[f] = {r, s} /\ DigitParts[g] = {r, s}
       /\ Before(f, r) = Before(g, r) /\ Between(f, r, s) = Between(g, r, s)
  /\ \A f \in dir :
       /\ Number(f) >= 1 /\ Season(f) >= 1
       /\ Number(f) > 1 => \E g \in dir : Season(g) = Season(f) /\ Number(g) = Number(f) - 1
       /\ Season(f) > 1 => \E g \in dir : Season(g) = Season(f) - 1

\* f comes at once after g.
Follows(dir, f, g) ==
  \/ Season(f) = Season(g) /\ Number(f) = Number(g) + 1
  \/ /\ Season(f) = Season(g) + 1 /\ Number(f) = 1
     /\ \A h \in dir : Season(h) = Season(g) => Number(h) <= Number(g)

\* Through the seasons of a directory "next" takes each episode in its turn and
\* "previous" comes back the same way (PlayListController, lines 231-244 and
\* 299-302); from an episode that is a power of ten it need not: BackFromTen.
SeasonsInTurn ==
  AreSeasons(files) /\ cur \in files /\ NumbersFit =>
    /\ SearchNext(files, cur) = {f \in files : Follows(files, f, cur)}
    /\ \/ IsTimesOfTen(Number(cur))
       \/ SearchPrevious(files, cur) = {f \in files : Follows(files, cur, f)}
=============================================================================
