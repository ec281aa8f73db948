----------------------------- MODULE MCPlayback -----------------------------
(* Small instances of Playback: two files, the second the next episode of  *)
(* the first, or each of the other; or one file that is its own next.      *)
EXTENDS Playback, TLC

CONSTANTS m1, m2

MCNextOf == (m1 :> m2) @@ (m2 :> NoMedia)
MCCycle == (m1 :> m2) @@ (m2 :> m1)
\* Files of which each is the next episode of the other are alike.
MCSwap == Permutations({m1, m2})
MCLoop == [m \in Media |-> m]
=============================================================================
