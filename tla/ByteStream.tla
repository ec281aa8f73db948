---------------------------- MODULE ByteStream ----------------------------
(***************************************************************************)
(* What a demuxer relies on when it reads a stream in pieces: each piece   *)
(* starts where the one before it ended, or where a seek put the position, *)
(* and holds the bytes of the file that are there.  A byte is named by its *)
(* position.  An end may be reported at any time.  The promise holds while *)
(* the stream is trusted.                                                  *)
(***************************************************************************)
EXTENDS Integers, Sequences

CONSTANTS
  FileSize,   \* bytes of the file
  PieceSize   \* bytes that one call fetches at most

VARIABLES
  pos,        \* the position after the last piece
  buf,        \* the last piece
  trusted     \* the promise is still made

vars == <<pos, buf, trusted>>

Init == pos = 0 /\ buf = <<>> /\ trusted = TRUE

Fetch ==
  \E n \in 1..PieceSize :
    /\ pos + n <= FileSize
    /\ buf' = [i \in 1..n |-> pos + i - 1]
    /\ pos' = pos + n
    /\ UNCHANGED trusted

End == buf' = <<>> /\ UNCHANGED <<pos, trusted>>

Seek == trusted /\ pos' \in Nat /\ UNCHANGED <<buf, trusted>>

\* From here on nothing is promised.
Lose ==
  /\ trusted' = FALSE
  /\ pos' \in Int
  /\ buf' \in Seq(Int)

Next == Fetch \/ End \/ Seek \/ Lose

Spec == Init /\ [][Next]_vars
===========================================================================
