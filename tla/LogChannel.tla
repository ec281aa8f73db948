----------------------------- MODULE LogChannel -----------------------------
(***************************************************************************)
(* What the log analyser promises to CoreController: every entry mplayer   *)
(* prints is read, parsed and posted to the main thread, once and as it    *)
(* was printed, or dropped by a stop() before it was posted.  Entries may  *)
(* overtake each other.  Playback uses its pipe, ops and mainQ this way.   *)
(***************************************************************************)
VARIABLES pipe, ops, mainQ

Init == pipe = {} /\ ops = {} /\ mainQ = {}

Emit == pipe \subseteq pipe' /\ UNCHANGED <<ops, mainQ>>
Read == pipe' = {} /\ ops' = ops \cup pipe /\ UNCHANGED mainQ
Analyze(e) == /\ e \in ops
              /\ ops' = ops \ {e} /\ mainQ' = mainQ \cup {e}
              /\ UNCHANGED pipe
Stop == ops' = {} /\ UNCHANGED <<pipe, mainQ>>
Deliver(e) == /\ e \in mainQ
              /\ mainQ' = mainQ \ {e}
              /\ UNCHANGED <<pipe, ops>>

Next == \/ Emit \/ Read \/ Stop
        \/ \E e \in ops : Analyze(e)
        \/ \E e \in mainQ : Deliver(e)

Spec == Init /\ [][Next]_<<pipe, ops, mainQ>>
=============================================================================
