--------------------------- MODULE MCVideoOutput ---------------------------
(* Small instances of VideoOutput, with two pages: three processes that    *)
(* configure the driver four times in all (frames), and two that do so     *)
(* three times (deadlock).                                                 *)
EXTENDS VideoOutput

=============================================================================
