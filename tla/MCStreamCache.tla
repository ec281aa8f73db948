--------------------------- MODULE MCStreamCache ---------------------------
(* StreamCache on small rings. *)
EXTENDS StreamCache
===========================================================================
