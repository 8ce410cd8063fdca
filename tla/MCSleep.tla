------------------------------ MODULE MCSleep ------------------------------
(* Two sleepers and a few ticks, on one CPU. *)
EXTENDS Sleep
=============================================================================
