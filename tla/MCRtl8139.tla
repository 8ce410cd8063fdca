----------------------------- MODULE MCRtl8139 -----------------------------
(* Instances of Rtl8139 for TLC. *)
EXTENDS Rtl8139
=============================================================================
