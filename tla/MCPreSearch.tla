----------------------------- MODULE MCPreSearch -----------------------------
(* PreSearch as it is; the constants are in the configurations. *)
EXTENDS PreSearch
=============================================================================
