----------------------------- MODULE MCRunStream -----------------------------
(* RunStream with values for its constants. *)
EXTENDS RunStream, TLC
=============================================================================
