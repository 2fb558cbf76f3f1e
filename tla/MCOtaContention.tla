--------------------------- MODULE MCOtaContention --------------------------
(* Model-checking instance of OtaContention. *)
EXTENDS OtaContention, TLC
=============================================================================
