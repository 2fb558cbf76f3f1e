----------------------------- MODULE MCOtaImage -----------------------------
(* Model-checking instance of OtaImage. *)
EXTENDS OtaImage, TLC
=============================================================================
