----------------------------- MODULE MCSpecStore -----------------------------
(* Model-checking instance of SpecStore. *)
EXTENDS SpecStore, TLC

CONSTANTS camA, camB

OneCam     == {camA}
OneIntent  == {"PREVIEW"}
TwoValues  == {"v0", "v1"}
=============================================================================
