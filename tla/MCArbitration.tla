---------------------------- MODULE MCArbitration ----------------------------
(* Model-checking instances of Arbitration. *)
EXTENDS Arbitration, TLC

CONSTANTS camA, camB

OneCam  == {camA}
TwoCams == {camA, camB}
BothIntents == {"PREVIEW", "VIEWFINDER"}
OneIntent   == {"PREVIEW"}
CamSymmetry == Permutations(TwoCams)
=============================================================================
