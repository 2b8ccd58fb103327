----------------------------- MODULE MCHealthWatch -----------------------------
(* Instances of HealthWatch for TLC: two devices on cards of their own.      *)
EXTENDS HealthWatch, TLC
CONSTANTS x, y, c0, c1
OnePerCard == x :> c0 @@ y :> c1
=============================================================================
