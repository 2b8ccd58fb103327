-------------------------- MODULE MCNodeRegistration --------------------------
(* Two cards, one loop and one informer for TLC.                             *)
EXTENDS NodeRegistration
CONSTANTS c0, c1, loop, informer
=============================================================================
