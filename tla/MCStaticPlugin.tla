----------------------------- MODULE MCStaticPlugin -----------------------------
(* Instances of StaticPlugin for TLC.                                        *)
EXTENDS StaticPlugin
CONSTANTS c1, c2, v1, v2
=============================================================================
