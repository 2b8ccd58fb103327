------------------------------ MODULE MCHamiNode ------------------------------
(* Instances of HamiNode for TLC.                                          *)
EXTENDS HamiNode, TLC

CONSTANTS p1, p2, a, b, d1, d2, loop, loop2, inf

\* A card has memory 2; a share takes 1 of it and half the cores.
Share(d) == <<[card |-> d, mem |-> 1, cores |-> 50]>>
Whole(d) == <<[card |-> d, mem |-> 2, cores |-> 100]>>

\* p1 has a container with a whole card and then one with a share, p2 one with
\* a share.
PairOrder == p1 :> <<a, b>> @@ p2 :> <<a>>
PairDevs  == p1 :> (a :> Whole(d2) @@ b :> Share(d1)) @@ p2 :> (a :> Share(d1) @@ b :> Share(d1))

\* Every pod has one container: with a share, or p2's with a whole card.
OneOrder  == [p \in Pods |-> <<a>>]
OneDevs   == [p \in Pods |-> a :> Share(d1)]
LiveDevs  == p1 :> (a :> Share(d1)) @@ p2 :> (a :> Whole(d2))

\* Two loops do the same: either may start a refresh at any time.
LoopSymmetry == Permutations(Loops)
=============================================================================
