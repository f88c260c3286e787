-------------------------- MODULE MCRegionStorage --------------------------
(* Small instances of RegionStorage for TLC. *)
EXTENDS RegionStorage, TLC

CONSTANTS g1, g2, x1, x2

OneRegion  == x1 :> g1
TwoRegions == x1 :> g1 @@ x2 :> g2

\* Calls are alike, and so are two regions of one chunk each, if they change
\* places together with their chunks.
Swap     == g1 :> g2 @@ g2 :> g1 @@ x1 :> x2 @@ x2 :> x1
Keep     == [v \in DOMAIN Swap |-> v]
Symmetry == {p @@ q : p \in Permutations(Calls), q \in {Keep, Swap}}
=============================================================================
