---------------------------- MODULE MCRegionManager ----------------------------
(* RegionManager for TLC: regions and cores are interchangeable. *)
EXTENDS RegionManager

Symmetry == Permutations(Regions) \cup Permutations(Cores)
=============================================================================
