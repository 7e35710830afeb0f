------------------------------ MODULE MCHopscotch ------------------------------
(* Hopscotch for TLC: two keys of bucket 0, one of bucket 1. *)
EXTENDS Hopscotch, TLC

CONSTANTS k1, k2, k3
MCHome   == (k1 :> 0) @@ (k2 :> 1) @@ (k3 :> 0)
MCLoaded == (0 :> k1) @@ (1 :> k2)
Symmetry == Permutations(Threads) \cup Permutations(Vals)

\* Past these the properties promise nothing.
SoundYet == Sound
=============================================================================
