------------------------------ MODULE MCGCMaster ------------------------------
(* GCMaster for TLC. *)
EXTENDS GCMaster, TLC

\* PauseEnds asks for nothing once a race has happened; the invariants are checked
\* past the first race too.
OneRace == Cardinality(races) <= 1
=============================================================================
