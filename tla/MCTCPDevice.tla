------------------------------ MODULE MCTCPDevice ------------------------------
(* TCPDevice for TLC: few identifiers, so that they are used again. *)
EXTENDS TCPDevice, TLC

MCDSIds == <<1, 2, 3>>
Symmetry == Permutations(Threads) \cup Permutations(Cores) \cup Permutations(Slaves)
\* Past a race over identifiers the properties promise nothing.
SoundYet == races \subseteq {"early_dial", "late_accept"}
=============================================================================
