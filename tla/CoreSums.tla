------------------------------- MODULE CoreSums --------------------------------
(***************************************************************************)
(* Sums over the cores 1..N, in the order the code adds them up:           *)
(* FOR_ALL_SOCKET0_CORES (inc/helpers.hpp).                                *)
(***************************************************************************)
EXTENDS Integers

\* s[n] is the sum of f[1] ... f[n].
RunningSum(f, N) ==
  LET s[n \in 0..N] == IF n = 0 THEN 0 ELSE s[n - 1] + f[n]
  IN  s

Total(f, N) == RunningSum(f, N)[N]
=============================================================================
