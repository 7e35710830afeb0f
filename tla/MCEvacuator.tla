---------------------------- MODULE MCEvacuator ----------------------------
(* Evacuator for TLC: threads, pointers and regions are interchangeable.    *)
EXTENDS Evacuator, TLC

Symmetry ==
  Permutations(Threads) \cup Permutations(Ptrs) \cup Permutations(Regions)

\* The invariants promise nothing after certain races: no state after one is
\* needed to check them.
NoRaceYet == races = {}
OnlySplitYet == races \subseteq {"split_object"}

\* With two threads every dereference is a deref_mut: whether a write follows
\* is open.  Both kinds are in the run with packed regions.  One thread flushes
\* at a time.
Flushing(t) == pc[t] \in {"flush", "flush_lock", "flush_write", "flush_clean"}
MutBegin(t) ==
  \/ EnterSnapshot(t) \/ Exit(t) \/ Write(t)
  \/ \E p \in Ptrs :
       \/ Free(t, p) \/ DerefStart(t, p, TRUE)
       \/ (\A u \in Threads : ~Flushing(u)) /\ FlushStart(t, p)
       \/ \E c \in Cores : AllocLocal(t, p, c)
MutNext == Collector \/ \E t \in Threads : MutBegin(t) \/ Finish(t)
MutSpec == Init /\ [][MutNext]_vars

\* For the liveness runs: nothing is written or freed.
LiveBegin(t) ==
  \/ EnterSnapshot(t) \/ Exit(t)
  \/ \E p \in Ptrs :
       \/ DerefStart(t, p, FALSE)
       \/ \E c \in Cores : AllocLocal(t, p, c)
LiveNext == Collector \/ \E t \in Threads : LiveBegin(t) \/ Finish(t)
LiveSpec == Init /\ [][LiveNext]_vars /\ Fairness
=============================================================================
