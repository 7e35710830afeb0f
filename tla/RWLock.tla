-------------------------------- MODULE RWLock ---------------------------------
(***************************************************************************)
(* ReaderWriterLock (inc/internal/reader_writer_lock.ipp) on top of        *)
(* RCULock (src/rcu_lock.cpp).                                             *)
(*                                                                         *)
(* A reader adds one to the counter of the core it is on when it enters    *)
(* and subtracts one on the core it is on when it leaves, so only the sum  *)
(* means something.  The writer adds the counters up core by core while    *)
(* they change, and believes a sum of zero only if no version changed      *)
(* until a second pass.  Both sides separate their store from the load     *)
(* that follows by a compiler barrier only: the store may still be in the  *)
(* core's store buffer (pending) when the load is done.                    *)
(***************************************************************************)
EXTENDS Integers, FiniteSets, CoreSums

CONSTANTS
  Readers, Writers,
  NumCores,   \* helpers::kNumCPUs, the cores of FOR_ALL_SOCKET0_CORES
  MaxCnt,     \* bound: how far a counter moves from zero
  None

ASSUME CoresAssumption == NumCores \in Nat \ {0} /\ MaxCnt \in Nat \ {0}
ASSUME NoneAssumption == None \notin Writers /\ None \notin 1..NumCores
ASSUME DisjointAssumption == Readers \cap Writers = {}
ASSUME ReadersAssumption == IsFiniteSet(Readers)

Cores == 1..NumCores

VARIABLES
  cnt,              \* [Cores -> aligned_cnts_[i].c]
  moved,            \* cores whose version has changed since snapshot_vers
  writer_barrier_,
  sync_barrier_,
  mutex_,           \* the writer that has locked it, or None
  pc,               \* [Readers \cup Writers -> where the thread is]
  core,             \* the core the writer reads next
  sum,              \* the writer's sum
  pending,          \* [Readers -> core of an increment in its store buffer, or None]
  hidden,           \* the barriers are still in the writer's store buffer
  ahead             \* history: a load was done before the store preceding it

vars == <<cnt, moved, writer_barrier_, sync_barrier_, mutex_, pc, core, sum,
          pending, hidden, ahead>>
counters == <<cnt, moved, pending>>
barriers == <<writer_barrier_, sync_barrier_, mutex_, hidden>>
passes   == <<core, sum>>

ReaderSteps == {"out", "sync", "add", "check", "undo", "wait", "in"}
WriterSteps == {"out", "raise", "sum", "verify", "clear", "in", "unlock"}

TypeOK ==
  /\ cnt \in [Cores -> Int]
  /\ moved \in SUBSET Cores
  /\ writer_barrier_ \in BOOLEAN /\ sync_barrier_ \in BOOLEAN
  /\ mutex_ \in Writers \cup {None}
  /\ pc \in [Readers \cup Writers -> ReaderSteps \cup WriterSteps]
  /\ \A r \in Readers : pc[r] \in ReaderSteps
  /\ \A w \in Writers : pc[w] \in WriterSteps
  /\ \A w \in Writers : pc[w] # "out" <=> mutex_ = w
  /\ core \in 1..(NumCores + 1) /\ sum \in Int
  /\ pending \in [Readers -> Cores \cup {None}]
  /\ hidden \in BOOLEAN /\ ahead \in BOOLEAN
  /\ hidden => \E w \in Writers : pc[w] \in {"sum", "verify", "clear"}

Goto(t, step) == pc' = [pc EXCEPT ![t] = step]

\* The bound on counters: what is in the store buffers must fit as well.
Fits(k, d) ==
  /\ cnt[k] + d >= -MaxCnt
  /\ cnt[k] + d + Cardinality({r \in Readers : pending[r] = k}) <= MaxCnt

\* A counter becomes visible with its version: both are one store.
Publish_NoVersion(k, d) ==
  /\ cnt' = [cnt EXCEPT ![k] = @ + d]
  /\ UNCHANGED moved

Publish(k, d) ==
  /\ cnt' = [cnt EXCEPT ![k] = @ + d]
  /\ moved' = moved \cup {k}

-----------------------------------------------------------------------------
\* Readers.

lock_reader(r) ==
  /\ pc[r] = "out"
  /\ Goto(r, "sync")
  /\ UNCHANGED <<counters, barriers, passes, ahead>>

\* reader_lock: yield while a writer adds up.
reader_lock(r) ==
  /\ pc[r] = "sync" /\ ~sync_barrier_
  /\ Goto(r, "add")
  /\ UNCHANGED <<counters, barriers, passes, ahead>>

\* __reader_lock: the store is visible at once, or stays in the store buffer.
__reader_lock(r) ==
  /\ pc[r] = "add"
  /\ \E k \in Cores :
       /\ Fits(k, 1)
       /\ \/ Publish(k, 1) /\ UNCHANGED pending
          \/ pending' = [pending EXCEPT ![r] = k] /\ UNCHANGED <<cnt, moved>>
  /\ Goto(r, "check")
  /\ UNCHANGED <<barriers, passes, ahead>>

\* The store buffer of the core reader r entered on is written out.
Drain(r) ==
  /\ pending[r] # None
  /\ Publish(pending[r], 1)
  /\ pending' = [pending EXCEPT ![r] = None]
  /\ UNCHANGED <<barriers, passes, pc, ahead>>

\* lock_reader: with the count announced, is there a writer?
CheckBarrier(r) ==
  /\ pc[r] = "check"
  /\ Goto(r, IF writer_barrier_ THEN "undo" ELSE "in")
  /\ ahead' = (ahead \/ pending[r] # None)
  /\ UNCHANGED <<counters, barriers, passes>>

\* reader_unlock, on whatever core the thread is now, after lock_reader saw a
\* writer ("undo") or at the end ("in").
reader_unlock_Forgotten(r) ==
  /\ pc[r] \in {"undo", "in"}
  /\ pending[r] = None
  /\ IF pc[r] = "in" THEN \E k \in Cores : Fits(k, -1) /\ Publish(k, -1) ELSE UNCHANGED <<cnt, moved>>
  /\ Goto(r, IF pc[r] = "undo" THEN "wait" ELSE "out")
  /\ UNCHANGED <<pending, barriers, passes, ahead>>

reader_unlock(r) ==
  /\ pc[r] \in {"undo", "in"}
  /\ pending[r] = None
  /\ \E k \in Cores : Fits(k, -1) /\ Publish(k, -1)
  /\ Goto(r, IF pc[r] = "undo" THEN "wait" ELSE "out")
  /\ UNCHANGED <<pending, barriers, passes, ahead>>

\* lock_reader: yield until the writer is gone, then start over.
Retry(r) ==
  /\ pc[r] = "wait" /\ ~writer_barrier_
  /\ Goto(r, "sync")
  /\ UNCHANGED <<counters, barriers, passes, ahead>>

-----------------------------------------------------------------------------
\* Writers.

lock_writer(w) ==
  /\ pc[w] = "out" /\ mutex_ = None
  /\ mutex_' = w
  /\ Goto(w, "raise")
  /\ UNCHANGED <<counters, writer_barrier_, sync_barrier_, hidden, passes, ahead>>

\* writer_barrier_ = true, sync_barrier_ = true.  Other cores see the two
\* stores now or when the buffer is written out.
RaiseBarriers(w) ==
  /\ pc[w] = "raise"
  /\ \/ writer_barrier_' = TRUE /\ sync_barrier_' = TRUE /\ hidden' = FALSE
     \/ writer_barrier_' = TRUE /\ UNCHANGED sync_barrier_ /\ hidden' = TRUE
     \/ UNCHANGED <<writer_barrier_, sync_barrier_>> /\ hidden' = TRUE
  /\ Goto(w, "sum") /\ core' = 1 /\ sum' = 0
  /\ UNCHANGED <<counters, mutex_, ahead>>

DrainBarriers ==
  /\ hidden
  /\ \/ writer_barrier_' = TRUE /\ sync_barrier_' = TRUE /\ hidden' = FALSE
     \/ ~writer_barrier_ /\ writer_barrier_' = TRUE /\ UNCHANGED <<sync_barrier_, hidden>>
  /\ UNCHANGED <<counters, mutex_, passes, pc, ahead>>

\* writer_sync, first pass: counter and version of one core; after the last
\* one, go on if the sum is zero, else yield and start over.
SumUp(w) ==
  /\ pc[w] = "sum"
  /\ IF core <= NumCores
     THEN /\ sum' = sum + cnt[core] /\ core' = core + 1
          /\ moved' = moved \ {core}
          /\ ahead' = (ahead \/ ~writer_barrier_)
          /\ UNCHANGED pc
     ELSE /\ Goto(w, IF sum = 0 THEN "verify" ELSE "sum")
          /\ core' = 1 /\ sum' = 0
          /\ UNCHANGED <<moved, ahead>>
  /\ UNCHANGED <<cnt, pending, barriers>>

\* writer_sync, second pass: start over if a version has changed.
Verify(w) ==
  /\ pc[w] = "verify"
  /\ IF core <= NumCores
     THEN IF core \in moved
          THEN Goto(w, "sum") /\ core' = 1
          ELSE core' = core + 1 /\ UNCHANGED pc
     ELSE Goto(w, "clear") /\ core' = 1
  /\ UNCHANGED <<counters, barriers, sum, ahead>>

\* sync_barrier_ = false, after the stores before it.  The writer is in.
ClearSync(w) ==
  /\ pc[w] = "clear" /\ ~hidden
  /\ sync_barrier_' = FALSE
  /\ Goto(w, "in")
  /\ UNCHANGED <<counters, writer_barrier_, mutex_, hidden, passes, ahead>>

unlock_writer_Barrier(w) ==
  /\ pc[w] = "in"
  /\ Goto(w, "unlock")
  /\ UNCHANGED <<counters, barriers, passes, ahead>>

unlock_writer(w) ==
  /\ pc[w] = "in"
  /\ writer_barrier_' = FALSE
  /\ Goto(w, "unlock")
  /\ UNCHANGED <<counters, sync_barrier_, mutex_, hidden, passes, ahead>>

UnlockMutex(w) ==
  /\ pc[w] = "unlock"
  /\ mutex_' = None
  /\ Goto(w, "out")
  /\ UNCHANGED <<counters, writer_barrier_, sync_barrier_, hidden, passes, ahead>>

-----------------------------------------------------------------------------
Init ==
  /\ cnt = [k \in Cores |-> 0] /\ moved = {}
  /\ writer_barrier_ = FALSE /\ sync_barrier_ = FALSE /\ mutex_ = None
  /\ pc = [t \in Readers \cup Writers |-> "out"]
  /\ core = 1 /\ sum = 0
  /\ pending = [r \in Readers |-> None] /\ hidden = FALSE /\ ahead = FALSE

ReaderStep(r) == reader_lock(r) \/ __reader_lock(r) \/ CheckBarrier(r) \/ Retry(r)
WriterStep(w) == RaiseBarriers(w) \/ SumUp(w) \/ Verify(w) \/ ClearSync(w)
                 \/ unlock_writer(w) \/ UnlockMutex(w)

Next ==
  \/ \E r \in Readers : lock_reader(r) \/ ReaderStep(r) \/ Drain(r) \/ reader_unlock(r)
  \/ \E w \in Writers : lock_writer(w) \/ WriterStep(w)
  \/ DrainBarriers

Spec == Init /\ [][Next]_vars

\* Threads run on, leave what they entered, and store buffers are written
\* out.  The mutex is handed to its waiters in turn.
FairSpec ==
  /\ Spec
  /\ \A r \in Readers : WF_vars(ReaderStep(r)) /\ WF_vars(Drain(r)) /\ SF_vars(reader_unlock(r))
  /\ \A w \in Writers : WF_vars(WriterStep(w))
  /\ WF_vars(DrainBarriers)

-----------------------------------------------------------------------------
ReadersIn == {r \in Readers : pc[r] = "in"}
WritersIn == {w \in Writers : pc[w] = "in"}

CountedReaders ==
  {r \in Readers : pc[r] \in {"check", "undo", "in"} /\ pending[r] = None}

\* Unless a load overtook a store, no reader is in with a writer, although the
\* writer added the counters up while readers moved between cores, and although
\* the barrier came down and up again between two writers (RCULock::writer_sync).
Exclusion == WritersIn # {} /\ ~ahead => ReadersIn = {}

\* Whatever was delayed, the counters add up to the readers that were counted
\* and have not been uncounted (__reader_lock, reader_unlock).
Counted == Total(cnt, NumCores) = Cardinality(CountedReaders)

\* A writer that has the mutex gets in: readers that keep coming cannot hold
\* it up (sync_barrier_, the retry of lock_reader).
WriterGetsIn == \A w \in Writers : pc[w] = "raise" ~> pc[w] = "in"

\* Once the writers are gone every reader gets in: no barrier stays up and no
\* count is left behind (unlock_writer, writer_sync).
ReaderGetsIn ==
  <>[](\A w \in Writers : pc[w] = "out")
    => \A r \in Readers : pc[r] = "sync" ~> pc[r] = "in"
=============================================================================
