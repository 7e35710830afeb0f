------------------------------ MODULE LockProofs -------------------------------
(* Proofs about the locks: RWLock, for any number of readers, writers and cores, *)
(* and ObjLocker, for any threads, ids and hash function.                        *)
EXTENDS RWLock, ObjLocker, WellFoundedInduction, FiniteSetTheorems, TLAPS

-----------------------------------------------------------------------------
\* Sums over cores.

\* The way to induction on a natural number: the least counterexample.
LEMMA LeastNat ==
  ASSUME NEW T \in SUBSET Nat, T # {}
  PROVE  \E n \in T : \A m \in T : n <= m
<1>1. PICK n \in T : \A m \in T : ~(<<m, n>> \in OpToRel(<, Nat))
  BY NatLessThanWellFounded, WFMin, Zenon
<1>2. \A m \in T : ~(m < n)
  BY <1>1 DEF OpToRel
<1> QED
  BY <1>2

\* A property of 0 that passes from n to n + 1 holds of every number up to N.
LEMMA UpToN ==
  ASSUME NEW N \in Nat, NEW P, 0 \in P, \A n \in 0..N : n \in P /\ n < N => n + 1 \in P
  PROVE  \A n \in 0..N : n \in P
<1> DEFINE T == {n \in 0..N : n \notin P}
<1> SUFFICES ASSUME T # {} PROVE FALSE
  OBVIOUS
<1>0. T \in SUBSET Nat
  OBVIOUS
<1>1. PICK n \in T : \A m \in T : n <= m
  <2> HIDE DEF T
  <2> QED
    BY <1>0, LeastNat
<1>2. n # 0 /\ n \in 1..N
  BY <1>1
<1>3. n - 1 \in 0..N /\ n - 1 < N /\ n - 1 \notin T
  BY <1>1, <1>2
<1>4. n - 1 \in P
  BY <1>3
<1>5. (n - 1) + 1 \in P
  BY <1>3, <1>4
<1> QED
  BY <1>1, <1>2, <1>5

LEMMA RunningSumExists ==
  ASSUME NEW N \in Nat, NEW f
  PROVE  \E s : s = [n \in 0..N |-> IF n = 0 THEN 0 ELSE s[n - 1] + f[n]]
<1> DEFINE E(m) == \E s : s = [n \in 0..m |-> IF n = 0 THEN 0 ELSE s[n - 1] + f[n]]
           P == {m \in Nat : E(m)}
<1>1. 0 \in P
  <2> DEFINE z == [n \in 0..0 |-> 0]
  <2>1. z = [n \in 0..0 |-> IF n = 0 THEN 0 ELSE z[n - 1] + f[n]]
    OBVIOUS
  <2> QED
    BY <2>1, Zenon
<1>2. ASSUME NEW m \in 0..N, m \in P PROVE m + 1 \in P
  <2> PICK s : s = [n \in 0..m |-> IF n = 0 THEN 0 ELSE s[n - 1] + f[n]]
    BY <1>2, Zenon
  <2> DEFINE z == [n \in 0..(m + 1) |-> IF n = m + 1 THEN s[m] + f[m + 1] ELSE s[n]]
  <2>1. ASSUME NEW n \in 0..(m + 1)
        PROVE  z[n] = IF n = 0 THEN 0 ELSE z[n - 1] + f[n]
    OBVIOUS
  <2>2. z = [n \in 0..(m + 1) |-> IF n = 0 THEN 0 ELSE z[n - 1] + f[n]]
    <3> HIDE DEF z
    <3> QED
      BY <2>1 DEF z
  <2>3. E(m + 1)
    BY <2>2, Zenon
  <2> QED
    BY <2>3
<1>3. N \in P
  <2> HIDE DEF P
  <2>1. \A n \in 0..N : n \in P
    BY <1>1, <1>2, UpToN
  <2> QED
    BY <2>1
<1> QED
  BY <1>3

LEMMA RunningSumUnfolds ==
  ASSUME NEW N \in Nat, NEW f \in [1..N -> Int]
  PROVE  /\ RunningSum(f, N) \in [0..N -> Int]
         /\ RunningSum(f, N)[0] = 0
         /\ \A n \in 1..N : RunningSum(f, N)[n] = RunningSum(f, N)[n - 1] + f[n]
         /\ Total(f, N) \in Int
<1> DEFINE s == RunningSum(f, N)
<1>1. s = [n \in 0..N |-> IF n = 0 THEN 0 ELSE s[n - 1] + f[n]]
  BY RunningSumExists, Zenon DEF RunningSum
<1> HIDE DEF s
<1>2. s[0] = 0 /\ \A n \in 1..N : s[n] = s[n - 1] + f[n]
  BY <1>1
<1> DEFINE P == {m \in 0..N : s[m] \in Int}
<1>3. \A n \in 0..N : n \in P
  <2>1. 0 \in P
    BY <1>2
  <2>2. ASSUME NEW n \in 0..N, n \in P, n < N PROVE n + 1 \in P
    <3>1. n + 1 \in 1..N /\ f[n + 1] \in Int /\ (n + 1) - 1 = n
      BY <2>2
    <3>2. s[n + 1] = s[n] + f[n + 1]
      BY <1>2, <3>1
    <3> QED
      BY <2>2, <3>1, <3>2
  <2> HIDE DEF P
  <2> QED
    BY <2>1, <2>2, UpToN
<1>4. s \in [0..N -> Int]
  BY <1>1, <1>3
<1>5. N \in 0..N
  OBVIOUS
<1> QED
  BY <1>2, <1>4, <1>5 DEF s, Total

\* Adding d to one term adds d to every sum from there on.
LEMMA RunningSumAdd ==
  ASSUME NEW N \in Nat, NEW f \in [1..N -> Int], NEW k \in 1..N, NEW d \in Int,
         NEW g \in [1..N -> Int],
         g[k] = f[k] + d, \A n \in 1..N : n # k => g[n] = f[n]
  PROVE  /\ \A n \in 0..N : RunningSum(g, N)[n]
                              = RunningSum(f, N)[n] + (IF k <= n THEN d ELSE 0)
         /\ Total(g, N) = Total(f, N) + d
<1> DEFINE s == RunningSum(f, N)
           u == RunningSum(g, N)
           P == {m \in 0..N : u[m] = s[m] + (IF k <= m THEN d ELSE 0)}
<1>0. /\ s \in [0..N -> Int] /\ s[0] = 0 /\ \A n \in 1..N : s[n] = s[n - 1] + f[n]
      /\ u \in [0..N -> Int] /\ u[0] = 0 /\ \A n \in 1..N : u[n] = u[n - 1] + g[n]
  BY RunningSumUnfolds
<1> HIDE DEF s, u
<1>1. 0 \in P
  BY <1>0
<1>2. ASSUME NEW n \in 0..N, n \in P, n < N PROVE n + 1 \in P
  <2>1. n + 1 \in 1..N /\ (n + 1) - 1 = n /\ f[n + 1] \in Int
    BY <1>2
  <2>2. s[n + 1] = s[n] + f[n + 1] /\ u[n + 1] = u[n] + g[n + 1]
    BY <1>0, <2>1
  <2>3. g[n + 1] = f[n + 1] + (IF k = n + 1 THEN d ELSE 0)
    BY <2>1
  <2>4. s[n] \in Int /\ s[n + 1] \in Int
    BY <1>0, <2>1
  <2> QED
    BY <1>2, <2>1, <2>2, <2>3, <2>4
<1>3. \A n \in 0..N : n \in P
  <2> HIDE DEF P
  <2> QED
    BY <1>1, <1>2, UpToN
<1>4. N \in 0..N /\ k <= N
  OBVIOUS
<1> QED
  BY <1>3, <1>4 DEF s, u, Total

\* The sum of nothing but zeros.
LEMMA RunningSumZero ==
  ASSUME NEW N \in Nat, NEW f \in [1..N -> Int], \A n \in 1..N : f[n] = 0
  PROVE  Total(f, N) = 0
<1> DEFINE s == RunningSum(f, N)
           P == {m \in 0..N : s[m] = 0}
<1>0. /\ s \in [0..N -> Int] /\ s[0] = 0 /\ \A n \in 1..N : s[n] = s[n - 1] + f[n]
  BY RunningSumUnfolds
<1> HIDE DEF s
<1>1. 0 \in P
  BY <1>0
<1>2. ASSUME NEW n \in 0..N, n \in P, n < N PROVE n + 1 \in P
  <2>1. n + 1 \in 1..N /\ (n + 1) - 1 = n /\ f[n + 1] = 0
    BY <1>2
  <2> QED
    BY <1>0, <1>2, <2>1
<1>3. N \in P
  <2> HIDE DEF P
  <2>1. \A n \in 0..N : n \in P
    BY <1>1, <1>2, UpToN
  <2> QED
    BY <2>1
<1> QED
  BY <1>3 DEF s, Total

-----------------------------------------------------------------------------
LEMMA GotoTyped ==
  ASSUME TypeOK, NEW t \in Readers \cup Writers, NEW l, Goto(t, l),
         t \in Readers => l \in ReaderSteps, t \in Writers => l \in WriterSteps
  PROVE  /\ pc' \in [Readers \cup Writers -> ReaderSteps \cup WriterSteps]
         /\ \A r \in Readers : pc'[r] \in ReaderSteps
         /\ \A w \in Writers : pc'[w] \in WriterSteps
         /\ pc'[t] = l
         /\ \A u \in Readers \cup Writers : u # t => pc'[u] = pc[u]
BY DEF TypeOK, Goto

LEMMA PublishTyped ==
  ASSUME TypeOK, NEW k \in Cores, NEW d \in Int, Publish(k, d)
  PROVE  cnt' \in [Cores -> Int] /\ moved' \in SUBSET Cores
BY DEF TypeOK, Publish

\* A reader changes no writer, and none of what writers have between them.
LEMMA ReaderTyped ==
  ASSUME TypeOK, NEW r \in Readers, NEW l \in ReaderSteps, Goto(r, l),
         cnt' \in [Cores -> Int], moved' \in SUBSET Cores,
         pending' \in [Readers -> Cores \cup {None}], ahead' \in BOOLEAN,
         UNCHANGED <<barriers, passes>>
  PROVE  TypeOK'
<1>1. r \notin Writers
  BY DisjointAssumption
<1>2. \A w \in Writers : pc'[w] = pc[w]
  BY <1>1, GotoTyped
<1> QED
  BY <1>1, <1>2, GotoTyped DEF TypeOK, barriers, passes

\* A writer that holds the mutex, before and after the step.
LEMMA WriterTyped ==
  ASSUME TypeOK, NEW w \in Writers, NEW l \in WriterSteps \ {"out"}, Goto(w, l),
         mutex_ = w, UNCHANGED <<cnt, pending, mutex_>>, moved' \in SUBSET Cores,
         writer_barrier_' \in BOOLEAN, sync_barrier_' \in BOOLEAN,
         hidden' \in BOOLEAN, ahead' \in BOOLEAN,
         core' \in 1..(NumCores + 1), sum' \in Int,
         hidden' => l \in {"sum", "verify", "clear"}
  PROVE  TypeOK'
<1>1. w \notin Readers /\ w # None
  BY DisjointAssumption, NoneAssumption
<1>2. \A v \in Writers : pc'[v] # "out" <=> mutex_' = v
  <2>1. pc'[w] = l /\ \A u \in Writers : u # w => pc'[u] = pc[u]
    BY <1>1, GotoTyped
  <2> QED
    BY <2>1 DEF TypeOK
<1>3. hidden' => \E v \in Writers : pc'[v] \in {"sum", "verify", "clear"}
  BY <1>1, GotoTyped
<1> QED
  BY <1>1, <1>2, <1>3, GotoTyped DEF TypeOK

LEMMA ReaderStepTyped ==
  ASSUME TypeOK, NEW r \in Readers,
         lock_reader(r) \/ ReaderStep(r) \/ Drain(r) \/ reader_unlock(r)
  PROVE  TypeOK'
<1> USE DEF counters
<1>1. CASE lock_reader(r)
  BY <1>1, ReaderTyped DEF lock_reader, TypeOK, ReaderSteps
<1>2. CASE reader_lock(r)
  BY <1>2, ReaderTyped DEF reader_lock, TypeOK, ReaderSteps
<1>3. CASE __reader_lock(r)
  <2> PICK k \in Cores : \/ Publish(k, 1) /\ UNCHANGED pending
                         \/ pending' = [pending EXCEPT ![r] = k] /\ UNCHANGED <<cnt, moved>>
    BY <1>3 DEF __reader_lock
  <2>1. cnt' \in [Cores -> Int] /\ moved' \in SUBSET Cores
    BY PublishTyped DEF TypeOK
  <2>2. pending' \in [Readers -> Cores \cup {None}]
    BY DEF TypeOK
  <2> QED
    BY <1>3, <2>1, <2>2, ReaderTyped DEF __reader_lock, TypeOK, ReaderSteps
<1>4. CASE CheckBarrier(r)
  <2>1. ahead' \in BOOLEAN
    BY <1>4 DEF CheckBarrier, TypeOK
  <2> QED
    BY <1>4, <2>1, ReaderTyped DEF CheckBarrier, TypeOK, ReaderSteps
<1>5. CASE Retry(r)
  BY <1>5, ReaderTyped DEF Retry, TypeOK, ReaderSteps
<1>6. CASE Drain(r)
  <2>1. pending[r] \in Cores
    BY <1>6 DEF Drain, TypeOK
  <2>2. cnt' \in [Cores -> Int] /\ moved' \in SUBSET Cores
    BY <1>6, <2>1, PublishTyped DEF Drain
  <2>3. pending' \in [Readers -> Cores \cup {None}]
    BY <1>6 DEF Drain, TypeOK
  <2> QED
    BY <1>6, <2>2, <2>3 DEF Drain, TypeOK, barriers, passes
<1>7. CASE reader_unlock(r)
  <2>1. cnt' \in [Cores -> Int] /\ moved' \in SUBSET Cores
    BY <1>7, PublishTyped DEF reader_unlock
  <2> QED
    BY <1>7, <2>1, ReaderTyped DEF reader_unlock, TypeOK, ReaderSteps
<1> QED
  BY <1>1, <1>2, <1>3, <1>4, <1>5, <1>6, <1>7 DEF ReaderStep

LEMMA WriterStepTyped ==
  ASSUME TypeOK, NEW w \in Writers, lock_writer(w) \/ WriterStep(w)
  PROVE  TypeOK'
<1> USE CoresAssumption DEF counters, barriers, passes
<1>0. w # None /\ w \notin Readers
  BY NoneAssumption, DisjointAssumption
<1>1. CASE lock_writer(w)
  <2>1. \A v \in Writers : pc'[v] # "out" <=> mutex_' = v
    BY <1>0, <1>1, NoneAssumption DEF lock_writer, Goto, TypeOK
  <2> QED
    BY <1>0, <1>1, <2>1, GotoTyped DEF lock_writer, TypeOK, WriterSteps
<1>2. CASE RaiseBarriers(w)
  <2>1. writer_barrier_' \in BOOLEAN /\ sync_barrier_' \in BOOLEAN /\ hidden' \in BOOLEAN
    BY <1>2 DEF RaiseBarriers, TypeOK
  <2>2. Goto(w, "sum") /\ core' \in 1..(NumCores + 1) /\ sum' \in Int /\ mutex_ = w
    BY <1>2 DEF RaiseBarriers, TypeOK
  <2>3. UNCHANGED <<cnt, moved, pending, mutex_, ahead>>
    BY <1>2 DEF RaiseBarriers
  <2> QED
    BY <2>1, <2>2, <2>3, WriterTyped DEF TypeOK, WriterSteps
<1>3. CASE SumUp(w)
  <2>1. mutex_ = w
    BY <1>3 DEF SumUp, TypeOK
  <2>2. CASE core <= NumCores
    <3>1. core \in Cores /\ cnt[core] \in Int
      BY <2>2 DEF TypeOK, Cores
    <3>3. sum' \in Int /\ core' \in 1..(NumCores + 1)
      BY <1>3, <2>2, <3>1 DEF SumUp, TypeOK
    <3>4. moved' \in SUBSET Cores
      BY <1>3, <2>2 DEF SumUp, TypeOK
    <3>2. ahead' \in BOOLEAN /\ UNCHANGED <<cnt, pending, pc, mutex_>>
      BY <1>3, <2>2 DEF SumUp, TypeOK
    <3> QED
      BY <1>3, <3>2, <3>3, <3>4 DEF SumUp, TypeOK
  <2>3. CASE ~(core <= NumCores)
    BY <1>3, <2>1, <2>3, WriterTyped DEF SumUp, TypeOK, WriterSteps
  <2> QED
    BY <2>2, <2>3
<1>4. CASE Verify(w)
  <2>1. mutex_ = w
    BY <1>4 DEF Verify, TypeOK
  <2>2. core' \in 1..(NumCores + 1)
    BY <1>4 DEF Verify, TypeOK
  <2>3. CASE UNCHANGED pc
    BY <1>4, <2>2, <2>3 DEF Verify, TypeOK
  <2>4. CASE Goto(w, "sum") \/ Goto(w, "clear")
    BY <1>4, <2>1, <2>2, <2>4, WriterTyped DEF Verify, TypeOK, WriterSteps
  <2> QED
    BY <1>4, <2>3, <2>4 DEF Verify
<1>5. CASE ClearSync(w)
  BY <1>5, WriterTyped DEF ClearSync, TypeOK, WriterSteps
<1>6. CASE unlock_writer(w)
  BY <1>6, WriterTyped DEF unlock_writer, TypeOK, WriterSteps
<1>7. CASE UnlockMutex(w)
  <2>1. mutex_ = w /\ mutex_' = None /\ pc[w] = "unlock"
    BY <1>7 DEF UnlockMutex, TypeOK
  <2>2. \A v \in Writers : pc[v] # "out" => v = w
    BY <2>1 DEF TypeOK
  <2>3. ~hidden
    BY <2>1, <2>2 DEF TypeOK
  <2>4. \A v \in Writers : pc'[v] # "out" <=> mutex_' = v
    BY <1>0, <1>7, <2>1, <2>2, GotoTyped, NoneAssumption DEF UnlockMutex, WriterSteps
  <2> QED
    BY <1>0, <1>7, <2>1, <2>3, <2>4, GotoTyped DEF UnlockMutex, TypeOK, WriterSteps
<1> QED
  BY <1>1, <1>2, <1>3, <1>4, <1>5, <1>6, <1>7 DEF WriterStep

LEMMA TypeInit == Init => TypeOK
<1> SUFFICES ASSUME Init PROVE TypeOK
  OBVIOUS
<1>1. cnt \in [Cores -> Int] /\ core \in 1..(NumCores + 1) /\ sum \in Int
  BY CoresAssumption DEF Init
<1>2. \A w \in Writers : pc[w] # "out" <=> mutex_ = w
  BY NoneAssumption DEF Init
<1>3. writer_barrier_ = FALSE /\ sync_barrier_ = FALSE /\ hidden = FALSE /\ ahead = FALSE
  BY DEF Init
<1> QED
  BY <1>1, <1>2, <1>3 DEF Init, TypeOK, ReaderSteps, WriterSteps

LEMMA TypeStep == TypeOK /\ [Next]_vars => TypeOK'
<1> SUFFICES ASSUME TypeOK, [Next]_vars PROVE TypeOK'
  OBVIOUS
<1>1. CASE DrainBarriers
  BY <1>1 DEF DrainBarriers, TypeOK, counters, passes
<1>2. CASE UNCHANGED vars
  BY <1>2 DEF TypeOK, vars
<1> QED
  BY <1>1, <1>2, ReaderStepTyped, WriterStepTyped DEF Next

\* Every state is well typed; in particular a writer is past lock_writer exactly
\* while it holds the mutex, so there is only one, and barriers are delayed only
\* while there is one.
THEOREM TypeCorrect == Spec => []TypeOK
BY TypeInit, TypeStep, PTL DEF Spec

-----------------------------------------------------------------------------
(* The counters add up to the readers that were counted.                   *)

\* Only a reader between its increment and its decrement has a store pending.
Buffered == \A r \in Readers : pending[r] # None => pc[r] \in {"check", "undo", "in"}

LEMMA PublishAdds ==
  ASSUME TypeOK, NEW k \in Cores, NEW d \in Int, Publish(k, d)
  PROVE  /\ Total(cnt, NumCores) \in Int
         /\ Total(cnt', NumCores) = Total(cnt, NumCores) + d
         /\ \A n \in 0..NumCores :
              RunningSum(cnt', NumCores)[n]
                = RunningSum(cnt, NumCores)[n] + (IF k <= n THEN d ELSE 0)
<1>1. NumCores \in Nat /\ cnt \in [1..NumCores -> Int] /\ k \in 1..NumCores
  BY CoresAssumption DEF TypeOK, Cores
<1>2. cnt' = [cnt EXCEPT ![k] = cnt[k] + d] /\ cnt' \in [1..NumCores -> Int]
  BY <1>1 DEF Publish
<1>3. Total(cnt, NumCores) \in Int
  BY <1>1, RunningSumUnfolds
<1>4. /\ cnt' \in [1..NumCores -> Int] /\ cnt'[k] = cnt[k] + d
      /\ \A n \in 1..NumCores : n # k => cnt'[n] = cnt[n]
  BY <1>1, <1>2
<1> QED
  BY <1>1, <1>3, <1>4, RunningSumAdd

LEMMA CountedFinite == IsFiniteSet(CountedReaders)
<1>1. CountedReaders \subseteq Readers
  BY DEF CountedReaders
<1> QED
  BY <1>1, ReadersAssumption, FS_Subset

LEMMA OneMore ==
  ASSUME TypeOK, Counted, NEW k \in Cores, Publish(k, 1),
         NEW r \in Readers, r \notin CountedReaders,
         CountedReaders' = CountedReaders \cup {r}
  PROVE  Counted'
<1>1. Cardinality(CountedReaders') = Cardinality(CountedReaders) + 1
  BY CountedFinite, FS_AddElement
<1> QED
  BY <1>1, PublishAdds DEF Counted

LEMMA OneLess ==
  ASSUME TypeOK, Counted, NEW k \in Cores, Publish(k, -1),
         NEW r \in CountedReaders, CountedReaders' = CountedReaders \ {r}
  PROVE  Counted'
<1>1. /\ Cardinality(CountedReaders') = Cardinality(CountedReaders) - 1
      /\ Cardinality(CountedReaders) \in Nat
  BY CountedFinite, FS_RemoveElement, FS_CardinalityType
<1> QED
  BY <1>1, PublishAdds DEF Counted

LEMMA NoneMore ==
  ASSUME Counted, UNCHANGED cnt, CountedReaders' = CountedReaders
  PROVE  Counted'
BY DEF Counted

LEMMA ReaderCounts ==
  ASSUME TypeOK, Counted, Buffered, NEW r \in Readers,
         lock_reader(r) \/ ReaderStep(r) \/ Drain(r) \/ reader_unlock(r)
  PROVE  Counted' /\ Buffered'
<1> USE DEF counters
<1>0. None \notin Cores
  BY NoneAssumption DEF Cores
<1>1. CASE lock_reader(r) \/ reader_lock(r) \/ Retry(r)
  <2>1. pending[r] = None
    BY <1>1 DEF Buffered, lock_reader, reader_lock, Retry
  <2>2. \/ Goto(r, "sync") /\ pc[r] \in {"out", "wait"}
        \/ Goto(r, "add") /\ pc[r] = "sync"
    BY <1>1 DEF lock_reader, reader_lock, Retry
  <2>3. UNCHANGED <<cnt, pending>>
    BY <1>1 DEF lock_reader, reader_lock, Retry
  <2>4. CountedReaders' = CountedReaders
    BY <2>2, <2>3 DEF TypeOK, CountedReaders, Goto
  <2>5. Buffered'
    BY <2>1, <2>2, <2>3 DEF Buffered, TypeOK, Goto
  <2> QED
    BY <2>3, <2>4, <2>5, NoneMore
<1>2. CASE __reader_lock(r)
  <2> PICK k \in Cores : \/ Publish(k, 1) /\ UNCHANGED pending
                         \/ pending' = [pending EXCEPT ![r] = k] /\ UNCHANGED <<cnt, moved>>
    BY <1>2 DEF __reader_lock
  <2>1. pending[r] = None /\ pc[r] = "add" /\ Goto(r, "check")
    BY <1>2 DEF Buffered, __reader_lock
  <2>2. Buffered'
    BY <2>1 DEF Buffered, TypeOK, Goto
  <2>3. CASE Publish(k, 1) /\ UNCHANGED pending
    <3>1. r \notin CountedReaders /\ CountedReaders' = CountedReaders \cup {r}
      BY <2>1, <2>3 DEF CountedReaders, TypeOK, Goto
    <3> QED
      BY <2>2, <2>3, <3>1, OneMore
  <2>4. CASE pending' = [pending EXCEPT ![r] = k] /\ UNCHANGED <<cnt, moved>>
    <3>1. CountedReaders' = CountedReaders
      BY <1>0, <2>1, <2>4 DEF CountedReaders, TypeOK, Goto
    <3> QED
      BY <2>2, <2>4, <3>1, NoneMore
  <2> QED
    BY <2>3, <2>4
<1>3. CASE CheckBarrier(r)
  <2>1. CountedReaders' = CountedReaders
    BY <1>3 DEF CheckBarrier, CountedReaders, TypeOK, Goto
  <2>2. Buffered'
    BY <1>3 DEF CheckBarrier, Buffered, TypeOK, Goto
  <2> QED
    BY <1>3, <2>1, <2>2, NoneMore DEF CheckBarrier
<1>4. CASE Drain(r)
  <2>1. pending[r] \in Cores /\ Publish(pending[r], 1)
    BY <1>4 DEF Drain, TypeOK
  <2>2. r \notin CountedReaders /\ CountedReaders' = CountedReaders \cup {r}
    BY <1>4 DEF Drain, CountedReaders, TypeOK, Buffered
  <2>3. Buffered'
    BY <1>4 DEF Drain, Buffered, TypeOK
  <2> QED
    BY <2>1, <2>2, <2>3, OneMore
<1>5. CASE reader_unlock(r)
  <2>1. r \in CountedReaders
    BY <1>5 DEF reader_unlock, CountedReaders
  <2>2. CountedReaders' = CountedReaders \ {r}
    BY <1>5 DEF reader_unlock, CountedReaders, TypeOK, Goto
  <2>3. Buffered'
    BY <1>5 DEF reader_unlock, Buffered, TypeOK, Goto
  <2>4. PICK k \in Cores : Publish(k, -1)
    BY <1>5 DEF reader_unlock
  <2> QED
    BY <2>1, <2>2, <2>3, <2>4, OneLess
<1> QED
  BY <1>1, <1>2, <1>3, <1>4, <1>5 DEF ReaderStep

\* What a writer leaves alone: the counters and the readers.
LEMMA WriterLeaves ==
  ASSUME TypeOK, NEW w \in Writers, lock_writer(w) \/ WriterStep(w)
  PROVE  UNCHANGED <<cnt, pending>> /\ \A r \in Readers : pc'[r] = pc[r]
<1>1. w \notin Readers
  BY DisjointAssumption
<1>2. UNCHANGED <<cnt, pending>>
  BY DEF WriterStep, lock_writer, RaiseBarriers, SumUp, Verify, ClearSync, unlock_writer,
         UnlockMutex, counters
<1>3. UNCHANGED pc \/ \E l : Goto(w, l)
  BY DEF WriterStep, lock_writer, RaiseBarriers, SumUp, Verify, ClearSync, unlock_writer,
         UnlockMutex
<1> QED
  BY <1>1, <1>2, <1>3 DEF Goto, TypeOK

CountInv == TypeOK /\ Counted /\ Buffered

LEMMA CountInvInit == Init => CountInv
<1> SUFFICES ASSUME Init PROVE CountInv
  OBVIOUS
<1>1. NumCores \in Nat /\ cnt \in [1..NumCores -> Int] /\ \A n \in 1..NumCores : cnt[n] = 0
  BY CoresAssumption DEF Init, Cores
<1>2. Total(cnt, NumCores) = 0
  BY <1>1, RunningSumZero
<1>3. CountedReaders = {}
  BY DEF Init, CountedReaders
<1>4. Counted
  BY <1>2, <1>3, FS_EmptySet DEF Counted
<1>5. Buffered
  BY DEF Init, Buffered
<1> QED
  BY <1>4, <1>5, TypeInit DEF CountInv

LEMMA CountInvStep == CountInv /\ [Next]_vars => CountInv'
<1> SUFFICES ASSUME CountInv, [Next]_vars PROVE CountInv'
  OBVIOUS
<1>0. TypeOK /\ Counted /\ Buffered /\ TypeOK'
  BY TypeStep DEF CountInv
<1>1. ASSUME UNCHANGED <<cnt, pending>>, \A r \in Readers : pc'[r] = pc[r]
      PROVE  Counted' /\ Buffered'
  <2>1. CountedReaders' = CountedReaders
    BY <1>1 DEF CountedReaders
  <2> QED
    BY <1>0, <1>1, <2>1, NoneMore DEF Buffered
<1>2. CASE DrainBarriers
  BY <1>0, <1>1, <1>2 DEF DrainBarriers, counters, CountInv
<1>3. CASE UNCHANGED vars
  BY <1>0, <1>1, <1>3 DEF vars, CountInv
<1>4. ASSUME NEW w \in Writers, lock_writer(w) \/ WriterStep(w)
      PROVE  Counted' /\ Buffered'
  BY <1>0, <1>1, <1>4, WriterLeaves
<1> QED
  BY <1>0, <1>2, <1>3, <1>4, ReaderCounts DEF Next, CountInv

\* Whatever stores are delayed and on whatever cores a reader enters and leaves,
\* the counters of RCULock add up to the readers counted and not uncounted.
THEOREM CountsReaders == Spec => []Counted
<1>1. CountInv => Counted
  BY DEF CountInv
<1> QED
  BY <1>1, CountInvInit, CountInvStep, PTL DEF Spec

-----------------------------------------------------------------------------
(* Mutual exclusion.  As long as no load has overtaken a store:            *)

\* a reader that has looked at the barrier is in the counters,
Settled == ~ahead => \A r \in Readers : pending[r] # None => pc[r] = "check"

\* other cores see the barrier of a writer that has read a counter,
Raised ==
  ~ahead => \A w \in Writers :
    (pc[w] = "sum" /\ core > 1) \/ pc[w] \in {"verify", "clear", "in"} => writer_barrier_

\* the sum of the first pass is the sum of the counters as they are, if no
\* version has changed since,
SumIsCurrent ==
  \A w \in Writers :
    /\ pc[w] = "sum" /\ (\A k \in 1..(core - 1) : k \notin moved)
         => sum = RunningSum(cnt, NumCores)[core - 1]
    /\ pc[w] = "verify" => sum = 0

\* and the second pass of a writer will yet find out about a reader that is in.
WillNotice ==
  ~ahead => \A w \in Writers, r \in Readers :
    pc[r] = "in" => /\ pc[w] = "verify" => \E k \in moved : k >= core
                    /\ pc[w] \notin {"clear", "in"}

ExclusionInv == CountInv /\ Settled /\ Raised /\ SumIsCurrent /\ WillNotice

LEMMA ExclusionInvInit == Init => ExclusionInv
<1> SUFFICES ASSUME Init PROVE ExclusionInv
  OBVIOUS
<1>1. \A w \in Writers : pc[w] = "out"
  BY DEF Init
<1>2. Settled
  BY DEF Init, Settled
<1> QED
  BY <1>1, <1>2, CountInvInit DEF ExclusionInv, Raised, SumIsCurrent, WillNotice

\* A sum that no version contradicts stays the sum of the counters when a
\* reader's store becomes visible.
LEMMA SumStaysCurrent ==
  ASSUME TypeOK, SumIsCurrent, NEW k \in Cores, NEW d \in Int, Publish(k, d),
         UNCHANGED passes, \A w \in Writers : pc'[w] = pc[w]
  PROVE  SumIsCurrent'
<1> SUFFICES ASSUME NEW w \in Writers, pc[w] = "sum", \A j \in 1..(core - 1) : j \notin moved'
             PROVE  sum = RunningSum(cnt', NumCores)[core - 1]
  BY DEF SumIsCurrent, passes
<1>1. core - 1 \in 0..NumCores /\ NumCores \in Nat /\ k \in 1..NumCores
  BY CoresAssumption DEF TypeOK, Cores
<1>2. k \in moved' /\ moved \subseteq moved'
  BY DEF Publish
<1>3. ~(k <= core - 1)
  BY <1>1, <1>2
<1>4. sum = RunningSum(cnt, NumCores)[core - 1]
  BY <1>2 DEF SumIsCurrent
<1>5. RunningSum(cnt, NumCores)[core - 1] \in Int
  BY <1>4 DEF TypeOK
<1> QED
  BY <1>1, <1>3, <1>4, <1>5, PublishAdds

\* Readers: the step sees the barrier if there is a writer it could disturb.
LEMMA ReaderExcluded ==
  ASSUME ExclusionInv, NEW r \in Readers,
         lock_reader(r) \/ ReaderStep(r) \/ Drain(r) \/ reader_unlock(r)
  PROVE  Settled' /\ Raised' /\ SumIsCurrent' /\ WillNotice'
<1>0. TypeOK /\ Buffered /\ Settled /\ Raised /\ SumIsCurrent /\ WillNotice
  BY DEF ExclusionInv, CountInv
<1>a. r \notin Writers
  BY DisjointAssumption
<1>1. UNCHANGED <<barriers, passes>>
  BY DEF lock_reader, ReaderStep, reader_lock, __reader_lock, CheckBarrier, Retry, Drain,
         reader_unlock
<1>2. UNCHANGED pc \/ \E l : Goto(r, l)
  BY DEF lock_reader, ReaderStep, reader_lock, __reader_lock, CheckBarrier, Retry, Drain,
         reader_unlock
<1>3. \A w \in Writers : pc'[w] = pc[w]
  BY <1>0, <1>a, <1>2 DEF TypeOK, Goto
<1>4. UNCHANGED <<cnt, moved>> \/ \E k \in Cores, d \in Int : Publish(k, d)
  <2>1. CASE __reader_lock(r)
    BY <2>1 DEF __reader_lock
  <2>2. CASE Drain(r)
    BY <1>0, <2>2 DEF Drain, TypeOK
  <2>3. CASE reader_unlock(r)
    BY <2>3 DEF reader_unlock
  <2>4. CASE lock_reader(r) \/ reader_lock(r) \/ CheckBarrier(r) \/ Retry(r)
    BY <2>4 DEF lock_reader, reader_lock, CheckBarrier, Retry, counters
  <2> QED
    BY <2>1, <2>2, <2>3, <2>4 DEF ReaderStep
<1>5. moved \subseteq moved'
  BY <1>4 DEF Publish
<1>6. SumIsCurrent'
  <2>1. CASE UNCHANGED <<cnt, moved>>
    BY <1>0, <1>1, <1>3, <2>1 DEF SumIsCurrent, passes
  <2> QED
    BY <1>0, <1>1, <1>3, <1>4, <2>1, SumStaysCurrent
<1>7. ahead' = ahead \/ CheckBarrier(r)
  BY DEF lock_reader, ReaderStep, reader_lock, __reader_lock, CheckBarrier, Retry, Drain,
         reader_unlock
<1>8. ~ahead' => ~ahead
  BY <1>7 DEF CheckBarrier
<1>9. Settled'
  <2>1. CASE lock_reader(r) \/ reader_lock(r) \/ Retry(r)
    BY <1>0, <1>8, <2>1
    DEF lock_reader, reader_lock, Retry, counters, Settled, TypeOK, Goto
  <2>2. CASE __reader_lock(r)
    BY <1>0, <1>8, <2>2 DEF __reader_lock, Settled, TypeOK, Goto
  <2>3. CASE CheckBarrier(r)
    BY <1>0, <1>8, <2>3 DEF CheckBarrier, counters, Settled, TypeOK, Goto
  <2>4. CASE Drain(r)
    BY <1>0, <1>8, <2>4 DEF Drain, Settled, TypeOK
  <2>5. CASE reader_unlock(r)
    BY <1>0, <1>8, <2>5 DEF reader_unlock, Settled, TypeOK, Goto
  <2> QED
    BY <2>1, <2>2, <2>3, <2>4, <2>5 DEF ReaderStep
<1>10. Raised'
  BY <1>0, <1>1, <1>3, <1>8 DEF Raised, barriers, passes
<1>11. WillNotice'
  <2>1. ASSUME NEW q \in Readers, pc'[q] = "in"
        PROVE  pc[q] = "in" \/ ~writer_barrier_
    BY <1>0, <2>1 DEF lock_reader, ReaderStep, reader_lock, __reader_lock, CheckBarrier,
                      Retry, Drain, reader_unlock, Goto, TypeOK
  <2> SUFFICES ASSUME ~ahead', NEW w \in Writers, NEW q \in Readers, pc'[q] = "in"
               PROVE  /\ pc'[w] = "verify" => \E k \in moved' : k >= core'
                      /\ pc'[w] \notin {"clear", "in"}
    BY DEF WillNotice
  <2> QED
    BY <1>0, <1>1, <1>3, <1>5, <1>8, <2>1 DEF WillNotice, Raised, passes
<1> QED
  BY <1>6, <1>9, <1>10, <1>11

\* Writers: what the one that holds the mutex does to the passes.
LEMMA WriterExcluded ==
  ASSUME ExclusionInv, NEW w \in Writers, lock_writer(w) \/ WriterStep(w)
  PROVE  Settled' /\ Raised' /\ SumIsCurrent' /\ WillNotice'
<1>0. TypeOK /\ Counted /\ Buffered /\ Settled /\ Raised /\ SumIsCurrent /\ WillNotice
  BY DEF ExclusionInv, CountInv
<1>1. w \notin Readers /\ w # None
  BY DisjointAssumption, NoneAssumption
<1>2. UNCHANGED <<cnt, pending>> /\ \A r \in Readers : pc'[r] = pc[r]
  BY <1>0, WriterLeaves
<1>3. ASSUME NEW v \in Writers, v # w PROVE pc'[v] = "out"
  <2>1. mutex_ \in {w, None}
    BY <1>0 DEF lock_writer, WriterStep, RaiseBarriers, SumUp, Verify, ClearSync,
                unlock_writer, UnlockMutex, TypeOK
  <2>2. pc[v] = "out"
    BY <1>0, <1>3, <2>1, NoneAssumption DEF TypeOK
  <2>3. UNCHANGED pc \/ \E l : Goto(w, l)
    BY DEF WriterStep, lock_writer, RaiseBarriers, SumUp, Verify, ClearSync, unlock_writer,
           UnlockMutex
  <2> QED
    BY <1>0, <1>3, <2>2, <2>3 DEF Goto, TypeOK
<1>4. ~ahead' => ~ahead
  BY DEF WriterStep, lock_writer, RaiseBarriers, SumUp, Verify, ClearSync, unlock_writer,
         UnlockMutex
<1>5. Settled'
  BY <1>0, <1>2, <1>4 DEF Settled
<1>6. ASSUME pc'[w] \in {"raise", "unlock", "out"}
      PROVE  Raised' /\ SumIsCurrent' /\ WillNotice'
  BY <1>3, <1>6 DEF Raised, SumIsCurrent, WillNotice
<1>n. NumCores \in Nat /\ cnt \in [1..NumCores -> Int] /\ core \in 1..(NumCores + 1)
  BY <1>0, CoresAssumption DEF TypeOK, Cores
<1>z. RunningSum(cnt, NumCores)[0] = 0
  BY <1>n, RunningSumUnfolds
<1>7. ASSUME pc'[w] = "sum", core' = 1, sum' = 0
      PROVE  Raised' /\ SumIsCurrent' /\ WillNotice'
  BY <1>2, <1>3, <1>7, <1>z DEF Raised, SumIsCurrent, WillNotice
<1>8. CASE lock_writer(w) \/ unlock_writer(w) \/ UnlockMutex(w)
  BY <1>0, <1>5, <1>6, <1>8 DEF lock_writer, unlock_writer, UnlockMutex, Goto, TypeOK
<1>9. CASE RaiseBarriers(w)
  BY <1>0, <1>5, <1>7, <1>9 DEF RaiseBarriers, Goto, TypeOK
<1>10. CASE SumUp(w) /\ core <= NumCores
  <2>1. /\ pc'[w] = "sum" /\ pc[w] = "sum" /\ sum' = sum + cnt[core] /\ core' = core + 1
        /\ moved' = moved \ {core} /\ ahead' = (ahead \/ ~writer_barrier_)
        /\ UNCHANGED writer_barrier_
    BY <1>10 DEF SumUp, barriers
  <2>2. Raised'
    <3>1. ~ahead' => writer_barrier_'
      BY <2>1
    <3> QED
      BY <3>1 DEF Raised
  <2>3. SumIsCurrent'
    <3>1. core \in 1..NumCores /\ core' - 1 = core /\ core - 1 \in 0..NumCores
      BY <1>n, <1>10, <2>1
    <3>2. ASSUME \A k \in 1..(core' - 1) : k \notin moved'
          PROVE  sum' = RunningSum(cnt', NumCores)[core' - 1]
      <4>1. \A k \in 1..(core - 1) : k \notin moved
        BY <2>1, <3>1, <3>2
      <4>2. sum = RunningSum(cnt, NumCores)[core - 1]
        BY <1>0, <2>1, <4>1 DEF SumIsCurrent
      <4>3. RunningSum(cnt, NumCores)[core] = RunningSum(cnt, NumCores)[core - 1] + cnt[core]
        BY <1>n, <3>1, RunningSumUnfolds
      <4> QED
        BY <1>2, <2>1, <3>1, <4>2, <4>3
    <3> QED
      BY <1>3, <2>1, <3>2 DEF SumIsCurrent
  <2>4. WillNotice'
    BY <1>3, <2>1 DEF WillNotice
  <2> QED
    BY <1>5, <2>2, <2>3, <2>4
<1>11. CASE SumUp(w) /\ ~(core <= NumCores) /\ sum # 0
  BY <1>0, <1>5, <1>7, <1>11 DEF SumUp, Goto, TypeOK
<1>12. CASE SumUp(w) /\ ~(core <= NumCores) /\ sum = 0
  <2>1. /\ pc[w] = "sum" /\ pc'[w] = "verify" /\ core' = 1 /\ sum' = 0
        /\ UNCHANGED <<moved, ahead, writer_barrier_>>
    BY <1>0, <1>12 DEF SumUp, barriers, Goto, TypeOK
  <2>2. core = NumCores + 1 /\ core > 1
    BY <1>n, <1>12, CoresAssumption
  <2>3. Raised'
    BY <1>0, <2>1, <2>2 DEF Raised
  <2>4. SumIsCurrent'
    BY <1>3, <2>1 DEF SumIsCurrent
  <2>5. WillNotice'
    <3> SUFFICES ASSUME ~ahead, NEW r \in Readers, pc[r] = "in", moved = {}
                 PROVE  FALSE
      <4>1. \A k \in moved : k >= 1
        BY <1>0 DEF TypeOK, Cores
      <4> QED
        BY <1>2, <1>3, <2>1, <4>1 DEF WillNotice
    <3>1. Total(cnt, NumCores) = 0
      BY <1>0, <1>n, <1>12, <2>1, <2>2 DEF SumIsCurrent, Total
    <3>2. r \in CountedReaders
      BY <1>0 DEF CountedReaders, Settled
    <3>3. Cardinality(CountedReaders) = 0
      BY <1>0, <3>1 DEF Counted
    <3> QED
      BY <3>2, <3>3, CountedFinite, FS_EmptySet
  <2> QED
    BY <1>5, <2>3, <2>4, <2>5
<1>13. CASE Verify(w)
  <2>0. pc[w] = "verify" /\ UNCHANGED <<moved, sum, ahead, writer_barrier_>> /\ sum = 0
    BY <1>0, <1>13 DEF Verify, counters, barriers, SumIsCurrent
  <2>1. CASE core <= NumCores /\ core \in moved
    BY <1>0, <1>5, <1>7, <1>13, <2>0, <2>1 DEF Verify, Goto, TypeOK
  <2>2. CASE core <= NumCores /\ core \notin moved
    <3>1. pc'[w] = "verify" /\ core' = core + 1
      BY <1>13, <2>0, <2>2 DEF Verify
    <3>2. \A k \in moved : k >= core => k >= core'
      BY <1>0, <1>n, <2>2, <3>1 DEF TypeOK, Cores
    <3>3. Raised' /\ SumIsCurrent'
      BY <1>0, <1>3, <2>0, <3>1 DEF Raised, SumIsCurrent
    <3>4. WillNotice'
      BY <1>0, <1>2, <1>3, <2>0, <3>1, <3>2 DEF WillNotice
    <3> QED
      BY <1>5, <3>3, <3>4
  <2>3. CASE ~(core <= NumCores)
    <3>1. pc'[w] = "clear"
      BY <1>0, <1>13, <2>3 DEF Verify, Goto, TypeOK
    <3>2. ~ \E k \in moved : k >= core
      BY <1>0, <1>n, <2>3 DEF TypeOK, Cores
    <3>3. Raised' /\ SumIsCurrent'
      BY <1>0, <1>3, <2>0, <3>1 DEF Raised, SumIsCurrent
    <3>4. WillNotice'
      BY <1>0, <1>2, <1>3, <2>0, <3>1, <3>2 DEF WillNotice
    <3> QED
      BY <1>5, <3>3, <3>4
  <2> QED
    BY <2>1, <2>2, <2>3
<1>14. CASE ClearSync(w)
  <2>1. pc[w] = "clear" /\ pc'[w] = "in" /\ UNCHANGED <<ahead, writer_barrier_>>
    BY <1>0, <1>14 DEF ClearSync, Goto, TypeOK
  <2>2. Raised' /\ SumIsCurrent'
    BY <1>0, <1>3, <2>1 DEF Raised, SumIsCurrent
  <2>3. WillNotice'
    BY <1>0, <1>2, <1>3, <2>1 DEF WillNotice
  <2> QED
    BY <1>5, <2>2, <2>3
<1> QED
  BY <1>8, <1>9, <1>10, <1>11, <1>12, <1>13, <1>14 DEF WriterStep

LEMMA ExclusionInvStep == ExclusionInv /\ [Next]_vars => ExclusionInv'
<1> SUFFICES ASSUME ExclusionInv, [Next]_vars PROVE ExclusionInv'
  OBVIOUS
<1>0. CountInv' /\ TypeOK /\ Settled /\ Raised /\ SumIsCurrent /\ WillNotice
  BY CountInvStep DEF ExclusionInv, CountInv
<1>1. CASE DrainBarriers
  <2>1. UNCHANGED <<cnt, moved, pending, core, sum, pc, ahead>>
    BY <1>1 DEF DrainBarriers, counters, passes
  <2>2. writer_barrier_'
    BY <1>1 DEF DrainBarriers
  <2> QED
    BY <1>0, <2>1, <2>2 DEF ExclusionInv, Settled, Raised, SumIsCurrent, WillNotice
<1>2. CASE UNCHANGED vars
  BY <1>0, <1>2 DEF vars, ExclusionInv, Settled, Raised, SumIsCurrent, WillNotice
<1> QED
  BY <1>0, <1>1, <1>2, ReaderExcluded, WriterExcluded DEF Next, ExclusionInv

\* Unless a load has overtaken a store, RCULock and ReaderWriterLock exclude
\* readers from a writer, for any number of readers, writers and cores: the two
\* passes of writer_sync together see every reader.
THEOREM ExcludesReaders == Spec => []Exclusion
<1>1. ExclusionInv => Exclusion
  BY DEF ExclusionInv, WillNotice, Exclusion, ReadersIn, WritersIn
<1> QED
  BY <1>1, ExclusionInvInit, ExclusionInvStep, PTL DEF Spec

-----------------------------------------------------------------------------
\* Locks on object ids.

\* The invariant: it is inductive as it stands, because a woken thread leaves
\* the condition variable in the very step that erases the id.
LockerInv == LockerTypeOK /\ OneHolder /\ SleepersHaveHolder

LEMMA LockStep ==
  ASSUME LockerInv, NEW t \in Threads, NEW i \in Ids, lock_object(t, i)
  PROVE  LockerInv'
<1>1. LockerTypeOK'
  BY NoIdAssumption DEF LockerInv, LockerTypeOK, lock_object
<1>2. \A u \in Threads : (stage'[u] = "in" <=> stage[u] = "in")
                      /\ (stage'[u] = "sleep" <=> stage[u] = "sleep")
                      /\ (stage[u] # "out" => want'[u] = want[u])
  BY DEF LockerInv, LockerTypeOK, lock_object
<1>3. OneHolder'
  BY <1>2 DEF LockerInv, OneHolder, lock_object
<1>4. SleepersHaveHolder'
  BY <1>2 DEF LockerInv, SleepersHaveHolder, lock_object
<1> QED
  BY <1>1, <1>3, <1>4 DEF LockerInv

LEMMA InsertStep ==
  ASSUME LockerInv, NEW t \in Threads, try_insert(t)
  PROVE  LockerInv'
<1>1. want[t] \in Ids
  BY DEF LockerInv, LockerTypeOK, try_insert
<1>2. LockerTypeOK'
  BY <1>1 DEF LockerInv, LockerTypeOK, try_insert
<1>3. CASE want[t] \in locked
  BY <1>2, <1>3 DEF LockerInv, LockerTypeOK, OneHolder, SleepersHaveHolder, try_insert
<1>4. CASE want[t] \notin locked
  <2>1. /\ locked' = locked \cup {want[t]} /\ want' = want /\ stage'[t] = "in"
        /\ \A u \in Threads \ {t} : stage'[u] = stage[u]
    BY <1>4 DEF LockerInv, LockerTypeOK, try_insert
  <2>2. OneHolder'
    BY <1>4, <2>1 DEF LockerInv, OneHolder
  <2>3. SleepersHaveHolder'
    BY <2>1 DEF LockerInv, SleepersHaveHolder
  <2> QED
    BY <1>2, <2>2, <2>3 DEF LockerInv
<1> QED
  BY <1>3, <1>4

LEMMA AgainStep ==
  ASSUME LockerInv, NEW t \in Threads, Again(t)
  PROVE  LockerInv'
BY DEF LockerInv, LockerTypeOK, OneHolder, SleepersHaveHolder, Again

\* Whoever still sleeps after remove wants an id of another map, so not the one
\* that was erased.
LEMMA RemoveStep ==
  ASSUME LockerInv, NEW t \in Threads, remove(t)
  PROVE  LockerInv'
<1>1. /\ locked' = locked \ {want[t]} /\ want'[t] = NoId /\ stage'[t] = "out"
      /\ stage[t] = "in" /\ want[t] \in Ids
      /\ \A u \in Threads \ {t} : want'[u] = want[u]
      /\ \A u \in Threads \ {t} :
           stage'[u] = stage[u] \/ (stage[u] = "sleep" /\ stage'[u] = "woken")
  BY DEF LockerInv, LockerTypeOK, remove, Sleepers
<1>2. LockerTypeOK'
  <2>1. stage' \in [Threads -> {"out", "insert", "sleep", "woken", "in"}]
    BY DEF LockerInv, LockerTypeOK, remove
  <2>2. want' \in [Threads -> Ids \cup {NoId}]
    BY DEF LockerInv, LockerTypeOK, remove
  <2> QED
    BY <1>1, <2>1, <2>2 DEF LockerInv, LockerTypeOK
<1>3. OneHolder'
  BY <1>1, NoIdAssumption DEF LockerInv, LockerTypeOK, OneHolder
<1>4. SleepersHaveHolder'
  <2> SUFFICES ASSUME NEW u \in Threads, stage'[u] = "sleep"
               PROVE  want'[u] \in locked'
    BY DEF SleepersHaveHolder
  <2>1. u # t /\ stage[u] = "sleep" /\ want[u] \in locked
    BY <1>1 DEF LockerInv, SleepersHaveHolder
  <2>2. hash_func[want[u]] # hash_func[want[t]]
    BY <2>1 DEF remove, Sleepers
  <2> QED
    BY <1>1, <2>1, <2>2
<1> QED
  BY <1>2, <1>3, <1>4 DEF LockerInv

LEMMA LockerInvHolds == LockerSpec => []LockerInv
<1>1. LockerInit => LockerInv
  BY NoIdAssumption DEF LockerInit, LockerInv, LockerTypeOK, OneHolder, SleepersHaveHolder
<1>2. LockerInv /\ [LockerNext]_lockerVars => LockerInv'
  <2> SUFFICES ASSUME LockerInv, [LockerNext]_lockerVars PROVE LockerInv'
    OBVIOUS
  <2>1. CASE UNCHANGED lockerVars
    BY <2>1 DEF LockerInv, LockerTypeOK, OneHolder, SleepersHaveHolder, lockerVars
  <2> QED
    BY <2>1, LockStep, InsertStep, AgainStep, RemoveStep DEF LockerNext, LockerStep
<1> QED
  BY <1>1, <1>2, PTL DEF LockerSpec

\* Every locked id has exactly one holder and remove always finds it.
THEOREM OneHolderHolds == LockerSpec => []OneHolder
BY LockerInvHolds, PTL DEF LockerInv

\* No wake-up is lost, for any number of threads and ids and however badly the
\* hash function spreads the ids over the maps.
THEOREM NoLostWakeup == LockerSpec => []SleepersHaveHolder
BY LockerInvHolds, PTL DEF LockerInv
=============================================================================
