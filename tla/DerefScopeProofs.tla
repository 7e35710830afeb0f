--------------------------- MODULE DerefScopeProofs ----------------------------
(* Proofs about DerefScope, for any number of threads and cores. *)
EXTENDS DerefScope, CoreSums, WellFoundedInduction, FiniteSetTheorems, TLAPS

-----------------------------------------------------------------------------
\* Sums over cores.

\* The way to induction on a natural number: the least counterexample.
LEMMA LeastNat ==
  ASSUME NEW T \in SUBSET Nat, T # {}
  PROVE  \E n \in T : \A m \in T : n <= m
<1>1. PICK n \in T : \A m \in T : ~(<<m, n>> \in OpToRel(<, Nat))
  BY NatLessThanWellFounded, WFMin, Zenon
<1>2. \A m \in T : ~(m < n)
  BY <1>1 DEF OpToRel
<1> QED
  BY <1>2

\* A property of 0 that passes from n to n + 1 holds of every number up to N.
LEMMA UpToN ==
  ASSUME NEW N \in Nat, NEW P, 0 \in P, \A n \in 0..N : n \in P /\ n < N => n + 1 \in P
  PROVE  \A n \in 0..N : n \in P
<1> DEFINE T == {n \in 0..N : n \notin P}
<1> SUFFICES ASSUME T # {} PROVE FALSE
  OBVIOUS
<1>0. T \in SUBSET Nat
  OBVIOUS
<1>1. PICK n \in T : \A m \in T : n <= m
  <2> HIDE DEF T
  <2> QED
    BY <1>0, LeastNat
<1>2. n # 0 /\ n \in 1..N
  BY <1>1
<1>3. n - 1 \in 0..N /\ n - 1 < N /\ n - 1 \notin T
  BY <1>1, <1>2
<1>4. n - 1 \in P
  BY <1>3
<1>5. (n - 1) + 1 \in P
  BY <1>3, <1>4
<1> QED
  BY <1>1, <1>2, <1>5

LEMMA RunningSumExists ==
  ASSUME NEW N \in Nat, NEW f
  PROVE  \E s : s = [n \in 0..N |-> IF n = 0 THEN 0 ELSE s[n - 1] + f[n]]
<1> DEFINE E(m) == \E s : s = [n \in 0..m |-> IF n = 0 THEN 0 ELSE s[n - 1] + f[n]]
           P == {m \in Nat : E(m)}
<1>1. 0 \in P
  <2> DEFINE z == [n \in 0..0 |-> 0]
  <2>1. z = [n \in 0..0 |-> IF n = 0 THEN 0 ELSE z[n - 1] + f[n]]
    OBVIOUS
  <2> QED
    BY <2>1, Zenon
<1>2. ASSUME NEW m \in 0..N, m \in P PROVE m + 1 \in P
  <2> PICK s : s = [n \in 0..m |-> IF n = 0 THEN 0 ELSE s[n - 1] + f[n]]
    BY <1>2, Zenon
  <2> DEFINE z == [n \in 0..(m + 1) |-> IF n = m + 1 THEN s[m] + f[m + 1] ELSE s[n]]
  <2>1. ASSUME NEW n \in 0..(m + 1)
        PROVE  z[n] = IF n = 0 THEN 0 ELSE z[n - 1] + f[n]
    OBVIOUS
  <2>2. z = [n \in 0..(m + 1) |-> IF n = 0 THEN 0 ELSE z[n - 1] + f[n]]
    <3> HIDE DEF z
    <3> QED
      BY <2>1 DEF z
  <2>3. E(m + 1)
    BY <2>2, Zenon
  <2> QED
    BY <2>3
<1>3. N \in P
  <2> HIDE DEF P
  <2>1. \A n \in 0..N : n \in P
    BY <1>1, <1>2, UpToN
  <2> QED
    BY <2>1
<1> QED
  BY <1>3

LEMMA RunningSumUnfolds ==
  ASSUME NEW N \in Nat, NEW f \in [1..N -> Int]
  PROVE  /\ RunningSum(f, N) \in [0..N -> Int]
         /\ RunningSum(f, N)[0] = 0
         /\ \A n \in 1..N : RunningSum(f, N)[n] = RunningSum(f, N)[n - 1] + f[n]
         /\ Total(f, N) \in Int
<1> DEFINE s == RunningSum(f, N)
<1>1. s = [n \in 0..N |-> IF n = 0 THEN 0 ELSE s[n - 1] + f[n]]
  BY RunningSumExists, Zenon DEF RunningSum
<1> HIDE DEF s
<1>2. s[0] = 0 /\ \A n \in 1..N : s[n] = s[n - 1] + f[n]
  BY <1>1
<1> DEFINE P == {m \in 0..N : s[m] \in Int}
<1>3. \A n \in 0..N : n \in P
  <2>1. 0 \in P
    BY <1>2
  <2>2. ASSUME NEW n \in 0..N, n \in P, n < N PROVE n + 1 \in P
    <3>1. n + 1 \in 1..N /\ f[n + 1] \in Int /\ (n + 1) - 1 = n
      BY <2>2
    <3>2. s[n + 1] = s[n] + f[n + 1]
      BY <1>2, <3>1
    <3> QED
      BY <2>2, <3>1, <3>2
  <2> HIDE DEF P
  <2> QED
    BY <2>1, <2>2, UpToN
<1>4. s \in [0..N -> Int]
  BY <1>1, <1>3
<1>5. N \in 0..N
  OBVIOUS
<1> QED
  BY <1>2, <1>4, <1>5 DEF s, Total

\* Adding d to one term adds d to every sum from there on.
LEMMA RunningSumAdd ==
  ASSUME NEW N \in Nat, NEW f \in [1..N -> Int], NEW k \in 1..N, NEW d \in Int,
         NEW g \in [1..N -> Int],
         g[k] = f[k] + d, \A n \in 1..N : n # k => g[n] = f[n]
  PROVE  /\ \A n \in 0..N : RunningSum(g, N)[n]
                              = RunningSum(f, N)[n] + (IF k <= n THEN d ELSE 0)
         /\ Total(g, N) = Total(f, N) + d
<1> DEFINE s == RunningSum(f, N)
           u == RunningSum(g, N)
           P == {m \in 0..N : u[m] = s[m] + (IF k <= m THEN d ELSE 0)}
<1>0. /\ s \in [0..N -> Int] /\ s[0] = 0 /\ \A n \in 1..N : s[n] = s[n - 1] + f[n]
      /\ u \in [0..N -> Int] /\ u[0] = 0 /\ \A n \in 1..N : u[n] = u[n - 1] + g[n]
  BY RunningSumUnfolds
<1> HIDE DEF s, u
<1>1. 0 \in P
  BY <1>0
<1>2. ASSUME NEW n \in 0..N, n \in P, n < N PROVE n + 1 \in P
  <2>1. n + 1 \in 1..N /\ (n + 1) - 1 = n /\ f[n + 1] \in Int
    BY <1>2
  <2>2. s[n + 1] = s[n] + f[n + 1] /\ u[n + 1] = u[n] + g[n + 1]
    BY <1>0, <2>1
  <2>3. g[n + 1] = f[n + 1] + (IF k = n + 1 THEN d ELSE 0)
    BY <2>1
  <2>4. s[n] \in Int /\ s[n + 1] \in Int
    BY <1>0, <2>1
  <2> QED
    BY <1>2, <2>1, <2>2, <2>3, <2>4
<1>3. \A n \in 0..N : n \in P
  <2> HIDE DEF P
  <2> QED
    BY <1>1, <1>2, UpToN
<1>4. N \in 0..N /\ k <= N
  OBVIOUS
<1> QED
  BY <1>3, <1>4 DEF s, u, Total

\* The sum of nothing but zeros.
LEMMA RunningSumZero ==
  ASSUME NEW N \in Nat, NEW f \in [1..N -> Int], \A n \in 1..N : f[n] = 0
  PROVE  Total(f, N) = 0
<1> DEFINE s == RunningSum(f, N)
           P == {m \in 0..N : s[m] = 0}
<1>0. /\ s \in [0..N -> Int] /\ s[0] = 0 /\ \A n \in 1..N : s[n] = s[n - 1] + f[n]
  BY RunningSumUnfolds
<1> HIDE DEF s
<1>1. 0 \in P
  BY <1>0
<1>2. ASSUME NEW n \in 0..N, n \in P, n < N PROVE n + 1 \in P
  <2>1. n + 1 \in 1..N /\ (n + 1) - 1 = n /\ f[n + 1] = 0
    BY <1>2
  <2> QED
    BY <1>0, <1>2, <2>1
<1>3. N \in P
  <2> HIDE DEF P
  <2>1. \A n \in 0..N : n \in P
    BY <1>1, <1>2, UpToN
  <2> QED
    BY <2>1
<1> QED
  BY <1>3 DEF s, Total

-----------------------------------------------------------------------------
LEMMA CountTyped ==
  ASSUME TypeOK, NEW t \in Threads, NEW s, NEW d \in Int, Count(t, s, d)
  PROVE  num' \in [CPUs -> [InScope -> -MaxDrift..MaxDrift]]
BY DEF TypeOK, Count

LEMMA TypeInit == Init => TypeOK
<1>1. 0 \in -MaxDrift..MaxDrift /\ 1 \in 1..(NumCPUs + 1)
  BY CPUsAssumption, DriftAssumption
<1>2. Init => num \in [CPUs -> [InScope -> -MaxDrift..MaxDrift]] /\ sum \in Int
  BY <1>1 DEF Init
<1>3. Init => late \in BOOLEAN
  BY DEF Init
<1> QED
  BY <1>1, <1>2, <1>3 DEF Init, TypeOK, InScope

LEMMA TypeStep == TypeOK /\ [Next]_vars => TypeOK'
<1> SUFFICES ASSUME TypeOK, [Next]_vars PROVE TypeOK'
  OBVIOUS
<1>1. CASE FlipExpected
  BY <1>1, CPUsAssumption
  DEF TypeOK, FlipExpected, StartScan, flip_status, InScope, threadVars
<1>2. CASE get_num_threads
  <2>1. num[next][flip_status(expected)] \in Int
    BY <1>2, CPUsAssumption, DriftAssumption
    DEF TypeOK, get_num_threads, flip_status, InScope, CPUs
  <2> QED
    BY <1>2, <2>1, CPUsAssumption DEF TypeOK, get_num_threads, threadVars
<1>3. CASE ScanDone
  BY <1>3, CPUsAssumption DEF TypeOK, ScanDone, StartScan, threadVars
<1>4. ASSUME NEW t \in Threads, EnterSnapshot(t) PROVE TypeOK'
  BY <1>4 DEF TypeOK, EnterSnapshot, scanVars
<1>5. ASSUME NEW t \in Threads, EnterCount(t) PROVE TypeOK'
  BY <1>5, CountTyped DEF TypeOK, EnterCount, scanVars
<1>6. ASSUME NEW t \in Threads, ExitCount(t) PROVE TypeOK'
  BY <1>6, CountTyped DEF TypeOK, ExitCount, scanVars
<1>7. ASSUME NEW t \in Threads, ExitStatus(t) PROVE TypeOK'
  BY <1>7 DEF TypeOK, ExitStatus, scanVars
<1>8. ASSUME NEW t \in Threads, Migrate(t) PROVE TypeOK'
  BY <1>8 DEF TypeOK, Migrate, scanVars
<1>9. CASE UNCHANGED vars
  BY <1>9 DEF TypeOK, vars, threadVars, scanVars
<1> QED
  BY <1>1, <1>2, <1>3, <1>4, <1>5, <1>6, <1>7, <1>8, <1>9 DEF Next, Leave, Wait

\* Every state is well typed: the scan of get_num_threads stays within the cores
\* and the counters within their bound, whatever cores threads enter and exit on.
THEOREM TypeCorrect == Spec => []TypeOK
BY TypeInit, TypeStep, PTL DEF Spec

-----------------------------------------------------------------------------
(* The counters implement ScopeSpec.                                       *)

\* The counters of one status, core by core, and the threads they count.
Column(n, s) == [c \in CPUs |-> n[c][s]]
InClass(s) == {t \in Threads : pc[t] = "in" /\ status[t] = s}

\* The counters of a status add up to the threads in a scope of it.
CountsClasses == \A s \in InScope : Total(Column(num, s), NumCPUs) = Cardinality(InClass(s))

\* A thread has a status while it is between enter and exit.
HasStatus == \A t \in Threads : pc[t] # "out" <=> status[t] \in InScope

\* Unless a thread was counted late, what the scan has added up is at least what
\* the counters it has read add up to now: they have only been decremented.
ScanIsAbove ==
  gc = "scan" /\ ~late
    => sum >= RunningSum(Column(num, flip_status(expected)), NumCPUs)[next - 1]

ScanInv == TypeOK /\ CountsClasses /\ HasStatus /\ ScanIsAbove

LEMMA ColumnTyped ==
  ASSUME TypeOK, NEW s \in InScope
  PROVE  /\ NumCPUs \in Nat /\ Column(num, s) \in [1..NumCPUs -> Int]
         /\ \A c \in 1..NumCPUs : Column(num, s)[c] = num[c][s]
BY CPUsAssumption, DriftAssumption DEF TypeOK, Column, CPUs

LEMMA ClassFinite == ASSUME NEW s PROVE IsFiniteSet(InClass(s))
<1>1. InClass(s) \subseteq Threads
  BY DEF InClass
<1> QED
  BY <1>1, ThreadsAssumption, FS_Subset

\* One instruction changes the sums of its own status and of no other.
LEMMA CountAdds ==
  ASSUME TypeOK, TypeOK', NEW t \in Threads, NEW s \in InScope, NEW d \in Int, Count(t, s, d)
  PROVE  /\ Total(Column(num, s), NumCPUs) \in Int
         /\ Total(Column(num', s), NumCPUs) = Total(Column(num, s), NumCPUs) + d
         /\ \A n \in 0..NumCPUs :
              RunningSum(Column(num', s), NumCPUs)[n]
                = RunningSum(Column(num, s), NumCPUs)[n] + (IF core[t] <= n THEN d ELSE 0)
         /\ \A r \in InScope : r # s => Column(num', r) = Column(num, r)
<1>1. core[t] \in 1..NumCPUs
  BY DEF TypeOK, CPUs
<1>2. \A c \in CPUs, r \in InScope : num'[c][r] = num[c][r] + (IF c = core[t] /\ r = s THEN d ELSE 0)
  BY DriftAssumption DEF TypeOK, Count
<1>3. \A r \in InScope : r # s => Column(num', r) = Column(num, r)
  BY <1>2, DriftAssumption DEF Column, TypeOK
<1>a. \A c \in CPUs : num[c][s] \in Int /\ num'[c][s] \in Int
  BY DriftAssumption DEF TypeOK
<1>b. Column(num, s) = [c \in 1..NumCPUs |-> num[c][s]] /\ Column(num', s) = [c \in 1..NumCPUs |-> num'[c][s]]
  BY DEF Column, CPUs
<1>4. /\ NumCPUs \in Nat /\ Column(num, s) \in [1..NumCPUs -> Int]
      /\ Column(num', s) \in [1..NumCPUs -> Int]
  BY <1>a, <1>b, CPUsAssumption DEF CPUs
<1>5. /\ Column(num', s)[core[t]] = Column(num, s)[core[t]] + d
      /\ \A c \in 1..NumCPUs : c # core[t] => Column(num', s)[c] = Column(num, s)[c]
  BY <1>1, <1>2, <1>a, <1>b DEF CPUs
<1>6. Total(Column(num, s), NumCPUs) \in Int
  BY <1>4, RunningSumUnfolds
<1> DEFINE f == Column(num, s)
           g == Column(num', s)
           k == core[t]
           N == NumCPUs
<1>7. /\ N \in Nat /\ f \in [1..N -> Int] /\ g \in [1..N -> Int] /\ k \in 1..N
      /\ g[k] = f[k] + d /\ \A n \in 1..N : n # k => g[n] = f[n]
  BY <1>1, <1>4, <1>5
<1>8. /\ \A n \in 0..N : RunningSum(g, N)[n] = RunningSum(f, N)[n] + (IF k <= n THEN d ELSE 0)
      /\ Total(g, N) = Total(f, N) + d
  <2> HIDE DEF f, g, k, N
  <2> QED
    BY <1>7, RunningSumAdd
<1> QED
  BY <1>3, <1>6, <1>8

LEMMA ClassesUnmoved ==
  ASSUME CountsClasses, UNCHANGED num, \A s \in InScope : InClass(s)' = InClass(s)
  PROVE  CountsClasses'
BY DEF CountsClasses, Column

LEMMA ScanUnmoved ==
  ASSUME ScanIsAbove, UNCHANGED <<expected, num, gc, scanVars, late>>
  PROVE  ScanIsAbove'
BY DEF ScanIsAbove, Column, scanVars

LEMMA OldIsNotExpected == flip_status(expected) \in InScope /\ flip_status(expected) # expected
BY DEF flip_status, InScope

LEMMA ScanInvInit == Init => ScanInv
<1> SUFFICES ASSUME Init PROVE ScanInv
  OBVIOUS
<1>1. TypeOK
  BY TypeInit
<1>2. ASSUME NEW s \in InScope PROVE Total(Column(num, s), NumCPUs) = Cardinality(InClass(s))
  <2>1. \A c \in 1..NumCPUs : Column(num, s)[c] = 0
    BY DEF Init, Column, CPUs
  <2>2. Total(Column(num, s), NumCPUs) = 0
    BY <1>1, <2>1, ColumnTyped, RunningSumZero
  <2>3. InClass(s) = {}
    BY DEF Init, InClass
  <2> QED
    BY <2>2, <2>3, FS_EmptySet
<1>3. HasStatus
  BY DEF Init, HasStatus, InScope
<1>4. ScanIsAbove
  BY DEF Init, ScanIsAbove
<1> QED
  BY <1>1, <1>2, <1>3, <1>4 DEF ScanInv, CountsClasses

LEMMA CollectorScans ==
  ASSUME ScanInv, FlipExpected \/ get_num_threads \/ ScanDone
  PROVE  CountsClasses' /\ HasStatus' /\ ScanIsAbove'
<1>0. TypeOK /\ CountsClasses /\ HasStatus /\ ScanIsAbove
  BY DEF ScanInv
<1>1. UNCHANGED <<threadVars, num, late>>
  BY DEF FlipExpected, get_num_threads, ScanDone
<1>2. CountsClasses' /\ HasStatus'
  <2>1. \A s \in InScope : InClass(s)' = InClass(s)
    BY <1>1 DEF threadVars, InClass
  <2> QED
    BY <1>0, <1>1, <2>1, ClassesUnmoved DEF HasStatus, threadVars
<1>3. TypeOK'
  BY <1>0, TypeStep DEF Next, Wait
<1> DEFINE old == flip_status(expected')
<1>4. NumCPUs \in Nat /\ Column(num, old) \in [1..NumCPUs -> Int] /\ Column(num', old) = Column(num, old)
  <2>1. old \in InScope
    BY <1>3 DEF flip_status, InScope
  <2> QED
    BY <1>0, <1>1, <2>1, ColumnTyped DEF Column
<1>5. /\ RunningSum(Column(num, old), NumCPUs) \in [0..NumCPUs -> Int]
      /\ RunningSum(Column(num, old), NumCPUs)[0] = 0
      /\ \A n \in 1..NumCPUs : RunningSum(Column(num, old), NumCPUs)[n]
                                = RunningSum(Column(num, old), NumCPUs)[n - 1] + Column(num, old)[n]
  BY <1>4, RunningSumUnfolds
<1>6. CASE StartScan
  <2>1. next' - 1 = 0 /\ sum' = 0
    BY <1>6 DEF StartScan
  <2>2. sum' >= RunningSum(Column(num, old), NumCPUs)[next' - 1]
    BY <1>5, <2>1
  <2>3. ScanIsAbove'
    BY <1>4, <2>2 DEF ScanIsAbove
  <2> QED
    BY <1>2, <2>3
<1>7. CASE get_num_threads
  <2>1. /\ gc = "scan" /\ gc' = gc /\ expected' = expected
        /\ next' = next + 1 /\ sum' = sum + num[next][old]
    BY <1>7 DEF get_num_threads
  <2>2. next \in 1..NumCPUs /\ next' - 1 = next /\ next - 1 \in 0..NumCPUs /\ sum \in Int
    BY <1>0, <1>4, <1>7 DEF get_num_threads, TypeOK
  <2>3. num[next][old] = Column(num, old)[next] /\ Column(num, old)[next] \in Int
    BY <1>4, <2>2 DEF Column, CPUs
  <2>4. ~late => sum >= RunningSum(Column(num, old), NumCPUs)[next - 1]
    BY <1>0, <2>1 DEF ScanIsAbove
  <2>5. RunningSum(Column(num, old), NumCPUs)[next - 1] \in Int
    BY <1>5, <2>2
  <2>6. ~late => sum' >= RunningSum(Column(num, old), NumCPUs)[next' - 1]
    BY <1>5, <2>1, <2>2, <2>3, <2>4, <2>5
  <2>7. ScanIsAbove'
    BY <1>1, <1>4, <2>6 DEF ScanIsAbove
  <2> QED
    BY <1>2, <2>7
<1> QED
  BY <1>6, <1>7 DEF FlipExpected, ScanDone

LEMMA ThreadCounts ==
  ASSUME ScanInv, TypeOK', NEW t \in Threads,
         EnterSnapshot(t) \/ Leave(t) \/ Migrate(t)
  PROVE  CountsClasses' /\ HasStatus' /\ ScanIsAbove'
<1>0. TypeOK /\ CountsClasses /\ HasStatus /\ ScanIsAbove
  BY DEF ScanInv
<1>1. CASE EnterSnapshot(t) \/ ExitStatus(t) \/ Migrate(t)
  <2>1. UNCHANGED <<expected, num, gc, scanVars, late>>
    BY <1>1 DEF EnterSnapshot, ExitStatus, Migrate
  <2>2. \A s \in InScope : InClass(s)' = InClass(s)
    BY <1>0, <1>1 DEF EnterSnapshot, ExitStatus, Migrate, InClass, TypeOK
  <2>3. HasStatus'
    BY <1>0, <1>1 DEF EnterSnapshot, ExitStatus, Migrate, HasStatus, TypeOK, InScope
  <2> QED
    BY <1>0, <2>1, <2>2, <2>3, ClassesUnmoved, ScanUnmoved
<1>2. ASSUME NEW d \in {1, -1}, NEW s \in InScope, s = status[t], Count(t, s, d),
             UNCHANGED <<expected, gc, scanVars, status>>,
             ~late' => ~late /\ (d = 1 => s # flip_status(expected)),
             IF d = 1 THEN t \notin InClass(s) /\ pc' = [pc EXCEPT ![t] = "in"]
                      ELSE t \in InClass(s) /\ pc' = [pc EXCEPT ![t] = "exiting"]
      PROVE  CountsClasses' /\ ScanIsAbove'
  <2>1. d \in Int
    BY <1>2
  <2>2. /\ Total(Column(num, s), NumCPUs) \in Int
        /\ Total(Column(num', s), NumCPUs) = Total(Column(num, s), NumCPUs) + d
        /\ \A n \in 0..NumCPUs :
              RunningSum(Column(num', s), NumCPUs)[n]
                = RunningSum(Column(num, s), NumCPUs)[n] + (IF core[t] <= n THEN d ELSE 0)
        /\ \A r \in InScope : r # s => Column(num', r) = Column(num, r)
    BY <1>0, <1>2, <2>1, CountAdds
  <2>3. \A r \in InScope : r # s => InClass(r)' = InClass(r)
    BY <1>0, <1>2 DEF InClass, TypeOK
  <2>4. Cardinality(InClass(s)') = Cardinality(InClass(s)) + d
    <3>1. CASE d = 1
      <4>1. InClass(s)' = InClass(s) \cup {t} /\ t \notin InClass(s)
        BY <1>0, <1>2, <3>1 DEF InClass, TypeOK
      <4> QED
        BY <3>1, <4>1, ClassFinite, FS_AddElement
    <3>2. CASE d = -1
      <4>1. InClass(s)' = InClass(s) \ {t} /\ t \in InClass(s)
        BY <1>0, <1>2, <3>2 DEF InClass, TypeOK
      <4>2. Cardinality(InClass(s)) \in Nat
        BY ClassFinite, FS_CardinalityType
      <4> QED
        BY <3>2, <4>1, <4>2, ClassFinite, FS_RemoveElement
    <3> QED
      BY <1>2, <3>1, <3>2
  <2>5. CountsClasses'
    <3> SUFFICES ASSUME NEW r \in InScope
                 PROVE  Total(Column(num', r), NumCPUs) = Cardinality(InClass(r)')
      BY DEF CountsClasses
    <3>1. Total(Column(num, r), NumCPUs) = Cardinality(InClass(r))
      BY <1>0 DEF CountsClasses
    <3> QED
      BY <2>2, <2>3, <2>4, <3>1
  <2>6. ScanIsAbove'
    <3> DEFINE old == flip_status(expected)
    <3> SUFFICES ASSUME gc = "scan", ~late'
                 PROVE  sum >= RunningSum(Column(num', old), NumCPUs)[next - 1]
      BY <1>2 DEF ScanIsAbove, scanVars, Column
    <3>1. sum >= RunningSum(Column(num, old), NumCPUs)[next - 1]
      BY <1>0, <1>2 DEF ScanIsAbove
    <3>2. old \in InScope /\ next - 1 \in 0..NumCPUs /\ sum \in Int
      BY <1>0, OldIsNotExpected, CPUsAssumption DEF TypeOK
    <3>3. CASE old # s
      BY <2>2, <3>1, <3>2, <3>3
    <3>4. CASE old = s
      <4>1. d = -1
        BY <1>2, <3>4
      <4>2. RunningSum(Column(num, old), NumCPUs)[next - 1] \in Int
        BY <1>0, <3>2, ColumnTyped, RunningSumUnfolds
      <4> HIDE DEF old
      <4> QED
        BY <2>2, <3>1, <3>2, <3>4, <4>1, <4>2
    <3> QED
      BY <3>3, <3>4
  <2> QED
    BY <2>5, <2>6
<1>3. CASE EnterCount(t)
  <2>1. status[t] \in InScope /\ t \notin InClass(status[t])
    BY <1>0, <1>3 DEF EnterCount, HasStatus, InClass
  <2>2. ~late' => ~late /\ status[t] # flip_status(expected)
    BY <1>3, OldIsNotExpected DEF EnterCount
  <2>3. HasStatus'
    BY <1>0, <1>3 DEF EnterCount, HasStatus, TypeOK
  <2>4. CountsClasses' /\ ScanIsAbove'
    BY <1>2, <1>3, <2>1, <2>2 DEF EnterCount
  <2> QED
    BY <2>3, <2>4
<1>4. CASE ExitCount(t)
  <2>1. status[t] \in InScope /\ t \in InClass(status[t])
    BY <1>0, <1>4 DEF ExitCount, HasStatus, InClass
  <2>2. HasStatus'
    BY <1>0, <1>4 DEF ExitCount, HasStatus, TypeOK
  <2>3. CountsClasses' /\ ScanIsAbove'
    BY <1>2, <1>4, <2>1 DEF ExitCount
  <2> QED
    BY <2>2, <2>3
<1> QED
  BY <1>1, <1>3, <1>4 DEF Leave

LEMMA ScanInvStep == ScanInv /\ [Next]_vars => ScanInv'
<1> SUFFICES ASSUME ScanInv, [Next]_vars PROVE ScanInv'
  OBVIOUS
<1>0. TypeOK'
  BY TypeStep DEF ScanInv
<1>1. CASE UNCHANGED vars
  <2>1. \A s \in InScope : InClass(s)' = InClass(s)
    BY <1>1 DEF vars, threadVars, InClass
  <2> QED
    BY <1>0, <1>1, <2>1, ClassesUnmoved, ScanUnmoved DEF ScanInv, vars, threadVars, HasStatus
<1> QED
  BY <1>0, <1>1, CollectorScans, ThreadCounts DEF ScanInv, Next, Wait

\* A scan that ends with zero has seen the old class empty.
LEMMA ZeroMeansEmpty ==
  ASSUME ScanInv, ScanDone, sum = 0, ~late
  PROVE  InClass(flip_status(expected)) = {}
<1> DEFINE old == flip_status(expected)
<1>1. TypeOK /\ CountsClasses /\ ScanIsAbove /\ old \in InScope
  BY OldIsNotExpected DEF ScanInv
<1>2. NumCPUs \in Nat /\ next - 1 = NumCPUs
  BY CPUsAssumption DEF ScanDone
<1>3. 0 >= Total(Column(num, old), NumCPUs)
  BY <1>1, <1>2 DEF ScanIsAbove, ScanDone, Total
<1>4. Cardinality(InClass(old)) \in Nat
  BY ClassFinite, FS_CardinalityType
<1>5. Cardinality(InClass(old)) = 0
  BY <1>1, <1>3, <1>4 DEF CountsClasses
<1> QED
  BY <1>5, ClassFinite, FS_EmptySet

\* The scopes of ScopeSpec, as the mapping of DerefScope has them.
scopeBar == [t \in Threads |-> IF pc[t] = "in" THEN status[t] ELSE "Out"]

LEMMA StepIsScopeStep ==
  ASSUME ScanInv, [Next]_vars
  PROVE  [Scopes!Next]_(Scopes!vars)
<1>0. TypeOK /\ HasStatus /\ TypeOK'
  BY TypeStep DEF ScanInv
<1>s. InScope = Scopes!Class /\ flip_status(expected) = Scopes!other(expected)
  BY DEF InScope, Scopes!Class, flip_status, Scopes!other
<1>u. ASSUME scopeBar' = scopeBar, (gc' = "scan") = (gc = "scan"), UNCHANGED <<expected, late>>
      PROVE  UNCHANGED Scopes!vars
  BY <1>u DEF Scopes!vars, scopeBar
<1>1. CASE FlipExpected
  <2>1. Scopes!Flip
    BY <1>1, <1>s DEF FlipExpected, Scopes!Flip, threadVars
  <2> QED
    BY <2>1 DEF Scopes!Next
<1>2. CASE get_num_threads
  BY <1>2, <1>u DEF get_num_threads, threadVars, scopeBar
<1>3. CASE ScanDone /\ sum # 0
  BY <1>3, <1>u DEF ScanDone, threadVars, scopeBar
<1>4. CASE ScanDone /\ sum = 0
  <2>1. gc = "scan" /\ gc' = "run" /\ UNCHANGED <<expected, threadVars, late>>
    BY <1>4 DEF ScanDone
  <2>2. ~late => Scopes!OldClass = {}
    <3> SUFFICES ASSUME ~late, NEW t \in Threads, scopeBar[t] = Scopes!other(expected)
                 PROVE  FALSE
      BY DEF Scopes!OldClass, scopeBar
    <3>1. scopeBar[t] = flip_status(expected) /\ scopeBar[t] # "Out"
      BY <1>s DEF flip_status
    <3>2. t \in InClass(flip_status(expected))
      BY <3>1 DEF InClass, scopeBar
    <3> QED
      BY <1>4, <3>2, ZeroMeansEmpty
  <2>3. Scopes!EndWait
    BY <2>1, <2>2 DEF Scopes!EndWait, threadVars
  <2> QED
    BY <2>3 DEF Scopes!Next
<1>5. ASSUME NEW t \in Threads, EnterSnapshot(t) \/ ExitStatus(t) \/ Migrate(t)
      PROVE  UNCHANGED Scopes!vars
  <2>1. scopeBar' = scopeBar
    BY <1>0, <1>5 DEF EnterSnapshot, ExitStatus, Migrate, scopeBar, TypeOK
  <2> QED
    BY <1>5, <1>u, <2>1 DEF EnterSnapshot, ExitStatus, Migrate
<1>6. ASSUME NEW t \in Threads, EnterCount(t)
      PROVE  Scopes!Enter(t)
  <2>1. scopeBar[t] = "Out" /\ status[t] \in InScope
    BY <1>0, <1>6 DEF EnterCount, scopeBar, HasStatus
  <2>2. scopeBar' = [scopeBar EXCEPT ![t] = status[t]]
    BY <1>0, <1>6 DEF EnterCount, scopeBar, TypeOK
  <2> QED
    BY <1>6, <1>s, <2>1, <2>2 DEF Scopes!Enter, EnterCount, scopeBar
<1>7. ASSUME NEW t \in Threads, ExitCount(t)
      PROVE  Scopes!Exit(t)
  <2>1. scopeBar[t] # "Out"
    BY <1>0, <1>7 DEF ExitCount, scopeBar, HasStatus, InScope
  <2>2. scopeBar' = [scopeBar EXCEPT ![t] = "Out"]
    BY <1>0, <1>7 DEF ExitCount, scopeBar, TypeOK
  <2> QED
    BY <1>7, <2>1, <2>2 DEF Scopes!Exit, ExitCount, scopeBar
<1>8. CASE UNCHANGED vars
  BY <1>8, <1>u DEF vars, threadVars, scopeBar
<1> QED
  BY <1>1, <1>2, <1>3, <1>4, <1>5, <1>6, <1>7, <1>8 DEF Next, Wait, Leave, Scopes!Next

\* The per-core counters implement ScopeSpec for any number of threads and cores:
\* a wait of wait_mutators_observation that ends has seen every scope of the old
\* status left, unless a thread was counted late, although get_num_threads reads
\* one counter after the other while threads enter, exit and change cores.
THEOREM ScopesImplemented == Spec => CountsScopes
<1>1. Init => Scopes!Init
  BY DEF Init, Scopes!Init, Scopes!Class
<1>2. ScanInv /\ [Next]_vars => [Scopes!Next]_(Scopes!vars)
  BY StepIsScopeStep
<1> QED
  BY <1>1, <1>2, ScanInvInit, ScanInvStep, PTL DEF Spec, CountsScopes, Scopes!Spec
=============================================================================
