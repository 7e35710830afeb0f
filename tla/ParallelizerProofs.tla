-------------------------- MODULE ParallelizerProofs ---------------------------
(* Proofs about Parallelizer, for any number of slaves and tasks and any depth. *)
EXTENDS Parallelizer, TLAPS

LEMMA ModTyped ==
  ASSUME NEW a \in Nat, NEW n \in Nat \ {0} PROVE a % n \in 0..(n - 1)
OBVIOUS

LEMMA PutTyped ==
  ASSUME NEW A, NEW B, NEW T, NEW f \in [A -> [B -> T]],
         NEW a \in A, NEW b \in B, NEW x \in T
  PROVE  [f EXCEPT ![a][b] = x] \in [A -> [B -> T]]
OBVIOUS

\* An index moves around the ring and stays in it.
LEMMA StepTyped ==
  ASSUME NEW i \in 0..Depth, NEW n \in Nat
  PROVE  Step(i) \in 0..Depth /\ (i + n) % Cap \in 0..Depth
<1>1. Cap \in Nat \ {0} /\ Cap - 1 = Depth
  BY SizesAssumption DEF Cap
<1>2. i + 1 \in Nat /\ i + n \in Nat
  BY SizesAssumption
<1> QED
  BY <1>1, <1>2, ModTyped DEF Step

LEMMA SizeTyped ==
  ASSUME NEW h \in 0..Depth, NEW t \in 0..Depth PROVE Size(h, t) \in 0..Depth
BY SizesAssumption DEF Size, Cap

\* A thief takes no more than it has room for.
LEMMA StealSizeTyped ==
  ASSUME TypeOK, NEW s \in Slaves, NEW v \in Slaves
  PROVE  steal_size(s, v) \in Nat /\ steal_size(s, v) <= Depth - size(s)
<1>1. size(s) \in 0..Depth /\ size(v) \in 0..Depth
  BY SizeTyped DEF TypeOK, size
<1>2. size(v) \div 2 \in Nat
  BY <1>1, SizesAssumption
<1>3. Depth - size(s) \in Nat
  BY <1>1, SizesAssumption
<1> QED
  BY <1>2, <1>3 DEF steal_size, Smaller

LEMMA TryNextTyped ==
  ASSUME TypeOK, NEW s \in Slaves, NEW i \in Nat, TryNext(s, i)
  PROVE  victim' \in [Slaves -> Slaves]
<1>1. Other(s, i) \in Nat
  BY DEF Other
<1>2. Other(s, i) % NumSlaves \in Slaves
  BY <1>1, SizesAssumption, ModTyped DEF Slaves
<1> QED
  BY <1>2 DEF TypeOK, TryNext

PCs == {"off", "look", "look_head", "lock", "peek", "steal", "moved", "done",
        "exit", "exit_head", "take"}

LEMMA GotoTyped ==
  ASSUME TypeOK, NEW s \in Slaves, NEW l \in PCs, Goto(s, l)
  PROVE  pc' \in [Slaves -> PCs]
BY DEF TypeOK, Goto, PCs

\* The buffers, as push_back, a theft and pop_front leave them.
LEMMA RingTyped ==
  ASSUME TypeOK, NEW s \in Slaves
  PROVE  /\ \A t \in Tasks : push_back(s, t) =>
              /\ items' \in [Slaves -> [0..Depth -> Tasks \cup {None}]]
              /\ tail' \in [Slaves -> 0..Depth]
         /\ StealMove(s) =>
              /\ items' \in [Slaves -> [0..Depth -> Tasks \cup {None}]]
              /\ head' \in [Slaves -> 0..Depth] /\ loot' \in [Slaves -> 0..Depth]
         /\ slave_dequeue_task(s) =>
              /\ items' \in [Slaves -> [0..Depth -> Tasks \cup {None}]]
              /\ head' \in [Slaves -> 0..Depth] /\ did' \in [Tasks -> Nat]
<1>1. ASSUME NEW t \in Tasks, push_back(s, t)
      PROVE  /\ items' \in [Slaves -> [0..Depth -> Tasks \cup {None}]]
             /\ tail' \in [Slaves -> 0..Depth]
  <2>1. Step(tail[s]) \in 0..Depth
    BY StepTyped DEF TypeOK
  <2>2. [items EXCEPT ![s][tail[s]] = t] \in [Slaves -> [0..Depth -> Tasks \cup {None}]]
    <3>1. items \in [Slaves -> [0..Depth -> Tasks \cup {None}]] /\ tail[s] \in 0..Depth
      BY DEF TypeOK
    <3> QED
      BY <1>1, <3>1, PutTyped
  <2>3. [tail EXCEPT ![s] = Step(@)] \in [Slaves -> 0..Depth]
    BY <2>1 DEF TypeOK
  <2> QED
    BY <1>1, <2>2, <2>3 DEF TypeOK, push_back
<1>2. ASSUME StealMove(s)
      PROVE  /\ items' \in [Slaves -> [0..Depth -> Tasks \cup {None}]]
             /\ head' \in [Slaves -> 0..Depth] /\ loot' \in [Slaves -> 0..Depth]
  <2> DEFINE v == victim[s]
             n == steal_size(s, v)
  <2>1. v \in Slaves
    BY DEF TypeOK
  <2>2. n \in Nat
    BY <2>1, StealSizeTyped
  <2>3. /\ (head[v] + n) % Cap \in 0..Depth
        /\ (tail[s] + n) % Cap \in 0..Depth
    BY <2>1, <2>2, StepTyped DEF TypeOK
  <2>4. /\ head' \in [Slaves -> 0..Depth]
        /\ loot' \in [Slaves -> 0..Depth]
    BY <1>2, <2>1, <2>3 DEF TypeOK, StealMove
  <2>5. \A i \in 0..Depth : Size(tail[s], i) < n =>
          (head[v] + Size(tail[s], i)) % Cap \in 0..Depth
    <3> TAKE i \in 0..Depth
    <3>0. tail[s] \in 0..Depth
      BY DEF TypeOK
    <3>1. Size(tail[s], i) \in Nat
      <4>1. Size(tail[s], i) \in 0..Depth
        BY <3>0, SizeTyped
      <4> QED
        BY <4>1, SizesAssumption
    <3> QED
      BY <2>1, <3>1, StepTyped DEF TypeOK
  <2>6. items' \in [Slaves -> [0..Depth -> Tasks \cup {None}]]
    <3> DEFINE T == Tasks \cup {None}
               new == [i \in 0..Depth |-> LET k == Size(tail[s], i)
                 IN IF k < n THEN items[v][(head[v] + k) % Cap] ELSE items[s][i]]
               old(f) == [i \in 0..Depth |-> IF Size(head[v], i) < n THEN None ELSE f[i]]
    <3>1. items \in [Slaves -> [0..Depth -> T]]
      BY DEF TypeOK
    <3>2. items' = [items EXCEPT ![s] = new, ![v] = old(@)]
      BY <1>2, <3>1 DEF StealMove
    <3>3. new \in [0..Depth -> T]
      <4>1. items[v] \in [0..Depth -> T] /\ items[s] \in [0..Depth -> T]
        BY <2>1, <3>1
      <4>2. ASSUME NEW i \in 0..Depth PROVE new[i] \in T
        <5> HIDE DEF n, v, T
        <5>1. CASE Size(tail[s], i) < n
          BY <2>5, <4>1, <5>1
        <5>2. CASE ~(Size(tail[s], i) < n)
          BY <4>1, <5>2
        <5> QED
          BY <5>1, <5>2
      <4> QED
        BY <4>2
    <3>4. \A g \in [0..Depth -> T] : old(g) \in [0..Depth -> T]
      OBVIOUS
    <3> HIDE DEF new, old, T, n, v
    <3> QED
      BY <2>1, <3>1, <3>2, <3>3, <3>4 DEF T
  <2> QED
    BY <2>4, <2>6
<1>3. ASSUME slave_dequeue_task(s)
      PROVE  /\ items' \in [Slaves -> [0..Depth -> Tasks \cup {None}]]
             /\ head' \in [Slaves -> 0..Depth] /\ did' \in [Tasks -> Nat]
  <2>1. Step(head[s]) \in 0..Depth
    BY StepTyped DEF TypeOK
  <2>2. items' \in [Slaves -> [0..Depth -> Tasks \cup {None}]]
    <3>1. items \in [Slaves -> [0..Depth -> Tasks \cup {None}]] /\ head[s] \in 0..Depth
      BY DEF TypeOK
    <3>2. [items EXCEPT ![s][head[s]] = None] \in [Slaves -> [0..Depth -> Tasks \cup {None}]]
      BY <3>1, PutTyped
    <3> QED
      BY <1>3, <3>1, <3>2 DEF slave_dequeue_task
  <2>3. head' \in [Slaves -> 0..Depth]
    BY <1>3, <2>1 DEF TypeOK, slave_dequeue_task
  <2>4. did' \in [Tasks -> Nat]
    <3> DEFINE x == items[s][head[s]]
    <3>1. did' = did \/ did' = [did EXCEPT ![x] = @ + 1]
      BY <1>3 DEF slave_dequeue_task
    <3>2. did \in [Tasks -> Nat]
      BY DEF TypeOK
    <3> HIDE DEF x
    <3> QED
      BY <3>1, <3>2
  <2> QED
    BY <2>2, <2>3, <2>4
<1> QED
  BY <1>1, <1>2, <1>3

LEMMA MasterTyped ==
  ASSUME TypeOK, spawn \/ execute PROVE TypeOK'
<1>1. CASE spawn
  <2>1. left' \in 0..NumTasks /\ did' \in [Tasks -> Nat] /\ ran' \in BOOLEAN
    BY <1>1, SizesAssumption DEF spawn
  <2> QED
    BY <1>1, <2>1 DEF TypeOK, spawn, ringVars
<1>2. CASE master_enqueue_task
  <2>1. turn \in Slaves /\ left \in Tasks
    BY <1>2, SizesAssumption DEF master_enqueue_task, TypeOK, Tasks
  <2>2. turn' \in Slaves
    <3>1. turn + 1 \in Nat
      BY <2>1, SizesAssumption DEF Slaves
    <3> QED
      BY <1>2, <3>1, ModTyped, SizesAssumption DEF master_enqueue_task, Slaves
  <2>3. left' \in 0..NumTasks
    BY <1>2, <2>1, SizesAssumption DEF master_enqueue_task, Tasks
  <2>4. /\ items' \in [Slaves -> [0..Depth -> Tasks \cup {None}]]
        /\ tail' \in [Slaves -> 0..Depth]
    BY <1>2, <2>1, RingTyped DEF master_enqueue_task
  <2> QED
    BY <1>2, <2>2, <2>3, <2>4 DEF TypeOK, master_enqueue_task
<1>3. CASE MasterDone
  <2>1. master_done' \in BOOLEAN
    BY <1>3 DEF MasterDone
  <2> QED
    BY <1>3, <2>1 DEF TypeOK, MasterDone, ringVars
<1>4. CASE Join
  <2>1. master_done' \in BOOLEAN
    BY <1>4 DEF Join
  <2> QED
    BY <1>4, <2>1 DEF TypeOK, Join, ringVars
<1> QED
  BY <1>1, <1>2, <1>3, <1>4 DEF execute

LEMMA SlaveTyped ==
  ASSUME TypeOK, NEW s \in Slaves, Slave(s) PROVE TypeOK'
<1> USE DEF ringVars, masterVars
<1>0. 0 \in 0..Depth /\ 0 \in Slaves /\ 0 \in Nat /\ victim[s] + 1 \in Nat
  <2>1. victim[s] \in Slaves
    BY DEF TypeOK
  <2> QED
    BY <2>1, SizesAssumption DEF Slaves
<1>1. CASE LookTail(s)
  BY <1>1 DEF TypeOK, LookTail, Goto
<1>2. CASE LookHead(s)
  <2>1. victim' \in [Slaves -> Slaves]
    BY <1>0, <1>2, TryNextTyped DEF LookHead, TypeOK
  <2>2. pc' \in [Slaves -> PCs]
    BY <1>2, GotoTyped DEF LookHead, TryNext, PCs
  <2> QED
    BY <1>0, <1>2, <2>1, <2>2 DEF TypeOK, LookHead, PCs
<1>3. CASE StealLock(s)
  BY <1>3 DEF TypeOK, StealLock, Goto
<1>4. CASE StealPeek(s)
  BY <1>4 DEF TypeOK, StealPeek, Goto
<1>5. CASE StealFails(s)
  <2>1. victim' \in [Slaves -> Slaves]
    BY <1>0, <1>5, TryNextTyped DEF StealFails
  <2>2. pc' \in [Slaves -> PCs]
    BY <1>5, GotoTyped DEF StealFails, TryNext, PCs
  <2> QED
    BY <1>0, <1>5, <2>1, <2>2 DEF TypeOK, StealFails, PCs
<1>6. CASE StealMove(s)
  <2>1. /\ items' \in [Slaves -> [0..Depth -> Tasks \cup {None}]]
        /\ head' \in [Slaves -> 0..Depth] /\ loot' \in [Slaves -> 0..Depth]
    BY <1>6, RingTyped
  <2>2. /\ spin' \in [Slaves -> Slaves \cup {None}] /\ snap' \in [Slaves -> 0..Depth]
        /\ pc' \in [Slaves -> PCs]
    BY <1>0, <1>6, GotoTyped DEF TypeOK, StealMove, PCs
  <2>3. UNCHANGED <<tail, masterVars, victim, did>>
    BY <1>6 DEF StealMove
  <2> QED
    BY <2>1, <2>2, <2>3 DEF TypeOK, PCs
<1>7. CASE StealPublish(s)
  BY <1>0, <1>7 DEF TypeOK, StealPublish, Goto
<1>8. CASE ReadDone(s)
  BY <1>8 DEF TypeOK, ReadDone, Goto
<1>9. CASE ExitTail(s)
  BY <1>9 DEF TypeOK, ExitTail, Goto
<1>10. CASE ExitHead(s)
  BY <1>0, <1>10 DEF TypeOK, ExitHead, Goto
<1>11. CASE slave_dequeue_task(s)
  <2>1. /\ items' \in [Slaves -> [0..Depth -> Tasks \cup {None}]]
        /\ head' \in [Slaves -> 0..Depth] /\ did' \in [Tasks -> Nat]
    BY <1>11, RingTyped
  <2>2. pc' \in [Slaves -> PCs]
    BY <1>11, GotoTyped DEF slave_dequeue_task, PCs
  <2> QED
    BY <1>11, <2>1, <2>2 DEF TypeOK, slave_dequeue_task, PCs
<1> QED
  BY <1>1, <1>2, <1>3, <1>4, <1>5, <1>6, <1>7, <1>8, <1>9, <1>10, <1>11 DEF Slave

LEMMA TypeInit == Init => TypeOK
<1>1. Init => /\ head \in [Slaves -> 0..Depth] /\ tail \in [Slaves -> 0..Depth]
              /\ snap \in [Slaves -> 0..Depth] /\ loot \in [Slaves -> 0..Depth]
              /\ victim \in [Slaves -> Slaves] /\ turn \in Slaves
              /\ left \in 0..NumTasks
  BY SizesAssumption DEF Init, Slaves
<1>2. Init => did \in [Tasks -> Nat] /\ items \in [Slaves -> [0..Depth -> Tasks \cup {None}]]
  BY DEF Init
<1>3. Init => master_done = FALSE /\ ran = FALSE
  BY DEF Init
<1> QED
  BY <1>1, <1>2, <1>3 DEF Init, TypeOK

LEMMA TypeStep == TypeOK /\ [Next]_vars => TypeOK'
<1> SUFFICES ASSUME TypeOK, [Next]_vars PROVE TypeOK'
  OBVIOUS
<1>1. CASE UNCHANGED vars
  BY <1>1 DEF TypeOK, vars, ringVars, masterVars
<1> QED
  BY <1>1, MasterTyped, SlaveTyped DEF Next

\* Every state is well typed: heads, tails and what a thief publishes stay in the
\* ring however often it wraps around, and a thief always has a victim.
THEOREM TypeCorrect == Spec => []TypeOK
BY TypeInit, TypeStep, PTL DEF Spec

-----------------------------------------------------------------------------
(* Around the ring.                                                        *)

LEMMA ModOnce ==
  ASSUME NEW c \in Nat \ {0}, NEW a \in Nat, a < c + c
  PROVE  a % c = IF a < c THEN a ELSE a - c
OBVIOUS

\* n slots on from slot i, without the modulo.
Around(i, n) == IF i + n <= Depth THEN i + n ELSE i + n - Depth - 1

LEMMA AroundIsMod ==
  ASSUME NEW i \in 0..Depth, NEW n \in 0..Depth
  PROVE  (i + n) % Cap = Around(i, n) /\ Around(i, n) \in 0..Depth
<1>1. Cap \in Nat \ {0} /\ i + n \in Nat /\ i + n < Cap + Cap
  BY SizesAssumption DEF Cap
<1> DEFINE x == i + n
<1>2. x % Cap = IF x < Cap THEN x ELSE x - Cap
  <2> HIDE DEF x
  <2> QED
    BY <1>1, ModOnce DEF x
<1> QED
  BY <1>2, SizesAssumption DEF Cap, Around

LEMMA StepIsAround == ASSUME NEW i \in 0..Depth PROVE Step(i) = Around(i, 1)
<1>1. 1 \in 0..Depth
  BY SizesAssumption
<1> QED
  BY <1>1, AroundIsMod DEF Step

\* The slot n after h has rank n, and only that one.
LEMMA RankAround ==
  ASSUME NEW h \in 0..Depth, NEW n \in 0..Depth
  PROVE  /\ Size(h, Around(h, n)) = n
         /\ \A i \in 0..Depth : Size(h, i) = n => i = Around(h, n)
BY SizesAssumption DEF Size, Cap, Around

\* Moving the head on by n takes n off the ranks and the first n slots to the end.
LEMMA RankMoves ==
  ASSUME NEW h \in 0..Depth, NEW n \in 0..Depth, NEW i \in 0..Depth
  PROVE  Size(Around(h, n), i) = IF Size(h, i) >= n THEN Size(h, i) - n
                                 ELSE Size(h, i) + Depth + 1 - n
BY SizesAssumption DEF Size, Cap, Around

\* Ranks behind the tail go on where the ranks before it end.
LEMMA RankBehind ==
  ASSUME NEW h \in 0..Depth, NEW t \in 0..Depth, NEW i \in 0..Depth
  PROVE  /\ Size(h, t) + Size(t, i) <= Depth => Size(h, i) = Size(h, t) + Size(t, i)
         /\ Size(h, t) <= Size(h, i) => Size(h, i) = Size(h, t) + Size(t, i)
BY SizesAssumption DEF Size, Cap

-----------------------------------------------------------------------------
(* The inductive invariant.                                                *)

\* Where the tasks in buffer s end: a thief's are in before its tail has moved.
End(s) == IF pc[s] = "moved" THEN loot[s] ELSE tail[s]

Stored(t) == \E s \in Slaves, i \in 0..Depth : items[s][i] = t

\* A thief holds its own lock, and from the move on its victim's.
Locks ==
  \A s \in Slaves :
    /\ pc[s] \in {"peek", "steal", "moved"} => spin[s] = s
    /\ pc[s] = "moved" => spin[victim[s]] = s
    /\ pc[s] \in {"lock", "peek", "steal", "moved"} => victim[s] # s

\* A slave that is about to exit has seen the master done, so nobody adds to its
\* buffer any more; one that is off has left nothing in it.
Phases ==
  /\ master_done <=> mpc = "join"
  /\ mpc # "idle" => ran
  /\ mpc # "deal" => left = 0
  /\ \A s \in Slaves :
       /\ pc[s] \in {"exit", "exit_head"} => mpc = "join"
       /\ pc[s] = "off" => mpc # "deal" /\ head[s] = tail[s]
       /\ mpc = "idle" => pc[s] = "off"
       /\ pc[s] = "exit_head" => snap[s] = tail[s]

\* The slots between the head and the end hold tasks, and no others do.
Rings ==
  \A s \in Slaves, i \in 0..Depth :
    items[s][i] # None <=> Size(head[s], i) < Size(head[s], End(s))

\* No task is in two slots.
Unique ==
  \A s, r \in Slaves, i, j \in 0..Depth :
    items[s][i] = items[r][j] /\ items[s][i] # None => s = r /\ i = j

\* A task is to be dealt out, or in a buffer, or carried out.
Dealt ==
  \A t \in Tasks :
    /\ did[t] <= 1
    /\ Stored(t) => did[t] = 0 /\ t > left
    /\ t <= left => did[t] = 0
    /\ ran /\ t > left /\ did[t] = 0 => Stored(t)

OnceInv == TypeOK /\ Locks /\ Phases /\ Rings /\ Unique /\ Dealt

\* What a slave does not touch.
LEMMA SlaveFrame ==
  ASSUME TypeOK, NEW s \in Slaves, Slave(s)
  PROVE  /\ UNCHANGED masterVars /\ pc[s] # "off"
         /\ \A u \in Slaves : u # s =>
              /\ pc'[u] = pc[u] /\ victim'[u] = victim[u] /\ snap'[u] = snap[u]
              /\ loot'[u] = loot[u] /\ tail'[u] = tail[u]
<1> USE DEF TypeOK, ringVars, masterVars, Goto, TryNext
<1>0. CASE LookTail(s)
  BY <1>0 DEF LookTail
<1>1. CASE LookHead(s)
  <2>1. \E l : pc' = [pc EXCEPT ![s] = l]
    BY <1>1 DEF LookHead
  <2>2. \E v : victim' = [victim EXCEPT ![s] = v] \/ victim' = victim
    BY <1>1 DEF LookHead
  <2>3. \A u \in Slaves : u # s => pc'[u] = pc[u] /\ victim'[u] = victim[u]
    BY <2>1, <2>2
  <2> QED
    BY <1>1, <2>3 DEF LookHead
<1>2. CASE StealLock(s) \/ StealPeek(s)
  BY <1>2 DEF StealLock, StealPeek
<1>3. CASE StealFails(s)
  BY <1>3 DEF StealFails
<1>4. CASE StealMove(s)
  <2>1. /\ UNCHANGED <<tail, masterVars, victim>> /\ pc[s] = "steal"
        /\ pc' = [pc EXCEPT ![s] = "moved"]
    BY <1>4 DEF StealMove
  <2>2. \A u \in Slaves : u # s => loot'[u] = loot[u] /\ snap'[u] = snap[u]
    BY <1>4 DEF StealMove
  <2> QED
    BY <2>1, <2>2
<1>5. CASE StealPublish(s)
  BY <1>5 DEF StealPublish
<1>6. CASE ReadDone(s) \/ ExitTail(s) \/ ExitHead(s)
  BY <1>6 DEF ReadDone, ExitTail, ExitHead
<1>7. CASE slave_dequeue_task(s)
  BY <1>7 DEF slave_dequeue_task
<1> QED
  BY <1>0, <1>1, <1>2, <1>3, <1>4, <1>5, <1>6, <1>7 DEF Slave

\* A thief never turns on itself.
LEMMA TryNextOther ==
  ASSUME TypeOK, NEW s \in Slaves, NEW i \in Nat, TryNext(s, i)
  PROVE  pc'[s] \in {"lock", "done"} /\ (pc'[s] = "lock" => victim'[s] # s)
<1>1. Other(s, i) \in Nat /\ Other(s, i) # s
  BY DEF Other, Slaves
<1>2. pc'[s] = IF Other(s, i) < NumSlaves THEN "lock" ELSE "done"
  BY DEF TypeOK, TryNext, Goto
<1>3. victim'[s] = Other(s, i) % NumSlaves
  BY DEF TypeOK, TryNext
<1>4. Other(s, i) < NumSlaves => Other(s, i) % NumSlaves = Other(s, i)
  <2> DEFINE x == Other(s, i)
  <2> HIDE DEF x
  <2>1. x \in Nat /\ NumSlaves \in Nat \ {0} /\ (x < NumSlaves => x < NumSlaves + NumSlaves)
    BY <1>1, SizesAssumption DEF x
  <2>2. x < NumSlaves => x % NumSlaves = x
    BY <2>1, ModOnce
  <2> QED
    BY <2>2 DEF x
<1> QED
  BY <1>1, <1>2, <1>3, <1>4

LEMMA SlaveLocks ==
  ASSUME OnceInv, NEW s \in Slaves, Slave(s) PROVE Locks'
<1>0. TypeOK /\ Locks
  BY DEF OnceInv
<1>n. \A u \in Slaves : u # None
  BY NoneAssumption, SizesAssumption DEF Slaves
<1>f. \A u \in Slaves : u # s => pc'[u] = pc[u] /\ victim'[u] = victim[u]
  BY <1>0, SlaveFrame
\* It is enough to look at s, if the locks of the other thieves are left alone.
<1>u. ASSUME \A x \in Slaves : spin[x] \in Slaves \ {s} => spin'[x] = spin[x],
             pc'[s] \in {"peek", "steal", "moved"} => spin'[s] = s,
             pc'[s] = "moved" => spin'[victim'[s]] = s,
             pc'[s] \in {"lock", "peek", "steal", "moved"} => victim'[s] # s
      PROVE  Locks'
  <2>1. ASSUME NEW u \in Slaves, u # s
        PROVE  /\ pc'[u] \in {"peek", "steal", "moved"} => spin'[u] = u
               /\ pc'[u] = "moved" => spin'[victim'[u]] = u
               /\ pc'[u] \in {"lock", "peek", "steal", "moved"} => victim'[u] # u
    <3>1. victim[u] \in Slaves
      BY <1>0 DEF TypeOK
    <3> QED
      BY <1>0, <1>f, <1>u, <2>1, <3>1 DEF Locks
  <2> QED
    BY <1>u, <2>1 DEF Locks
<1>1. CASE LookTail(s) \/ ReadDone(s) \/ ExitTail(s) \/ ExitHead(s) \/ slave_dequeue_task(s)
  <2>1. UNCHANGED spin /\ pc'[s] \notin {"lock", "peek", "steal", "moved"}
    BY <1>0, <1>1 DEF LookTail, ReadDone, ExitTail, ExitHead, slave_dequeue_task, Goto, TypeOK
  <2> QED
    BY <1>u, <2>1
<1>2. CASE LookHead(s)
  <2>1. pc'[s] \in {"lock", "done"} /\ (pc'[s] = "lock" => victim'[s] # s) /\ UNCHANGED spin
    BY <1>0, <1>2, TryNextOther DEF LookHead, Goto, TypeOK
  <2> QED
    BY <1>u, <2>1
<1>3. CASE StealLock(s)
  <2>1. pc'[s] = "peek" /\ spin'[s] = s /\ victim'[s] # s
    BY <1>0, <1>3 DEF StealLock, Goto, TypeOK, Locks
  <2>2. \A x \in Slaves : spin[x] \in Slaves \ {s} => spin'[x] = spin[x]
    BY <1>0, <1>3, <1>n DEF StealLock, TypeOK
  <2> QED
    BY <1>u, <2>1, <2>2
<1>4. CASE StealPeek(s)
  <2>1. pc'[s] = "steal" /\ spin'[s] = s /\ victim'[s] # s /\ UNCHANGED spin
    BY <1>0, <1>4 DEF StealPeek, Goto, TypeOK, Locks
  <2> QED
    BY <1>u, <2>1
<1>5. CASE StealFails(s)
  <2>0. victim[s] + 1 \in Nat
    <3>1. victim[s] \in Slaves
      BY <1>0 DEF TypeOK
    <3> QED
      BY <3>1, SizesAssumption DEF Slaves
  <2>1. pc'[s] \in {"lock", "done"} /\ (pc'[s] = "lock" => victim'[s] # s)
    BY <1>0, <1>5, <2>0, TryNextOther DEF StealFails
  <2>2. \A x \in Slaves : spin[x] \in Slaves \ {s} => spin'[x] = spin[x]
    BY <1>0, <1>5 DEF StealFails, TypeOK, Locks
  <2> QED
    BY <1>u, <2>1, <2>2
<1>6. CASE StealMove(s)
  <2>1. /\ pc'[s] = "moved" /\ spin' = [spin EXCEPT ![victim[s]] = s] /\ UNCHANGED victim
        /\ spin[victim[s]] = None /\ victim[s] # s /\ spin[s] = s /\ victim[s] \in Slaves
    BY <1>0, <1>6 DEF StealMove, CanSteal, Goto, TypeOK, Locks
  <2>2. \A x \in Slaves : spin[x] \in Slaves \ {s} => spin'[x] = spin[x]
    BY <1>0, <1>n, <2>1 DEF TypeOK
  <2>3. spin'[s] = s /\ spin'[victim'[s]] = s
    BY <1>0, <2>1 DEF TypeOK
  <2> QED
    BY <1>u, <2>1, <2>2, <2>3
<1>7. CASE StealPublish(s)
  <2>1. pc'[s] = "done"
    BY <1>0, <1>7 DEF StealPublish, Goto, TypeOK
  <2>2. spin[s] = s /\ spin[victim[s]] = s
    BY <1>0, <1>7 DEF StealPublish, Locks
  <2>3. \A x \in Slaves : spin[x] \in Slaves \ {s} => spin'[x] = spin[x]
    BY <1>0, <1>7, <2>2 DEF StealPublish, TypeOK
  <2> QED
    BY <1>u, <2>1, <2>3
<1> QED
  BY <1>1, <1>2, <1>3, <1>4, <1>5, <1>6, <1>7 DEF Slave

LEMMA EmptyMeans ==
  ASSUME NEW h \in 0..Depth, NEW t \in 0..Depth PROVE Size(h, t) = 0 <=> h = t
BY SizesAssumption DEF Size, Cap

LEMMA SlavePhases ==
  ASSUME OnceInv, NEW s \in Slaves, Slave(s) PROVE Phases'
<1>0. TypeOK /\ Phases
  BY DEF OnceInv
<1>f. /\ UNCHANGED masterVars /\ pc[s] # "off"
      /\ \A u \in Slaves : u # s => pc'[u] = pc[u] /\ snap'[u] = snap[u] /\ tail'[u] = tail[u]
  BY <1>0, SlaveFrame
<1>m. UNCHANGED <<mpc, left, master_done, ran>> /\ mpc # "idle"
  BY <1>0, <1>f DEF masterVars, Phases
<1>h. \A u \in Slaves : u # s /\ head[u] = tail[u] => head'[u] = head[u]
  <2>1. CASE StealMove(s)
    <3> SUFFICES ASSUME NEW u \in Slaves, u # s, head[u] = tail[u], u = victim[s]
                 PROVE  FALSE
      BY <1>0, <2>1 DEF StealMove, TypeOK
    <3>1. size(u) = 0
      BY <1>0, EmptyMeans DEF size, TypeOK
    <3>2. size(u) \div 2 # 0
      BY <2>1 DEF StealMove, CanSteal
    <3> QED
      BY <3>1, <3>2
  <2>2. CASE slave_dequeue_task(s)
    BY <1>0, <2>2 DEF slave_dequeue_task, TypeOK
  <2>3. CASE ~StealMove(s) /\ ~slave_dequeue_task(s)
    BY <2>3 DEF Slave, LookTail, LookHead, StealLock, StealPeek, StealFails, StealPublish,
                ReadDone, ExitTail, ExitHead, ringVars
  <2> QED
    BY <2>1, <2>2, <2>3
<1>1. /\ pc'[s] \in {"exit", "exit_head"} => mpc = "join"
      /\ pc'[s] = "off" => mpc = "join" /\ head'[s] = tail'[s]
      /\ pc'[s] = "exit_head" => snap'[s] = tail'[s]
  <2>1. CASE ReadDone(s)
    BY <1>0, <2>1 DEF ReadDone, Goto, TypeOK, Phases
  <2>2. CASE ExitTail(s)
    BY <1>0, <2>2 DEF ExitTail, Goto, TypeOK, Phases, ringVars
  <2>3. CASE ExitHead(s)
    <3>1. Size(head[s], snap[s]) = 0 => head[s] = tail[s]
      BY <1>0, <2>3, EmptyMeans DEF ExitHead, Phases, TypeOK
    <3> QED
      BY <1>0, <2>3, <3>1 DEF ExitHead, Goto, TypeOK, Phases, ringVars
  <2>4. CASE ~ReadDone(s) /\ ~ExitTail(s) /\ ~ExitHead(s)
    <3>1. pc'[s] \notin {"exit", "exit_head", "off"}
      BY <1>0, <2>4 DEF Slave, LookTail, LookHead, StealLock, StealPeek, StealFails,
        StealMove, StealPublish, slave_dequeue_task, TryNext, Goto, TypeOK
    <3> QED
      BY <3>1
  <2> QED
    BY <2>1, <2>2, <2>3, <2>4
<1>2. ASSUME NEW u \in Slaves
      PROVE  /\ pc'[u] \in {"exit", "exit_head"} => mpc' = "join"
             /\ pc'[u] = "off" => mpc' # "deal" /\ head'[u] = tail'[u]
             /\ mpc' = "idle" => pc'[u] = "off"
             /\ pc'[u] = "exit_head" => snap'[u] = tail'[u]
  <2>1. CASE u = s
    BY <1>1, <1>m, <2>1
  <2>2. CASE u # s
    BY <1>0, <1>f, <1>m, <1>h, <2>2 DEF Phases
  <2> QED
    BY <2>1, <2>2
<1> QED
  BY <1>0, <1>2, <1>m DEF Phases

\* Steps that leave the buffers alone.
LEMMA RingsQuiet ==
  ASSUME OnceInv, UNCHANGED <<items, head>>, \A u \in Slaves : End(u)' = End(u)
  PROVE  Rings' /\ Unique'
BY DEF OnceInv, Rings, Unique

LEMMA DealtQuiet ==
  ASSUME OnceInv, UNCHANGED <<items, did, left, ran>> PROVE Dealt'
BY DEF OnceInv, Dealt, Stored

LEMMA PutGet ==
  ASSUME NEW A, NEW B, NEW T, NEW f \in [A -> [B -> T]], NEW a \in A, NEW b \in B, NEW x,
         NEW g, g = [f EXCEPT ![a][b] = x]
  PROVE  \A u \in A, i \in B : g[u][i] = IF u = a /\ i = b THEN x ELSE f[u][i]
OBVIOUS

LEMMA Indexes ==
  ASSUME TypeOK, NEW s \in Slaves
  PROVE  /\ head[s] \in 0..Depth /\ tail[s] \in 0..Depth /\ loot[s] \in 0..Depth
         /\ \A i \in 0..Depth : Size(head[s], i) \in 0..Depth /\ Size(tail[s], i) \in 0..Depth
         /\ size(s) \in 0..Depth
<1>1. head[s] \in 0..Depth /\ tail[s] \in 0..Depth /\ loot[s] \in 0..Depth
  BY DEF TypeOK
<1> QED
  BY <1>1, SizeTyped DEF size

\* push_back puts the task into the slot behind the others.
LEMMA PushRings ==
  ASSUME OnceInv, NEW s \in Slaves, NEW t \in Tasks, spin[s] = None, ~Full(s),
         push_back(s, t), ~Stored(t), UNCHANGED <<head, pc, loot>>
  PROVE  /\ Rings' /\ Unique'
         /\ \A x \in Tasks : Stored(x)' <=> Stored(x) \/ x = t
<1>0. TypeOK /\ Locks /\ Rings /\ Unique
  BY DEF OnceInv
<1>1. head[s] \in 0..Depth /\ tail[s] \in 0..Depth
  BY <1>0, Indexes
<1>2. t # None /\ s # None
  BY NoneAssumption, SizesAssumption DEF Tasks, Slaves
<1>3. \A u \in Slaves, i \in 0..Depth :
        items'[u][i] = IF u = s /\ i = tail[s] THEN t ELSE items[u][i]
  <2>1. items' = [items EXCEPT ![s][tail[s]] = t]
    BY DEF push_back
  <2>2. items \in [Slaves -> [0..Depth -> Tasks \cup {None}]]
    BY <1>0 DEF TypeOK
  <2> QED
    BY <1>1, <2>1, <2>2, PutGet
<1>4. pc[s] # "moved"
  BY <1>0, <1>2 DEF Locks
<1>5. \A u \in Slaves : tail'[u] = IF u = s THEN Around(tail[s], 1) ELSE tail[u]
  BY <1>0, <1>1, StepIsAround DEF push_back, TypeOK
<1>6. items[s][tail[s]] = None
  <2>1. Size(head[s], tail[s]) \in 0..Depth
    BY <1>1, SizeTyped
  <2>2. ~(Size(head[s], tail[s]) < Size(head[s], tail[s]))
    BY <2>1
  <2> QED
    BY <1>0, <1>1, <1>4, <2>2 DEF Rings, End
<1>7. Around(tail[s], 1) # head[s]
  BY <1>1, StepIsAround DEF Full
<1>8. Rings'
  <2> SUFFICES ASSUME NEW u \in Slaves, NEW i \in 0..Depth
               PROVE  items'[u][i] # None <=> Size(head[u], i) < Size(head[u], End(u)')
    BY DEF Rings
  <2>1. CASE u # s
    BY <1>0, <1>3, <1>5, <2>1 DEF Rings, End
  <2>2. CASE u = s
    <3>1. End(u) = tail[s] /\ End(u)' = Around(tail[s], 1)
      BY <1>4, <1>5, <2>2 DEF End
    <3>2. Size(head[s], Around(tail[s], 1)) = Size(head[s], tail[s]) + 1
      BY <1>1, <1>7, SizesAssumption DEF Size, Cap, Around
    <3>3. Size(head[s], i) = Size(head[s], tail[s]) <=> i = tail[s]
      BY <1>1, SizesAssumption DEF Size, Cap
    <3>4. Size(head[s], i) \in 0..Depth /\ Size(head[s], tail[s]) \in 0..Depth
      BY <1>1, SizeTyped
    <3>5. items[s][i] # None <=> Size(head[s], i) < Size(head[s], tail[s])
      BY <1>0, <2>2, <3>1 DEF Rings
    <3> QED
      BY <1>2, <1>3, <2>2, <3>1, <3>2, <3>3, <3>4, <3>5
  <2> QED
    BY <2>1, <2>2
<1>9. Unique'
  <2>1. \A u \in Slaves, i \in 0..Depth : items[u][i] # t
    BY DEF Stored
  <2> QED
    BY <1>0, <1>3, <2>1 DEF Unique
<1>10. ASSUME NEW x \in Tasks PROVE Stored(x)' <=> Stored(x) \/ x = t
  <2>1. items'[s][tail[s]] = t
    BY <1>1, <1>3
  <2>2. x # None
    BY NoneAssumption, SizesAssumption DEF Tasks
  <2>3. ASSUME Stored(x) PROVE Stored(x)'
    <3>1. PICK u \in Slaves, i \in 0..Depth : items[u][i] = x
      BY <2>3 DEF Stored
    <3>2. items'[u][i] = x
      BY <1>3, <1>6, <2>2, <3>1
    <3> QED
      BY <3>2 DEF Stored
  <2>4. x = t => Stored(x)'
    BY <1>1, <2>1 DEF Stored
  <2>5. Stored(x)' => Stored(x) \/ x = t
    BY <1>3 DEF Stored
  <2> QED
    BY <2>3, <2>4, <2>5
<1> QED
  BY <1>8, <1>9, <1>10

\* pop_front takes the first task out and moves nothing else.
LEMMA PopRings ==
  ASSUME OnceInv, NEW s \in Slaves, slave_dequeue_task(s), head[s] # tail[s]
  PROVE  /\ Rings' /\ Unique'
         /\ items[s][head[s]] \in Tasks
         /\ \A x \in Tasks : Stored(x)' <=> Stored(x) /\ x # items[s][head[s]]
<1>0. TypeOK /\ Locks /\ Rings /\ Unique
  BY DEF OnceInv
<1>1. head[s] \in 0..Depth /\ tail[s] \in 0..Depth
  BY <1>0, Indexes
<1>2. pc[s] = "take" /\ pc' = [pc EXCEPT ![s] = "look"] /\ UNCHANGED <<tail, loot>>
  BY DEF slave_dequeue_task, Goto
<1>3. \A u \in Slaves, i \in 0..Depth :
        items'[u][i] = IF u = s /\ i = head[s] THEN None ELSE items[u][i]
  <2>1. items' = [items EXCEPT ![s][head[s]] = None]
    BY DEF slave_dequeue_task
  <2>2. items \in [Slaves -> [0..Depth -> Tasks \cup {None}]]
    BY <1>0 DEF TypeOK
  <2> QED
    BY <1>1, <2>1, <2>2, PutGet
<1>4. \A u \in Slaves : head'[u] = IF u = s THEN Around(head[s], 1) ELSE head[u]
  BY <1>0, <1>1, StepIsAround DEF slave_dequeue_task, TypeOK
<1>5. \A u \in Slaves : End(u)' = End(u) /\ (u = s => End(u) = tail[s])
  BY <1>0, <1>2 DEF End, TypeOK
<1>6. items[s][head[s]] \in Tasks
  <2>1. Size(head[s], head[s]) < Size(head[s], tail[s])
    BY <1>1, SizesAssumption DEF Size, Cap
  <2>2. items[s][head[s]] # None
    BY <1>0, <1>1, <1>5, <2>1 DEF Rings
  <2>3. items[s] \in [0..Depth -> Tasks \cup {None}]
    BY <1>0 DEF TypeOK
  <2> QED
    BY <1>1, <2>2, <2>3
<1>7. Rings'
  <2> SUFFICES ASSUME NEW u \in Slaves, NEW i \in 0..Depth
               PROVE  items'[u][i] # None <=> Size(head'[u], i) < Size(head'[u], End(u))
    BY <1>5 DEF Rings
  <2>1. CASE u # s
    BY <1>0, <1>3, <1>4, <2>1 DEF Rings
  <2>2. CASE u = s
    <3>1. items[s][i] # None <=> Size(head[s], i) < Size(head[s], tail[s])
      BY <1>0, <1>5, <2>2 DEF Rings
    <3>2. i # head[s] =>
            (Size(Around(head[s], 1), i) < Size(Around(head[s], 1), tail[s])
               <=> Size(head[s], i) < Size(head[s], tail[s]))
      BY <1>1, SizesAssumption DEF Size, Cap, Around
    <3>3. ~(Size(Around(head[s], 1), head[s]) < Size(Around(head[s], 1), tail[s]))
      BY <1>1, SizesAssumption DEF Size, Cap, Around
    <3> QED
      BY <1>3, <1>4, <1>5, <2>2, <3>1, <3>2, <3>3
  <2> QED
    BY <2>1, <2>2
<1>8. Unique'
  BY <1>0, <1>3 DEF Unique
<1>9. ASSUME NEW x \in Tasks PROVE Stored(x)' <=> Stored(x) /\ x # items[s][head[s]]
  <2>1. x # None
    BY NoneAssumption, SizesAssumption DEF Tasks
  <2>2. ASSUME Stored(x), x # items[s][head[s]] PROVE Stored(x)'
    <3>1. PICK u \in Slaves, i \in 0..Depth : items[u][i] = x
      BY <2>2 DEF Stored
    <3>2. items'[u][i] = x
      BY <1>3, <2>2, <3>1
    <3> QED
      BY <3>2 DEF Stored
  <2>3. ASSUME Stored(x)' PROVE Stored(x) /\ x # items[s][head[s]]
    <3>1. PICK u \in Slaves, i \in 0..Depth : items'[u][i] = x
      BY <2>3 DEF Stored
    <3>2. items[u][i] = x /\ ~(u = s /\ i = head[s])
      BY <1>3, <2>1, <3>1
    <3>3. x # items[s][head[s]]
      BY <1>0, <1>1, <2>1, <3>2 DEF Unique
    <3> QED
      BY <3>2, <3>3 DEF Stored
  <2> QED
    BY <2>2, <2>3
<1> QED
  BY <1>6, <1>7, <1>8, <1>9

\* What a theft does to each slot: the first n of the victim's go behind the
\* thief's own, which has room for them.
LEMMA MoveSlots ==
  ASSUME OnceInv, NEW s \in Slaves, StealMove(s)
  PROVE  \E v \in Slaves, n \in 0..Depth :
           /\ v # s /\ v = victim[s] /\ spin[v] = None /\ pc[v] # "moved"
           /\ n <= size(v) /\ size(s) + n <= Depth
           /\ \A u \in Slaves : head'[u] = IF u = v THEN Around(head[v], n) ELSE head[u]
           /\ loot'[s] = Around(tail[s], n) /\ UNCHANGED tail
           /\ \A u \in Slaves, i \in 0..Depth : u # s /\ u # v => items'[u][i] = items[u][i]
           /\ \A i \in 0..Depth :
                /\ items'[s][i] = IF Size(tail[s], i) < n
                                  THEN items[v][Around(head[v], Size(tail[s], i))]
                                  ELSE items[s][i]
                /\ items'[v][i] = IF Size(head[v], i) < n THEN None ELSE items[v][i]
<1>0. TypeOK /\ Locks
  BY DEF OnceInv
<1> DEFINE v == victim[s]
           n == steal_size(s, v)
<1>1. v \in Slaves /\ v # s /\ spin[v] = None /\ pc[v] # "moved"
  <2>1. v \in Slaves /\ spin[v] = None /\ v # s
    BY <1>0 DEF TypeOK, Locks, StealMove, CanSteal
  <2>2. v # None
    BY <2>1, NoneAssumption, SizesAssumption DEF Slaves
  <2> QED
    BY <1>0, <2>1, <2>2 DEF Locks
<1>2. n \in 0..Depth /\ n <= size(v) /\ size(s) + n <= Depth
  <2>1. size(s) \in 0..Depth /\ size(v) \in 0..Depth
    BY <1>0, <1>1, Indexes
  <2>2. n \in Nat /\ n <= Depth - size(s)
    BY <1>0, <1>1, StealSizeTyped
  <2>3. n <= size(v) \div 2 /\ size(v) \div 2 <= size(v) /\ size(v) \div 2 \in Nat
    BY <2>1, SizesAssumption DEF steal_size, Smaller
  <2> HIDE DEF n, v
  <2> QED
    BY <2>1, <2>2, <2>3, SizesAssumption
<1>3. head[v] \in 0..Depth /\ tail[s] \in 0..Depth
  BY <1>0, <1>1, Indexes
<1>4. (head[v] + n) % Cap = Around(head[v], n) /\ (tail[s] + n) % Cap = Around(tail[s], n)
  <2> HIDE DEF n, v
  <2> QED
    BY <1>2, <1>3, AroundIsMod
<1>5. \A i \in 0..Depth :
        (head[v] + Size(tail[s], i)) % Cap = Around(head[v], Size(tail[s], i))
  <2> TAKE i \in 0..Depth
  <2>1. Size(tail[s], i) \in 0..Depth
    BY <1>3, SizeTyped
  <2> QED
    BY <1>3, <2>1, AroundIsMod
<1> DEFINE new == [i \in 0..Depth |-> LET k == Size(tail[s], i)
             IN IF k < n THEN items[v][(head[v] + k) % Cap] ELSE items[s][i]]
           old == [i \in 0..Depth |-> IF Size(head[v], i) < n THEN None ELSE items[v][i]]
<1>6. items' = [items EXCEPT ![s] = new, ![v] = old]
  BY <1>0, <1>1 DEF StealMove, TypeOK
<1>7. items'[s] = new /\ items'[v] = old /\ \A u \in Slaves : u # s /\ u # v => items'[u] = items[u]
  <2>1. DOMAIN items = Slaves
    BY <1>0 DEF TypeOK
  <2> HIDE DEF new, old, v
  <2> QED
    BY <1>1, <1>6, <2>1
<1>8. \A i \in 0..Depth :
        /\ items'[s][i] = IF Size(tail[s], i) < n
                          THEN items[v][Around(head[v], Size(tail[s], i))]
                          ELSE items[s][i]
        /\ items'[v][i] = IF Size(head[v], i) < n THEN None ELSE items[v][i]
  <2> HIDE DEF n, v
  <2> QED
    BY <1>5, <1>7
<1>9. /\ head' = [head EXCEPT ![v] = (head[v] + n) % Cap]
      /\ loot' = [loot EXCEPT ![s] = (tail[s] + n) % Cap] /\ UNCHANGED tail
  BY DEF StealMove
<1>10. /\ \A u \in Slaves : head'[u] = IF u = v THEN Around(head[v], n) ELSE head[u]
       /\ loot'[s] = Around(tail[s], n)
  <2>1. head \in [Slaves -> 0..Depth] /\ loot \in [Slaves -> 0..Depth]
    BY <1>0 DEF TypeOK
  <2> HIDE DEF n, v
  <2> QED
    BY <1>1, <1>4, <1>9, <2>1
<1> HIDE DEF n, new, old
<1> QED
  BY <1>1, <1>2, <1>7, <1>8, <1>9, <1>10

LEMMA MoveRings ==
  ASSUME OnceInv, NEW s \in Slaves, StealMove(s)
  PROVE  /\ Rings' /\ Unique'
         /\ \A x \in Tasks : Stored(x)' <=> Stored(x)
<1>0. TypeOK /\ Locks /\ Rings /\ Unique
  BY DEF OnceInv
<1>1. PICK v \in Slaves, n \in 0..Depth :
           /\ v # s /\ v = victim[s] /\ spin[v] = None /\ pc[v] # "moved"
           /\ n <= size(v) /\ size(s) + n <= Depth
           /\ \A u \in Slaves : head'[u] = IF u = v THEN Around(head[v], n) ELSE head[u]
           /\ loot'[s] = Around(tail[s], n) /\ UNCHANGED tail
           /\ \A u \in Slaves, i \in 0..Depth : u # s /\ u # v => items'[u][i] = items[u][i]
           /\ \A i \in 0..Depth :
                /\ items'[s][i] = IF Size(tail[s], i) < n
                                  THEN items[v][Around(head[v], Size(tail[s], i))]
                                  ELSE items[s][i]
                /\ items'[v][i] = IF Size(head[v], i) < n THEN None ELSE items[v][i]
  BY MoveSlots
<1>2. pc[s] = "steal" /\ pc'[s] = "moved"
      /\ \A u \in Slaves : u # s => pc'[u] = pc[u] /\ loot'[u] = loot[u]
  <2>1. pc[s] = "steal" /\ pc' = [pc EXCEPT ![s] = "moved"]
    BY DEF StealMove, Goto
  <2>2. Slave(s)
    BY DEF Slave
  <2> QED
    BY <1>0, <2>1, <2>2, SlaveFrame DEF TypeOK
<1>3. /\ head[v] \in 0..Depth /\ tail[v] \in 0..Depth
      /\ head[s] \in 0..Depth /\ tail[s] \in 0..Depth
  BY <1>0, Indexes
<1>4. Depth \in Nat /\ n \in Nat
  BY SizesAssumption
\* Ends and ranks, before and after.
<1>5. /\ End(s) = tail[s] /\ End(v) = tail[v] /\ End(s)' = Around(tail[s], n)
      /\ \A u \in Slaves : u # s => End(u)' = End(u)
  BY <1>1, <1>2 DEF End
<1>s. size(s) = Size(head[s], tail[s]) /\ size(v) = Size(head[v], tail[v])
  BY DEF size
<1>6. ASSUME NEW i \in 0..Depth
      PROVE  /\ items[s][i] # None <=> Size(head[s], i) < size(s)
             /\ items[v][i] # None <=> Size(head[v], i) < size(v)
  BY <1>0, <1>5, <1>s DEF Rings
<1>7. ASSUME NEW k \in 0..Depth, k < n
      PROVE  /\ Around(head[v], k) \in 0..Depth /\ Size(head[v], Around(head[v], k)) = k
             /\ items[v][Around(head[v], k)] # None
  <2>1. Around(head[v], k) \in 0..Depth /\ Size(head[v], Around(head[v], k)) = k
    BY <1>3, AroundIsMod, RankAround
  <2>2. size(v) \in 0..Depth
    BY <1>0, Indexes
  <2>3. k < size(v)
    BY <1>1, <1>4, <1>7, <2>2
  <2> QED
    BY <1>6, <2>1, <2>3
<1>8. ASSUME NEW i \in 0..Depth PROVE Size(tail[s], i) \in 0..Depth /\ Size(head[v], i) \in 0..Depth
  BY <1>3, SizeTyped
<1>9. Rings'
  <2> SUFFICES ASSUME NEW u \in Slaves, NEW i \in 0..Depth
               PROVE  items'[u][i] # None <=> Size(head'[u], i) < Size(head'[u], End(u)')
    BY DEF Rings
  <2>1. CASE u # s /\ u # v
    BY <1>0, <1>1, <1>5, <2>1 DEF Rings
  <2>2. CASE u = v
    <3>1. head'[u] = Around(head[v], n) /\ End(u)' = tail[v]
      BY <1>1, <1>5, <2>2
    <3>2. items'[u][i] # None <=> n <= Size(head[v], i) /\ Size(head[v], i) < size(v)
      BY <1>1, <1>4, <1>6, <1>8, <2>2
    <3>3. Size(Around(head[v], n), tail[v]) = Size(head[v], tail[v]) - n
      <4>1. Size(head[v], tail[v]) \in 0..Depth
        BY <1>3, SizeTyped
      <4>2. Size(head[v], tail[v]) >= n
        BY <1>1, <1>4, <1>s, <4>1
      <4> QED
        BY <1>3, <4>2, RankMoves
    <3>4. Size(Around(head[v], n), i) = IF Size(head[v], i) >= n THEN Size(head[v], i) - n
                                 ELSE Size(head[v], i) + Depth + 1 - n
      BY <1>3, RankMoves
    <3>5. Size(head[v], i) \in 0..Depth /\ size(v) \in 0..Depth
      BY <1>0, Indexes
    <3> QED
      BY <1>4, <1>s, <3>1, <3>2, <3>3, <3>4, <3>5
  <2>3. CASE u = s
    <3>1. head'[u] = head[s] /\ End(u)' = Around(tail[s], n)
      BY <1>1, <1>5, <2>3
    <3>2. items'[u][i] # None <=> Size(tail[s], i) < n \/ Size(head[s], i) < size(s)
      BY <1>1, <1>6, <1>7, <1>8, <2>3
    <3>3. Size(head[s], Around(tail[s], n)) = size(s) + n
      <4>1. Around(tail[s], n) \in 0..Depth /\ Size(tail[s], Around(tail[s], n)) = n
        BY <1>3, AroundIsMod, RankAround
      <4> QED
        BY <1>1, <1>3, <1>s, <4>1, RankBehind
    <3>4. Size(head[s], i) \in 0..Depth /\ size(s) \in 0..Depth /\ Size(tail[s], i) \in 0..Depth
      BY <1>0, Indexes
    <3>5. Size(tail[s], i) < n => Size(head[s], i) = size(s) + Size(tail[s], i)
      <4>1. Size(tail[s], i) < n => size(s) + Size(tail[s], i) <= Depth
        BY <1>1, <1>4, <3>4
      <4> QED
        BY <1>3, <1>s, <4>1, RankBehind
    <3>6. size(s) <= Size(head[s], i) => Size(head[s], i) = size(s) + Size(tail[s], i)
      BY <1>3, <1>s, RankBehind
    <3> QED
      BY <1>4, <3>1, <3>2, <3>3, <3>4, <3>5, <3>6
  <2> QED
    BY <2>1, <2>2, <2>3
\* Every task that is in a buffer afterwards comes from one slot, and that slot
\* from nowhere else.
<1> DEFINE SrcS(u, i) == IF u = s /\ Size(tail[s], i) < n THEN v ELSE u
           SrcI(u, i) == IF u = s /\ Size(tail[s], i) < n
                         THEN Around(head[v], Size(tail[s], i)) ELSE i
<1>10. ASSUME NEW u \in Slaves, NEW i \in 0..Depth, items'[u][i] # None
       PROVE  /\ SrcS(u, i) \in Slaves /\ SrcI(u, i) \in 0..Depth
              /\ items[SrcS(u, i)][SrcI(u, i)] = items'[u][i]
              /\ u = v => ~(Size(head[v], i) < n)
  <2>1. CASE u = s /\ Size(tail[s], i) < n
    BY <1>1, <1>7, <1>8, <2>1
  <2>2. CASE ~(u = s /\ Size(tail[s], i) < n)
    BY <1>1, <1>10, <2>2
  <2> QED
    BY <2>1, <2>2
<1>11. ASSUME NEW u \in Slaves, NEW i \in 0..Depth, items'[u][i] # None,
              NEW r \in Slaves, NEW j \in 0..Depth, items'[r][j] # None,
              SrcS(u, i) = SrcS(r, j), SrcI(u, i) = SrcI(r, j)
       PROVE  u = r /\ i = j
  <2>1. u = v => ~(Size(head[v], i) < n)
    BY <1>10, <1>11
  <2>2. r = v => ~(Size(head[v], j) < n)
    BY <1>10, <1>11
  <2>3. CASE (u = s /\ Size(tail[s], i) < n) /\ (r = s /\ Size(tail[s], j) < n)
    <3>1. Around(head[v], Size(tail[s], i)) = Around(head[v], Size(tail[s], j))
      BY <1>11, <2>3
    <3>2. Size(tail[s], i) = Size(tail[s], j)
      BY <1>7, <1>8, <2>3, <3>1
    <3>3. i = Around(tail[s], Size(tail[s], i)) /\ j = Around(tail[s], Size(tail[s], j))
      BY <1>3, <1>8, RankAround
    <3> QED
      BY <2>3, <3>2, <3>3
  <2>4. CASE (u = s /\ Size(tail[s], i) < n) /\ ~(r = s /\ Size(tail[s], j) < n)
    <3>1. r = v /\ j = Around(head[v], Size(tail[s], i))
      BY <1>11, <2>4
    <3>2. Size(head[v], j) = Size(tail[s], i)
      BY <1>7, <1>8, <2>4, <3>1
    <3> QED
      BY <2>2, <2>4, <3>1, <3>2
  <2>5. CASE ~(u = s /\ Size(tail[s], i) < n) /\ (r = s /\ Size(tail[s], j) < n)
    <3>1. u = v /\ i = Around(head[v], Size(tail[s], j))
      BY <1>11, <2>5
    <3>2. Size(head[v], i) = Size(tail[s], j)
      BY <1>7, <1>8, <2>5, <3>1
    <3> QED
      BY <2>1, <2>5, <3>1, <3>2
  <2>6. CASE ~(u = s /\ Size(tail[s], i) < n) /\ ~(r = s /\ Size(tail[s], j) < n)
    BY <1>11, <2>6
  <2> QED
    BY <2>3, <2>4, <2>5, <2>6
<1>12. Unique'
  <2> SUFFICES ASSUME NEW u \in Slaves, NEW r \in Slaves, NEW i \in 0..Depth, NEW j \in 0..Depth,
                      items'[u][i] = items'[r][j], items'[u][i] # None
               PROVE  u = r /\ i = j
    BY DEF Unique
  <2> HIDE DEF SrcS, SrcI
  <2>1. SrcS(u, i) = SrcS(r, j) /\ SrcI(u, i) = SrcI(r, j)
    BY <1>0, <1>10 DEF Unique
  <2> QED
    BY <1>11, <2>1
<1>13. ASSUME NEW x \in Tasks PROVE Stored(x)' <=> Stored(x)
  <2>0. x # None
    BY NoneAssumption, SizesAssumption DEF Tasks
  <2>1. ASSUME Stored(x)' PROVE Stored(x)
    <3>1. PICK u \in Slaves, i \in 0..Depth : items'[u][i] = x
      BY <2>1 DEF Stored
    <3> HIDE DEF SrcS, SrcI
    <3> QED
      BY <1>10, <2>0, <3>1 DEF Stored
  <2>2. ASSUME Stored(x) PROVE Stored(x)'
    <3>1. PICK u \in Slaves, i \in 0..Depth : items[u][i] = x
      BY <2>2 DEF Stored
    <3>2. CASE u = v /\ Size(head[v], i) < n
      <4> DEFINE k == Size(head[v], i)
                 j == Around(tail[s], k)
      <4>1. k \in 0..Depth /\ k < n
        BY <1>8, <3>2
      <4>2. j \in 0..Depth /\ Size(tail[s], j) = k
        <5> HIDE DEF k
        <5> QED
          BY <1>3, <4>1, AroundIsMod, RankAround
      <4>3. i = Around(head[v], k)
        BY <1>3, <4>1, RankAround
      <4> HIDE DEF k, j
      <4>4. items'[s][j] = x
        BY <1>1, <3>1, <3>2, <4>1, <4>2, <4>3
      <4> QED
        BY <4>2, <4>4 DEF Stored
    <3>3. CASE u = v /\ ~(Size(head[v], i) < n)
      BY <1>1, <3>1, <3>3 DEF Stored
    <3>4. CASE u = s
      <4>1. Size(head[s], i) < size(s)
        BY <1>6, <2>0, <3>1, <3>4
      <4>2. ~(Size(tail[s], i) < n)
        <5>1. Size(head[s], i) \in 0..Depth /\ size(s) \in 0..Depth /\ Size(tail[s], i) \in 0..Depth
          BY <1>0, Indexes
        <5>2. Size(tail[s], i) < n => size(s) + Size(tail[s], i) <= Depth
          BY <1>1, <1>4, <5>1
        <5>3. Size(tail[s], i) < n => Size(head[s], i) = size(s) + Size(tail[s], i)
          BY <1>3, <1>s, <5>2, RankBehind
        <5> QED
          BY <4>1, <5>1, <5>3
      <4>3. items'[s][i] = x
        BY <1>1, <3>1, <3>4, <4>2
      <4> QED
        BY <4>3 DEF Stored
    <3>5. CASE u # s /\ u # v
      <4>1. items'[u][i] = x
        BY <1>1, <3>1, <3>5
      <4> QED
        BY <4>1 DEF Stored
    <3> QED
      BY <3>2, <3>3, <3>4, <3>5
  <2> QED
    BY <2>1, <2>2
<1> QED
  BY <1>9, <1>12, <1>13

\* Slaves keep the rings in order and the tasks accounted for.
LEMMA SlaveRings ==
  ASSUME OnceInv, NEW s \in Slaves, Slave(s) PROVE Rings' /\ Unique' /\ Dealt'
<1>0. TypeOK /\ Dealt
  BY DEF OnceInv
<1>f. /\ UNCHANGED <<left, ran>>
      /\ \A u \in Slaves : u # s => pc'[u] = pc[u] /\ loot'[u] = loot[u] /\ tail'[u] = tail[u]
  BY <1>0, SlaveFrame DEF masterVars
<1>1. CASE StealMove(s)
  <2>1. Rings' /\ Unique' /\ \A x \in Tasks : Stored(x)' <=> Stored(x)
    BY <1>1, MoveRings
  <2>2. UNCHANGED did
    BY <1>1 DEF StealMove
  <2>3. Dealt'
    BY <1>0, <1>f, <2>1, <2>2 DEF Dealt
  <2> QED
    BY <2>1, <2>3
<1>2. CASE slave_dequeue_task(s) /\ head[s] # tail[s]
  <2> DEFINE t == items[s][head[s]]
  <2>1. Rings' /\ Unique' /\ t \in Tasks
        /\ \A x \in Tasks : Stored(x)' <=> Stored(x) /\ x # t
    BY <1>2, PopRings
  <2>2. did' = [did EXCEPT ![t] = @ + 1]
    BY <1>2 DEF slave_dequeue_task
  <2>3. Stored(t)
    BY <1>0, Indexes DEF Stored
  <2>4. did \in [Tasks -> Nat]
    BY <1>0 DEF TypeOK
  <2>5. did[t] = 0 /\ t > left
    BY <1>0, <2>1, <2>3 DEF Dealt
  <2> HIDE DEF t
  <2>6. Dealt'
    <3> SUFFICES ASSUME NEW x \in Tasks
                 PROVE  /\ did'[x] <= 1
                        /\ Stored(x)' => did'[x] = 0 /\ x > left
                        /\ x <= left => did'[x] = 0
                        /\ ran /\ x > left /\ did'[x] = 0 => Stored(x)'
      BY <1>f DEF Dealt
    <3>1. /\ did[x] <= 1
          /\ Stored(x) => did[x] = 0 /\ x > left
          /\ x <= left => did[x] = 0
          /\ ran /\ x > left /\ did[x] = 0 => Stored(x)
      BY <1>0 DEF Dealt
    <3>2. CASE x = t
      <4>1. did'[x] = 1 /\ ~Stored(x)'
        BY <2>1, <2>2, <2>4, <2>5, <3>2
      <4>2. ~(x <= left)
        BY <1>0, <2>5, <3>2, SizesAssumption DEF TypeOK, Tasks
      <4> QED
        BY <4>1, <4>2
    <3>3. CASE x # t
      <4>1. did'[x] = did[x] /\ (Stored(x)' <=> Stored(x))
        BY <2>1, <2>2, <2>4, <3>3
      <4> QED
        BY <3>1, <4>1
    <3> QED
      BY <3>2, <3>3
  <2> QED
    BY <2>1, <2>6
<1>3. CASE StealPublish(s)
  <2>1. UNCHANGED <<items, head, did>> /\ End(s)' = End(s)
    BY <1>0, <1>3 DEF StealPublish, End, Goto, TypeOK
  <2>2. \A u \in Slaves : End(u)' = End(u)
    BY <1>f, <2>1 DEF End
  <2> QED
    BY <1>f, <2>1, <2>2, RingsQuiet, DealtQuiet
<1>4. CASE ~StealMove(s) /\ ~StealPublish(s) /\ ~(slave_dequeue_task(s) /\ head[s] # tail[s])
  <2>1. UNCHANGED <<items, head, tail, did>>
    BY <1>4 DEF Slave, LookTail, LookHead, StealLock, StealPeek, StealFails, ReadDone,
                ExitTail, ExitHead, slave_dequeue_task, ringVars
  <2>2. pc[s] # "moved" /\ pc'[s] # "moved"
    BY <1>0, <1>4 DEF Slave, LookTail, LookHead, StealLock, StealPeek, StealFails, ReadDone,
                ExitTail, ExitHead, slave_dequeue_task, TryNext, Goto, TypeOK
  <2>3. \A u \in Slaves : End(u)' = End(u)
    BY <1>f, <2>1, <2>2 DEF End
  <2> QED
    BY <1>f, <2>1, <2>3, RingsQuiet, DealtQuiet
<1> QED
  BY <1>1, <1>2, <1>3, <1>4

\* No slave is off but with an empty buffer; when all are, nothing is stored.
LEMMA AllOff ==
  ASSUME OnceInv, \A s \in Slaves : pc[s] = "off"
  PROVE  /\ \A t \in Tasks : ~Stored(t)
         /\ \A s \in Slaves : size(s) = 0
<1>0. TypeOK /\ Phases /\ Rings
  BY DEF OnceInv
<1>1. \A s \in Slaves : size(s) = 0 /\ End(s) = tail[s]
  BY <1>0, EmptyMeans, Indexes DEF Phases, size, End
<1>2. ASSUME NEW s \in Slaves, NEW i \in 0..Depth PROVE items[s][i] = None
  <2>1. Size(head[s], i) \in 0..Depth
    BY <1>0, Indexes
  <2>2. ~(Size(head[s], i) < 0)
    BY <2>1, SizesAssumption
  <2> QED
    BY <1>0, <1>1, <2>2 DEF Rings, size
<1>3. \A t \in Tasks : t # None
  BY NoneAssumption, SizesAssumption DEF Tasks
<1> QED
  BY <1>1, <1>2, <1>3 DEF Stored

LEMMA MasterOnce ==
  ASSUME OnceInv, spawn \/ execute PROVE Locks' /\ Phases' /\ Rings' /\ Unique' /\ Dealt'
<1>0. TypeOK /\ Locks /\ Phases /\ Rings /\ Unique /\ Dealt
  BY DEF OnceInv
<1>1. CASE spawn
  <2>1. \A s \in Slaves : pc[s] = "off"
    BY <1>0, <1>1 DEF spawn, Phases
  <2>2. \A s \in Slaves : pc'[s] = "look" /\ End(s)' = End(s)
    BY <1>1, <2>1 DEF spawn, End, ringVars
  <2>3. Locks'
    BY <2>2 DEF Locks
  <2>4. Phases'
    BY <1>0, <1>1, <2>2 DEF spawn, Phases
  <2>5. Rings' /\ Unique'
    BY <1>1, <2>2, RingsQuiet DEF spawn, ringVars
  <2>6. Dealt'
    <3>1. \A t \in Tasks : ~Stored(t)' /\ did'[t] = 0
      BY <1>1, <2>1, AllOff DEF spawn, ringVars, Stored
    <3>2. \A t \in Tasks : ~(t > left')
      BY <1>1, SizesAssumption DEF spawn, Tasks
    <3> QED
      BY <3>1, <3>2 DEF Dealt
  <2> QED
    BY <2>3, <2>4, <2>5, <2>6
<1>2. CASE master_enqueue_task
  <2>1. /\ mpc = "deal" /\ turn \in Slaves /\ left \in Tasks /\ spin[turn] = None
        /\ UNCHANGED <<head, spin, mpc, master_done, ran, pc, snap, victim, loot, did>>
    BY <1>0, <1>2, SizesAssumption DEF master_enqueue_task, TypeOK, Tasks
  <2>2. Locks'
    BY <1>0, <2>1 DEF Locks
  <2>3. Phases'
    BY <1>0, <2>1 DEF Phases
  <2>4. CASE Full(turn)
    <3>1. UNCHANGED <<items, tail, left>>
      BY <1>2, <2>4 DEF master_enqueue_task, push_back
    <3>2. \A u \in Slaves : End(u)' = End(u)
      BY <2>1, <3>1 DEF End
    <3> QED
      BY <2>1, <2>2, <2>3, <3>1, <3>2, RingsQuiet, DealtQuiet
  <2>5. CASE ~Full(turn)
    <3>1. left' = left - 1 /\ push_back(turn, left)
      BY <1>2, <2>5 DEF master_enqueue_task
    <3>2. left \in Nat /\ ~(left > left) /\ left > left - 1
      BY <2>1, SizesAssumption DEF Tasks
    <3>3. ~Stored(left) /\ did[left] = 0
      BY <1>0, <2>1, <3>2 DEF Dealt
    <3>4. Rings' /\ Unique' /\ \A x \in Tasks : Stored(x)' <=> Stored(x) \/ x = left
      BY <2>1, <2>5, <3>1, <3>3, PushRings
    <3>5. Dealt'
      <4> SUFFICES ASSUME NEW x \in Tasks
                   PROVE  /\ did[x] <= 1
                          /\ Stored(x)' => did[x] = 0 /\ x > left - 1
                          /\ x <= left - 1 => did[x] = 0
                          /\ ran /\ x > left - 1 /\ did[x] = 0 => Stored(x)'
        BY <2>1, <3>1 DEF Dealt
      <4>1. /\ did[x] <= 1
            /\ Stored(x) => did[x] = 0 /\ x > left
            /\ x <= left => did[x] = 0
            /\ ran /\ x > left /\ did[x] = 0 => Stored(x)
        BY <1>0 DEF Dealt
      <4>2. x \in Nat
        BY SizesAssumption DEF Tasks
      <4>3. (x > left - 1 <=> x > left \/ x = left) /\ (x <= left - 1 => x <= left)
            /\ (x > left => x > left - 1)
        BY <3>2, <4>2
      <4> QED
        BY <3>2, <3>3, <3>4, <4>1, <4>3
    <3> QED
      BY <2>2, <2>3, <3>4, <3>5
  <2> QED
    BY <2>4, <2>5
<1>3. CASE MasterDone \/ Join
  <2>1. UNCHANGED <<ringVars, spin, left, ran, pc, snap, victim, loot, did>>
    BY <1>3 DEF MasterDone, Join
  <2>2. \A u \in Slaves : End(u)' = End(u)
    BY <2>1 DEF End, ringVars
  <2>3. Locks'
    BY <1>0, <2>1 DEF Locks
  <2>4. Phases'
    <3>1. CASE MasterDone
      BY <1>0, <2>1, <3>1 DEF MasterDone, Phases, ringVars
    <3>2. CASE Join
      BY <1>0, <2>1, <3>2 DEF Join, Phases, ringVars
    <3> QED
      BY <1>3, <3>1, <3>2
  <2> QED
    BY <2>1, <2>2, <2>3, <2>4, RingsQuiet, DealtQuiet DEF ringVars
<1> QED
  BY <1>1, <1>2, <1>3 DEF execute

LEMMA OnceInvInit == Init => OnceInv
<1> SUFFICES ASSUME Init PROVE OnceInv
  OBVIOUS
<1>1. TypeOK
  BY TypeInit
<1>2. \A s \in Slaves, i \in 0..Depth : items[s][i] = None
  BY DEF Init
<1>3. \A s \in Slaves : head[s] = 0 /\ tail[s] = 0 /\ pc[s] = "off" /\ End(s) = 0
  BY DEF Init, End
<1>4. Rings
  <2> SUFFICES ASSUME NEW i \in 0..Depth PROVE ~(Size(0, i) < Size(0, 0))
    BY <1>2, <1>3 DEF Rings
  <2> QED
    BY SizesAssumption DEF Size, Cap
<1>5. \A t \in Tasks : ~Stored(t) /\ did[t] = 0
  <2>1. \A t \in Tasks : t # None
    BY NoneAssumption, SizesAssumption DEF Tasks
  <2> QED
    BY <1>2, <2>1 DEF Stored, Init
<1>6. Dealt
  BY <1>5 DEF Dealt, Init
<1>7. Phases
  BY <1>3 DEF Phases, Init
<1> QED
  BY <1>1, <1>2, <1>3, <1>4, <1>6, <1>7 DEF OnceInv, Locks, Unique

LEMMA OnceInvStep == OnceInv /\ [Next]_vars => OnceInv'
<1> SUFFICES ASSUME OnceInv, [Next]_vars PROVE OnceInv'
  OBVIOUS
<1>0. TypeOK'
  BY TypeStep DEF OnceInv
<1>1. CASE UNCHANGED vars
  <2>1. UNCHANGED <<items, head, tail, spin, mpc, left, master_done, ran, pc, snap, victim,
                    loot, did>>
    BY <1>1 DEF vars, ringVars, masterVars
  <2>2. Locks' /\ Phases'
    BY <2>1 DEF OnceInv, Locks, Phases
  <2>3. \A u \in Slaves : End(u)' = End(u)
    BY <2>1 DEF End
  <2> QED
    BY <1>0, <2>1, <2>2, <2>3, RingsQuiet, DealtQuiet DEF OnceInv
<1>2. ASSUME NEW s \in Slaves, Slave(s) PROVE Locks' /\ Phases' /\ Rings' /\ Unique' /\ Dealt'
  BY <1>2, SlaveLocks, SlavePhases, SlaveRings
<1> QED
  BY <1>0, <1>1, <1>2, MasterOnce DEF Next, OnceInv

\* However tasks are stolen while their owners look at their buffers and decide to
\* exit, no task is carried out twice, and when the master has joined its slaves
\* every task has been and every buffer is empty, for any number of slaves, tasks
\* and any depth.
THEOREM EveryTaskOnce == Spec => []EachTaskOnce
<1>1. OnceInv => EachTaskOnce
  <2> SUFFICES ASSUME OnceInv PROVE EachTaskOnce
    OBVIOUS
  <2>1. \A t \in Tasks : did[t] <= 1
    BY DEF OnceInv, Dealt
  <2>2. ASSUME mpc = "idle", ran
        PROVE  (\A t \in Tasks : did[t] = 1) /\ \A s \in Slaves : size(s) = 0
    <3>1. left = 0 /\ \A s \in Slaves : pc[s] = "off"
      BY <2>2 DEF OnceInv, Phases
    <3>2. (\A t \in Tasks : ~Stored(t)) /\ \A s \in Slaves : size(s) = 0
      BY <3>1, AllOff
    <3>3. ASSUME NEW t \in Tasks PROVE did[t] = 1
      <4>1. t > left /\ did[t] \in Nat
        BY <3>1, SizesAssumption DEF OnceInv, TypeOK, Tasks
      <4>2. did[t] # 0 /\ did[t] <= 1
        BY <2>1, <2>2, <3>2, <4>1 DEF OnceInv, Dealt
      <4> QED
        BY <4>1, <4>2
    <3> QED
      BY <3>2, <3>3
  <2> QED
    BY <2>1, <2>2 DEF EachTaskOnce
<1> QED
  BY <1>1, OnceInvInit, OnceInvStep, PTL DEF Spec
=============================================================================
