----------------------------- MODULE Parallelizer -----------------------------
(***************************************************************************)
(* The master and its slaves that share out the marking and the write-back *)
(* of a GC round (inc/internal/parallel.ipp), over one ring buffer of      *)
(* tasks per slave (inc/internal/cb.ipp).                                  *)
(*                                                                         *)
(* The master deals tasks out in turn.  A slave serves its own buffer and, *)
(* when that is empty, moves half of another slave's tasks into it.  Both  *)
(* buffers are locked for that, but size() reads tail and head without a   *)
(* lock, and a slave decides to exit on what it says.                      *)
(***************************************************************************)
EXTENDS Integers, FiniteSets

CONSTANTS
  NumSlaves,   \* slaves 0..NumSlaves-1
  Depth,       \* capacity of a buffer, task_queues_depth
  NumTasks,    \* tasks of one execution
  None

\* The constructor refuses zero slaves and zero depth.
ASSUME SizesAssumption ==
  /\ NumSlaves \in Nat \ {0} /\ Depth \in Nat \ {0}
  /\ NumTasks \in Nat
ASSUME NoneAssumption == None \notin Nat \cup {"master"}

Slaves == 0..(NumSlaves - 1)
Tasks == 1..NumTasks
Cap == Depth + 1              \* capacity_: one slot stays empty
Owners == Slaves \cup {"master"}

VARIABLES
  items, head, tail,  \* the ring buffers, [Slaves -> ..]
  spin,     \* [Slaves -> who holds the buffer's lock]
  mpc,      \* master: outside an execution, dealing out, or joining
  left,     \* tasks the master still has to deal out
  turn,     \* enqueue_thread_id_
  master_done,
  ran,      \* history: there has been an execution
  pc,       \* [Slaves -> where the slave is]
  snap,     \* [Slaves -> the tail size() has read]
  victim,   \* [Slaves -> whose tasks it is about to steal]
  loot,     \* [Slaves -> its own tail, once the stolen tasks are in]
  did       \* history: [Tasks -> times carried out in this execution]

ringVars == <<items, head, tail>>
masterVars == <<mpc, left, turn, master_done, ran>>
vars == <<ringVars, spin, masterVars, pc, snap, victim, loot, did>>

\* Distance from h to t around the ring.
Size(h, t) == IF t < h THEN t + Cap - h ELSE t - h
size(s) == Size(head[s], tail[s])
Step(i) == (i + 1) % Cap

TypeOK ==
  /\ items \in [Slaves -> [0..Depth -> Tasks \cup {None}]]
  /\ head \in [Slaves -> 0..Depth] /\ tail \in [Slaves -> 0..Depth]
  /\ spin \in [Slaves -> Slaves \cup {None}]
  /\ mpc \in {"idle", "deal", "join"}
  /\ left \in 0..NumTasks /\ turn \in Slaves
  /\ master_done \in BOOLEAN /\ ran \in BOOLEAN
  /\ pc \in [Slaves -> {"off", "look", "look_head", "lock", "peek", "steal",
                        "moved", "done", "exit", "exit_head", "take"}]
  /\ snap \in [Slaves -> 0..Depth]
  /\ victim \in [Slaves -> Slaves]
  /\ loot \in [Slaves -> 0..Depth]
  /\ did \in [Tasks -> Nat]

-----------------------------------------------------------------------------
(* CircularBuffer, by whoever holds the lock.                              *)

\* push_back is refused when the slot after the tail is the head.
Full(s) == Step(tail[s]) = head[s]
push_back(s, t) ==
  IF Full(s)
  THEN UNCHANGED <<items, tail>>
  ELSE /\ items' = [items EXCEPT ![s][tail[s]] = t]
       /\ tail' = [tail EXCEPT ![s] = Step(@)]

\* work_steal moves half of v's tasks, or what s has room for.
Smaller(a, b) == IF a < b THEN a ELSE b
steal_size(s, v) == Smaller(size(v) \div 2, Depth - size(s))

-----------------------------------------------------------------------------
(* The master.                                                             *)

\* spawn starts the slaves, execute sets master_up_ (slaves that are early
\* yield, which changes nothing).
spawn ==
  /\ mpc = "idle"
  /\ ran' = TRUE
  /\ mpc' = "deal"
  /\ left' = NumTasks
  /\ pc' = [s \in Slaves |-> "look"]
  /\ did' = [t \in Tasks |-> 0]
  /\ UNCHANGED <<ringVars, spin, turn, master_done, snap, victim, loot>>

\* master_enqueue_task: the next buffer in turn, until one takes the task.
master_enqueue_task ==
  /\ mpc = "deal"
  /\ left > 0
  /\ spin[turn] = None
  /\ push_back(turn, left)
  /\ left' = IF Full(turn) THEN left ELSE left - 1
  /\ turn' = (turn + 1) % NumSlaves
  /\ UNCHANGED <<head, spin, mpc, master_done, ran, pc, snap, victim, loot,
                 did>>

MasterDone ==
  /\ mpc = "deal"
  /\ left = 0
  /\ master_done' = TRUE
  /\ mpc' = "join"
  /\ UNCHANGED <<ringVars, spin, left, turn, ran, pc, snap, victim, loot, did>>

Join ==
  /\ mpc = "join"
  /\ \A s \in Slaves : pc[s] = "off"
  /\ master_done' = FALSE
  /\ mpc' = "idle"
  /\ UNCHANGED <<ringVars, spin, left, turn, ran, pc, snap, victim, loot, did>>

-----------------------------------------------------------------------------
(* A slave: slave_can_exit, slave_dequeue_task, the task.                  *)

Goto(s, l) == pc' = [pc EXCEPT ![s] = l]

\* The first slave from i on other than s, NumSlaves when there is none.
Other(s, i) == IF i = s THEN i + 1 ELSE i
TryNext(s, i) ==
  /\ victim' = [victim EXCEPT ![s] = Other(s, i) % NumSlaves]
  /\ Goto(s, IF Other(s, i) < NumSlaves THEN "lock" ELSE "done")

\* size() reads the tail ...
LookTail(s) ==
  /\ pc[s] = "look"
  /\ snap' = [snap EXCEPT ![s] = tail[s]]
  /\ Goto(s, "look_head")
  /\ UNCHANGED <<ringVars, spin, masterVars, victim, loot, did>>

\* ... then the head; empty means to look for another slave's tasks.
LookHead(s) ==
  /\ pc[s] = "look_head"
  /\ IF Size(head[s], snap[s]) = 0
     THEN TryNext(s, 0)
     ELSE Goto(s, "done") /\ UNCHANGED victim
  /\ snap' = [snap EXCEPT ![s] = 0]
  /\ UNCHANGED <<ringVars, spin, masterVars, loot, did>>

\* work_steal: lock the own buffer ...
StealLock(s) ==
  /\ pc[s] = "lock"
  /\ spin[s] = None
  /\ spin' = [spin EXCEPT ![s] = s]
  /\ Goto(s, "peek")
  /\ UNCHANGED <<ringVars, masterVars, snap, victim, loot, did>>

\* ... look at the other one's size, tail first ...
StealPeek(s) ==
  /\ pc[s] = "peek"
  /\ snap' = [snap EXCEPT ![s] = tail[victim[s]]]
  /\ Goto(s, "steal")
  /\ UNCHANGED <<ringVars, spin, masterVars, victim, loot, did>>

\* Worth stealing from: two tasks by the size read without the lock, the lock
\* is free, and two tasks by the size read with it.
CanSteal(s) ==
  LET v == victim[s]
  IN /\ Size(head[v], snap[s]) \div 2 # 0
     /\ spin[v] = None
     /\ size(v) \div 2 # 0

\* ... give up when it is not worth it ...
StealFails(s) ==
  /\ pc[s] = "steal"
  /\ ~CanSteal(s)
  /\ spin' = [spin EXCEPT ![s] = None]
  /\ TryNext(s, victim[s] + 1)
  /\ snap' = [snap EXCEPT ![s] = 0]
  /\ UNCHANGED <<ringVars, masterVars, loot, did>>

\* ... copy the tasks behind the own tail, moving the other buffer's head ...
StealMove(s) ==
  LET v == victim[s]
      n == steal_size(s, v)
  IN /\ pc[s] = "steal"
     /\ CanSteal(s)
     /\ spin' = [spin EXCEPT ![v] = s]
     /\ items' = [items EXCEPT
          ![s] = [i \in 0..Depth |->
            LET k == Size(tail[s], i)
            IN IF k < n THEN items[v][(head[v] + k) % Cap] ELSE @[i]],
          ![v] = [i \in 0..Depth |-> IF Size(head[v], i) < n THEN None ELSE @[i]]]
     /\ head' = [head EXCEPT ![v] = (@ + n) % Cap]
     /\ loot' = [loot EXCEPT ![s] = (tail[s] + n) % Cap]
     /\ snap' = [snap EXCEPT ![s] = 0]
     /\ Goto(s, "moved")
     /\ UNCHANGED <<tail, masterVars, victim, did>>

StealPublish_KeepsLock(s) ==
  /\ pc[s] = "moved"
  /\ tail' = [tail EXCEPT ![s] = loot[s]]
  /\ spin' = [spin EXCEPT ![s] = None]
  /\ victim' = [victim EXCEPT ![s] = 0]
  /\ loot' = [loot EXCEPT ![s] = 0]
  /\ Goto(s, "done")
  /\ UNCHANGED <<items, head, masterVars, snap, did>>

\* ... and move the own tail; both locks are released.
StealPublish(s) ==
  /\ pc[s] = "moved"
  /\ tail' = [tail EXCEPT ![s] = loot[s]]
  /\ spin' = [spin EXCEPT ![s] = None, ![victim[s]] = None]
  /\ victim' = [victim EXCEPT ![s] = 0]
  /\ loot' = [loot EXCEPT ![s] = 0]
  /\ Goto(s, "done")
  /\ UNCHANGED <<items, head, masterVars, snap, did>>

\* master_done_ is read before the size.
ReadDone(s) ==
  /\ pc[s] = "done"
  /\ Goto(s, IF master_done THEN "exit" ELSE "take")
  /\ UNCHANGED <<ringVars, spin, masterVars, snap, victim, loot, did>>

ExitTail(s) ==
  /\ pc[s] = "exit"
  /\ snap' = [snap EXCEPT ![s] = tail[s]]
  /\ Goto(s, "exit_head")
  /\ UNCHANGED <<ringVars, spin, masterVars, victim, loot, did>>

ExitHead_Always(s) ==
  /\ pc[s] = "exit_head"
  /\ Goto(s, "off")
  /\ snap' = [snap EXCEPT ![s] = 0]
  /\ UNCHANGED <<ringVars, spin, masterVars, victim, loot, did>>

ExitHead(s) ==
  /\ pc[s] = "exit_head"
  /\ Goto(s, IF Size(head[s], snap[s]) = 0 THEN "off" ELSE "take")
  /\ snap' = [snap EXCEPT ![s] = 0]
  /\ UNCHANGED <<ringVars, spin, masterVars, victim, loot, did>>

\* pop_front, and the task is carried out; its slot holds nothing any more.
slave_dequeue_task(s) ==
  /\ pc[s] = "take"
  /\ spin[s] = None
  /\ IF head[s] = tail[s]
     THEN UNCHANGED <<items, head, did>>
     ELSE /\ head' = [head EXCEPT ![s] = Step(@)]
          /\ items' = [items EXCEPT ![s][head[s]] = None]
          /\ did' = [did EXCEPT ![items[s][head[s]]] = @ + 1]
  /\ Goto(s, "look")
  /\ UNCHANGED <<tail, spin, masterVars, snap, victim, loot>>

-----------------------------------------------------------------------------
Init ==
  /\ items = [s \in Slaves |-> [i \in 0..Depth |-> None]]
  /\ head = [s \in Slaves |-> 0]
  /\ tail = [s \in Slaves |-> 0]
  /\ spin = [s \in Slaves |-> None]
  /\ mpc = "idle"
  /\ left = 0
  /\ turn = 0
  /\ master_done = FALSE
  /\ ran = FALSE
  /\ pc = [s \in Slaves |-> "off"]
  /\ snap = [s \in Slaves |-> 0]
  /\ victim = [s \in Slaves |-> 0]
  /\ loot = [s \in Slaves |-> 0]
  /\ did = [t \in Tasks |-> 0]

Slave(s) ==
  \/ LookTail(s) \/ LookHead(s)
  \/ StealLock(s) \/ StealPeek(s)
  \/ StealFails(s) \/ StealMove(s) \/ StealPublish(s)
  \/ ReadDone(s) \/ ExitTail(s) \/ ExitHead(s)
  \/ slave_dequeue_task(s)

execute == master_enqueue_task \/ MasterDone \/ Join

Next == spawn \/ execute \/ \E s \in Slaves : Slave(s)

Spec == Init /\ [][Next]_vars

\* Everybody goes on; a lock that is free again and again is obtained.
Fairness == SF_vars(execute) /\ \A s \in Slaves : SF_vars(Slave(s))

FairSpec == Spec /\ Fairness

-----------------------------------------------------------------------------
\* No task is carried out twice, and none is left when the master has joined
\* its slaves, although tasks change buffers while their owners look at them
\* and decide to exit (execute, "assert(task_queues_[i]->size() == 0)").
EachTaskOnce ==
  /\ \A t \in Tasks : did[t] <= 1
  /\ mpc = "idle" /\ ran =>
       /\ \A t \in Tasks : did[t] = 1
       /\ \A s \in Slaves : size(s) = 0

\* Every execution ends: neither full buffers nor slaves that wait for one
\* another's locks stop it (master_enqueue_task, work_steal).
ExecutionEnds == mpc = "deal" ~> mpc = "idle"
=============================================================================
