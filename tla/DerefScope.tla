------------------------------ MODULE DerefScope ------------------------------
(***************************************************************************)
(* The counters behind dereference scopes: DerefScope::enter, exit and     *)
(* get_num_threads (inc/internal/deref_scope.ipp) and                      *)
(* wait_mutators_observation (src/manager.cpp).                            *)
(*                                                                         *)
(* Every core has a counter of threads per status, changed by one          *)
(* instruction of the thread that runs on it.  A thread can enter on one   *)
(* core and exit on another, so a counter alone means nothing, not even    *)
(* its sign: only the sum over the cores does, and the collector adds it   *)
(* up core by core while the threads go on.                                *)
(***************************************************************************)
EXTENDS Integers, FiniteSets

CONSTANTS
  Threads,    \* mutator threads
  NumCPUs,    \* helpers::kNumCPUs, cores 1..NumCPUs
  MaxDrift    \* bound: how far a counter moves from 0

ASSUME CPUsAssumption == NumCPUs \in Nat \ {0}
ASSUME DriftAssumption == MaxDrift \in Nat \ {0}
ASSUME ThreadsAssumption == IsFiniteSet(Threads)

CPUs == 1..NumCPUs
InScope == {"V0", "V1"}
flip_status(s) == IF s = "V0" THEN "V1" ELSE "V0"

VARIABLES
  expected,  \* expected_status
  status,    \* [Threads -> the thread's own status]
  pc,        \* [Threads -> between which instructions of enter and exit]
  core,      \* [Threads -> the core the thread runs on]
  num,       \* [CPUs -> num_threads_on_status of the core]
  gc,        \* collector: outside the wait, or scanning the counters
  next,      \* the core get_num_threads reads next
  sum,       \* what it has added up so far
  late       \* history: a thread was counted under a status not expected

threadVars == <<status, pc, core>>
scanVars == <<next, sum>>
vars == <<expected, threadVars, num, gc, scanVars, late>>

TypeOK ==
  /\ expected \in InScope
  /\ status \in [Threads -> InScope \cup {"Out"}]
  /\ pc \in [Threads -> {"out", "entering", "in", "exiting"}]
  /\ core \in [Threads -> CPUs]
  /\ num \in [CPUs -> [InScope -> -MaxDrift..MaxDrift]]
  /\ gc \in {"run", "scan"}
  /\ next \in 1..(NumCPUs + 1)
  /\ sum \in Int
  /\ late \in BOOLEAN

-----------------------------------------------------------------------------
(* Mutators.                                                               *)

\* One instruction changes the counter of the core the thread is on.
Count(t, s, d) ==
  /\ num[core[t]][s] + d \in -MaxDrift..MaxDrift
  /\ num' = [num EXCEPT ![core[t]][s] = @ + d]

\* enter: read expected_status, set the thread's status ...
EnterSnapshot(t) ==
  /\ pc[t] = "out"
  /\ status' = [status EXCEPT ![t] = expected]
  /\ pc' = [pc EXCEPT ![t] = "entering"]
  /\ UNCHANGED <<expected, core, num, gc, scanVars, late>>

\* ... incl num_threads_on_status[snapshot].
EnterCount(t) ==
  /\ pc[t] = "entering"
  /\ Count(t, status[t], 1)
  /\ pc' = [pc EXCEPT ![t] = "in"]
  /\ late' = (late \/ status[t] # expected)
  /\ UNCHANGED <<expected, status, core, gc, scanVars>>

ExitCount_Expected(t) ==
  /\ pc[t] = "in"
  /\ Count(t, expected, -1)
  /\ pc' = [pc EXCEPT ![t] = "exiting"]
  /\ UNCHANGED <<expected, status, core, gc, scanVars, late>>

\* exit: decl num_threads_on_status[old_th_status] ...
ExitCount(t) ==
  /\ pc[t] = "in"
  /\ Count(t, status[t], -1)
  /\ pc' = [pc EXCEPT ![t] = "exiting"]
  /\ UNCHANGED <<expected, status, core, gc, scanVars, late>>

\* ... set_self_th_status(OutofScope); a yield changes nothing here.
ExitStatus(t) ==
  /\ pc[t] = "exiting"
  /\ status' = [status EXCEPT ![t] = "Out"]
  /\ pc' = [pc EXCEPT ![t] = "out"]
  /\ UNCHANGED <<expected, core, num, gc, scanVars, late>>

\* The scheduler resumes the thread on another core.
Migrate(t) ==
  /\ \E c \in CPUs \ {core[t]} : core' = [core EXCEPT ![t] = c]
  /\ UNCHANGED <<expected, status, pc, num, gc, scanVars, late>>

-----------------------------------------------------------------------------
(* The collector.                                                          *)

StartScan == next' = 1 /\ sum' = 0

\* wait_mutators_observation: flip the expected status, start to count.
FlipExpected ==
  /\ gc = "run"
  /\ expected' = flip_status(expected)
  /\ gc' = "scan"
  /\ StartScan
  /\ UNCHANGED <<threadVars, num, late>>

get_num_threads_SkipsFirst ==
  /\ gc = "scan"
  /\ next <= NumCPUs
  /\ sum' = IF next = 1 THEN sum ELSE sum + num[next][flip_status(expected)]
  /\ next' = next + 1
  /\ UNCHANGED <<expected, threadVars, num, gc, late>>

\* get_num_threads(old_status) reads one counter.
get_num_threads ==
  /\ gc = "scan"
  /\ next <= NumCPUs
  /\ sum' = sum + num[next][flip_status(expected)]
  /\ next' = next + 1
  /\ UNCHANGED <<expected, threadVars, num, gc, late>>

\* The sum is complete: the wait ends at zero, otherwise count again.
ScanDone ==
  /\ gc = "scan"
  /\ next = NumCPUs + 1
  /\ gc' = IF sum = 0 THEN "run" ELSE "scan"
  /\ StartScan
  /\ UNCHANGED <<expected, threadVars, num, late>>

-----------------------------------------------------------------------------
Init ==
  /\ expected = "V0"
  /\ status = [t \in Threads |-> "Out"]
  /\ pc = [t \in Threads |-> "out"]
  /\ core \in [Threads -> CPUs]
  /\ num = [c \in CPUs |-> [s \in InScope |-> 0]]
  /\ gc = "run"
  /\ next = 1
  /\ sum = 0
  /\ late = FALSE

Leave(t) == EnterCount(t) \/ ExitCount(t) \/ ExitStatus(t)
Wait == get_num_threads \/ ScanDone

Next ==
  \/ FlipExpected \/ Wait
  \/ \E t \in Threads : EnterSnapshot(t) \/ Leave(t) \/ Migrate(t)

Spec == Init /\ [][Next]_vars

\* The collector goes on counting; a thread that has begun to enter or to exit
\* goes on, and the application leaves every scope it enters.  A thread whose
\* counter is at the bound is the exception the strong fairness is for: it
\* goes on when the scheduler has moved it.
Fairness ==
  /\ WF_vars(Wait)
  /\ \A t \in Threads : SF_vars(Leave(t)) /\ WF_vars(Migrate(t))

FairSpec == Spec /\ Fairness

-----------------------------------------------------------------------------
\* The counters of all cores say which threads the abstract scopes hold.
Scopes == INSTANCE ScopeSpec WITH
  scope <- [t \in Threads |-> IF pc[t] = "in" THEN status[t] ELSE "Out"],
  waiting <- gc = "scan"

\* Counting core by core keeps the promise of ScopeSpec: when the sum that was
\* read is zero, nobody is in a scope of the old status, although no two
\* counters were read at the same time and threads change cores in between
\* (get_num_threads, wait_mutators_observation).
CountsScopes == Scopes!Spec

\* The wait ends: no drift of the counters keeps the sum from reaching zero.
WaitEnds == gc = "scan" ~> gc = "run"
=============================================================================
