------------------------------- MODULE GCMaster -------------------------------
(***************************************************************************)
(* When the collector runs and when mutators wait for it: gc_check and     *)
(* launch_gc_master, the outer loop of gc_cache, mutator_wait_for_gc_cache *)
(* (src/manager.cpp, inc/internal/manager.ipp) and the check at the start  *)
(* of DerefScope::enter.                                                   *)
(*                                                                         *)
(* A mutator that takes a region from the free list and leaves it low      *)
(* spawns a collector thread, unless one is active or spawned; when it     *)
(* leaves almost nothing, it sets almost_empty, and whoever wants to enter *)
(* a scope, or finds no free region, sleeps until a collector clears it.   *)
(* Both flags and the length of the free list are read without a lock.     *)
(*                                                                         *)
(* Regions are counted, not named: free list, used list, regions of the    *)
(* current round, and the region each mutator's core allocates from.  What *)
(* a round does with the objects is the subject of Evacuator.              *)
(***************************************************************************)
EXTENDS Integers, FiniteSets

CONSTANTS
  Threads,      \* mutator threads, one per core
  Masters,      \* threads spawned to run gc_cache
  NumRegions,   \* local regions
  AlmostEmpty,  \* kFreeCacheAlmostEmptyThresh, in regions
  Low,          \* kFreeCacheLowThresh
  High,         \* kFreeCacheHighThresh
  MaxPerRound   \* kMaxNumRegionsPerGCRound

ASSUME ThresholdsAssumption ==
  /\ {AlmostEmpty, Low, High, MaxPerRound, NumRegions} \subseteq Nat
  /\ AlmostEmpty < Low /\ Low < High
  /\ MaxPerRound > 0
\* The constructor refuses a cache without regions left for the free list; the
\* collector can only finish when that many regions can be free.
ASSUME RegionsAssumption ==
  IsFiniteSet(Threads) /\ Cardinality(Threads) + High <= NumRegions

VARIABLES
  free,          \* length of free_regions_
  used,          \* length of used_regions_ and nt_used_regions_
  from,          \* number of regions in from_regions_
  local,         \* [Threads -> does its core have a region to allocate from?]
  almost_empty,
  active,        \* gc_master_active
  spawned,       \* gc_master_spawned_
  pc,            \* [Threads -> where the mutator is]
  blocking,      \* [Threads -> is its allocation one that waits for memory?]
  inside,        \* [Threads -> in a DerefScope?]
  entering,      \* [Threads -> is it waiting in DerefScope::enter?]
  reading,       \* [Threads -> what is_free_cache_almost_empty told gc_check]
  gpc,           \* [Masters -> where the collector thread is]
  old,           \* threads in a scope of the status the collector waits for
  exited,        \* the process ran out of space and called exit
  races          \* history: decisions taken on outdated reads (see below)

regionVars == <<free, used, from, local>>
flagVars == <<almost_empty, active, spawned>>
threadVars == <<pc, blocking, inside, entering, reading>>
vars == <<regionVars, flagVars, threadVars, gpc, old, exited, races>>

\* What nothing in the code prevents; each is recorded when it happens.
\*   unset_flag   gc_master_spawned_ starts out true: it is never initialised
\*   stale_empty  almost_empty is set although the collector has refilled the
\*                free list since it was measured
\*   stale_spawn  a collector is spawned although one has come and gone, or is
\*                active, since gc_master_active was read
\*   late_low     no collector is spawned because one is active, but that one
\*                has already decided to stop
Races == {"unset_flag", "stale_empty", "stale_spawn", "late_low"}

TypeOK ==
  /\ {free, used, from} \subseteq 0..NumRegions
  /\ local \in [Threads -> BOOLEAN]
  /\ {almost_empty, active, spawned, exited} \subseteq BOOLEAN
  /\ pc \in [Threads -> {"idle", "refill", "wait", "sleep", "woken", "check",
                         "measure", "publish", "launch", "spawn"}]
  /\ blocking \in [Threads -> BOOLEAN]
  /\ inside \in [Threads -> BOOLEAN]
  /\ entering \in [Threads -> BOOLEAN]
  /\ reading \in [Threads -> BOOLEAN]
  /\ gpc \in [Masters -> {"none", "start", "cas", "loop", "round", "observe",
                          "free", "signal", "stop", "stopping"}]
  /\ old \subseteq Threads
  /\ races \subseteq Races

is_free_cache_low == free <= Low
is_free_cache_almost_empty == free <= AlmostEmpty
is_free_cache_high == free >= High

Record(race, happens) == races' = races \cup (IF happens THEN {race} ELSE {})
Goto(t, l) == pc' = [pc EXCEPT ![t] = l]
GGoto(g, l) == gpc' = [gpc EXCEPT ![g] = l]

-----------------------------------------------------------------------------
(* Mutators: scopes and allocation.                                        *)

\* DerefScope::enter, with its wait when memory is almost exhausted.
Enter(t) ==
  /\ pc[t] = "idle"
  /\ ~inside[t]
  /\ IF almost_empty
     THEN /\ Goto(t, "wait")
          /\ entering' = [entering EXCEPT ![t] = TRUE]
          /\ UNCHANGED inside
     ELSE /\ inside' = [inside EXCEPT ![t] = TRUE]
          /\ UNCHANGED <<pc, entering>>
  /\ UNCHANGED <<regionVars, flagVars, blocking, reading, gpc, old, races>>

Exit(t) ==
  /\ pc[t] = "idle"
  /\ inside[t]
  /\ inside' = [inside EXCEPT ![t] = FALSE]
  /\ old' = old \ {t}
  /\ UNCHANGED <<regionVars, flagVars, pc, blocking, entering, reading, gpc,
                 races>>

\* allocate_local_object, or its non-blocking variant, finds the core's region
\* full.
Allocate(t) ==
  /\ pc[t] = "idle"
  /\ \E b \in BOOLEAN : blocking' = [blocking EXCEPT ![t] = b]
  /\ Goto(t, "refill")
  /\ UNCHANGED <<regionVars, flagVars, inside, entering, reading, gpc, old,
                 races>>

\* try_refill_core_local_free_region: the full region goes to the used list, a
\* free one, if there is any, takes its place.  An allocation that returns,
\* with or without memory, calls gc_check.
Refill(t) ==
  /\ pc[t] = "refill"
  /\ used' = IF local[t] THEN used + 1 ELSE used
  /\ local' = [local EXCEPT ![t] = free > 0]
  /\ free' = IF free > 0 THEN free - 1 ELSE free
  /\ Goto(t, IF free = 0 /\ blocking[t] THEN "wait" ELSE "check")
  /\ blocking' = [blocking EXCEPT ![t] = @ /\ free = 0]
  /\ UNCHANGED <<from, flagVars, inside, entering, reading, gpc, old, races>>

-----------------------------------------------------------------------------
(* Mutators: waiting for the collector.                                    *)

\* Back to where mutator_wait_for_gc_cache was called: enter goes on whatever
\* the flag says, the allocation tries again.
Resume(t) ==
  /\ Goto(t, IF entering[t] THEN "idle" ELSE "refill")
  /\ entering' = [entering EXCEPT ![t] = FALSE]
  /\ inside' = [inside EXCEPT ![t] = @ \/ entering[t]]

\* mutator_wait_for_gc_cache, with gc_lock_: return, exit the process, sleep.
mutator_wait_for_gc_cache(t) ==
  /\ pc[t] = "wait"
  /\ \/ /\ ~almost_empty
        /\ Resume(t)
        /\ UNCHANGED exited
     \/ /\ almost_empty /\ inside[t]
        /\ exited' = TRUE
        /\ UNCHANGED <<pc, entering, inside>>
     \/ /\ almost_empty /\ ~inside[t]
        /\ Goto(t, "sleep")
        /\ UNCHANGED <<entering, inside, exited>>
  /\ UNCHANGED <<regionVars, flagVars, blocking, reading, gpc, old, races>>

\* The condition variable hands gc_lock_ back: look at the flag again.
WakeUp(t) ==
  /\ pc[t] = "woken"
  /\ IF almost_empty THEN /\ Goto(t, "sleep")
                          /\ UNCHANGED <<entering, inside>>
                     ELSE Resume(t)
  /\ UNCHANGED <<regionVars, flagVars, blocking, reading, gpc, old, races>>

-----------------------------------------------------------------------------
(* Mutators: gc_check and launch_gc_master, after a refill.                *)

CheckLow(t) ==
  /\ pc[t] = "check"
  /\ Goto(t, IF is_free_cache_low THEN "measure" ELSE "idle")
  /\ UNCHANGED <<regionVars, flagVars, blocking, inside, entering, reading, gpc,
                 old, races>>

Measure(t) ==
  /\ pc[t] = "measure"
  /\ reading' = [reading EXCEPT ![t] = is_free_cache_almost_empty]
  /\ Goto(t, "publish")
  /\ UNCHANGED <<regionVars, flagVars, blocking, inside, entering, gpc, old, races>>

\* almost_empty is assigned without gc_lock_ and without a signal.
PublishEmpty(t) ==
  /\ pc[t] = "publish"
  /\ almost_empty' = reading[t]
  /\ Record("stale_empty", reading[t] /\ ~is_free_cache_almost_empty)
  /\ reading' = [reading EXCEPT ![t] = FALSE]
  /\ Goto(t, "launch")
  /\ UNCHANGED <<regionVars, active, spawned, blocking, inside, entering, gpc,
                 old>>

\* launch_gc_master: nothing to do when a master is active ...
Launch(t) ==
  /\ pc[t] = "launch"
  /\ Goto(t, IF active THEN "idle" ELSE "spawn")
  /\ Record("late_low", active /\ \E g \in Masters : gpc[g] \in {"stop", "stopping"})
  /\ UNCHANGED <<regionVars, flagVars, blocking, inside, entering, reading, gpc,
                 old>>

Spawn_NoFlag(t) ==
  /\ pc[t] = "spawn"
  /\ \E g \in Masters : gpc[g] = "none" /\ GGoto(g, "start")
  /\ Record("stale_spawn", active \/ ~is_free_cache_low)
  /\ Goto(t, "idle")
  /\ UNCHANGED <<regionVars, flagVars, blocking, inside, entering, reading, old>>

\* ... otherwise whoever sets gc_master_spawned_ spawns one.
Spawn(t) ==
  /\ pc[t] = "spawn"
  /\ IF spawned
     THEN UNCHANGED <<spawned, gpc, races>>
     ELSE /\ spawned' = TRUE
          /\ \E g \in Masters : gpc[g] = "none" /\ GGoto(g, "start")
          /\ Record("stale_spawn", active \/ ~is_free_cache_low)
  /\ Goto(t, "idle")
  /\ UNCHANGED <<regionVars, almost_empty, active, blocking, inside, entering,
                 reading, old>>

-----------------------------------------------------------------------------
(* Collector threads: gc_cache.                                            *)

\* An early return leaves gc_master_spawned_ as it is.
StartMaster(g) ==
  /\ gpc[g] = "start"
  /\ GGoto(g, IF is_free_cache_low THEN "cas" ELSE "none")
  /\ UNCHANGED <<regionVars, flagVars, threadVars, old, races>>

BecomeMaster_NoCAS(g) ==
  /\ gpc[g] = "cas"
  /\ active' = TRUE
  /\ GGoto(g, "loop")
  /\ UNCHANGED <<regionVars, almost_empty, spawned, threadVars, old, races>>

\* "No more than 1 active gc master thread": compare-and-swap.
BecomeMaster(g) ==
  /\ gpc[g] = "cas"
  /\ active' = TRUE
  /\ GGoto(g, IF active THEN "none" ELSE "loop")
  /\ UNCHANGED <<regionVars, almost_empty, spawned, threadVars, old, races>>

\* Until the free list is high: pick at least one region, at most as many as
\* the ratios allow; nothing to pick means to look again.
PickRegions(g) ==
  /\ gpc[g] = "loop"
  /\ ~is_free_cache_high
  /\ \E k \in 1..MaxPerRound :
       /\ k <= used
       /\ from' = k
       /\ used' = used - k
  /\ GGoto(g, "round")
  /\ UNCHANGED <<free, local, flagVars, threadVars, old, races>>

\* Everything is marked: the round waits for the threads in a scope now.
FlipExpected(g) ==
  /\ gpc[g] = "round"
  /\ old' = {t \in Threads : inside[t]}
  /\ GGoto(g, "observe")
  /\ UNCHANGED <<regionVars, flagVars, threadVars, races>>

\* They are gone, the regions are written back.
EndRound(g) ==
  /\ gpc[g] = "observe"
  /\ old = {}
  /\ GGoto(g, "free")
  /\ UNCHANGED <<regionVars, flagVars, threadVars, old, races>>

PushRegion_OneMore(g) ==
  /\ gpc[g] = "free"
  /\ free' = free + 1
  /\ from' = from - 1
  /\ GGoto(g, IF from = 0 THEN "signal" ELSE "free")
  /\ UNCHANGED <<used, local, flagVars, threadVars, old, races>>

\* push_cache_free_region, region by region.
PushRegion(g) ==
  /\ gpc[g] = "free"
  /\ free' = free + 1
  /\ from' = from - 1
  /\ GGoto(g, IF from = 1 THEN "signal" ELSE "free")
  /\ UNCHANGED <<used, local, flagVars, threadVars, old, races>>

Signal_One(g) ==
  /\ gpc[g] = "signal"
  /\ IF is_free_cache_almost_empty
     THEN UNCHANGED <<almost_empty, pc>>
     ELSE /\ almost_empty' = FALSE
          /\ LET sleepers == {t \in Threads : pc[t] = "sleep"}
             IN IF sleepers = {} THEN UNCHANGED pc
                ELSE \E t \in sleepers : Goto(t, "woken")
  /\ GGoto(g, "loop")
  /\ UNCHANGED <<regionVars, active, spawned, blocking, inside, entering, reading,
                 old, races>>

\* With gc_lock_: clear the flag and wake everybody up.
Signal(g) ==
  /\ gpc[g] = "signal"
  /\ IF is_free_cache_almost_empty
     THEN UNCHANGED <<almost_empty, pc>>
     ELSE /\ almost_empty' = FALSE
          /\ pc' = [t \in Threads |-> IF pc[t] = "sleep" THEN "woken" ELSE pc[t]]
  /\ GGoto(g, "loop")
  /\ UNCHANGED <<regionVars, active, spawned, blocking, inside, entering, reading,
                 old, races>>

LeaveLoop(g) ==
  /\ gpc[g] = "loop"
  /\ is_free_cache_high
  /\ GGoto(g, "stop")
  /\ UNCHANGED <<regionVars, flagVars, threadVars, old, races>>

ClearSpawned_Forgotten(g) ==
  /\ gpc[g] = "stop"
  /\ GGoto(g, "stopping")
  /\ UNCHANGED <<regionVars, flagVars, threadVars, old, races>>

\* Final cleanup: first gc_master_spawned_, then gc_master_active.
ClearSpawned(g) ==
  /\ gpc[g] = "stop"
  /\ spawned' = FALSE
  /\ GGoto(g, "stopping")
  /\ UNCHANGED <<regionVars, almost_empty, active, threadVars, old, races>>

ClearActive(g) ==
  /\ gpc[g] = "stopping"
  /\ active' = FALSE
  /\ GGoto(g, "none")
  /\ UNCHANGED <<regionVars, almost_empty, spawned, threadVars, old, races>>

-----------------------------------------------------------------------------
Init ==
  /\ free = NumRegions - Cardinality(Threads)
  /\ used = 0
  /\ from = 0
  /\ local = [t \in Threads |-> TRUE]
  /\ almost_empty = FALSE
  /\ active = FALSE
  /\ spawned \in BOOLEAN
  /\ pc = [t \in Threads |-> "idle"]
  /\ blocking = [t \in Threads |-> FALSE]
  /\ inside = [t \in Threads |-> FALSE]
  /\ entering = [t \in Threads |-> FALSE]
  /\ reading = [t \in Threads |-> FALSE]
  /\ gpc = [g \in Masters |-> "none"]
  /\ old = {}
  /\ exited = FALSE
  /\ races = IF spawned THEN {"unset_flag"} ELSE {}

\* The application may begin an operation at any time ...
Begin(t) == ~exited /\ UNCHANGED exited /\ (Enter(t) \/ Allocate(t))

\* ... leaves its scopes, and goes on with what it has begun.
Leave(t) == ~exited /\ UNCHANGED exited /\ Exit(t)
Proceed(t) ==
  /\ ~exited
  /\ \/ mutator_wait_for_gc_cache(t)
     \/ /\ UNCHANGED exited
        /\ \/ Refill(t) \/ WakeUp(t) \/ CheckLow(t) \/ Measure(t)
           \/ PublishEmpty(t) \/ Launch(t) \/ Spawn(t)

gc_cache(g) ==
  /\ ~exited
  /\ UNCHANGED exited
  /\ \/ StartMaster(g) \/ BecomeMaster(g) \/ PickRegions(g) \/ FlipExpected(g)
     \/ EndRound(g) \/ PushRegion(g) \/ Signal(g) \/ LeaveLoop(g) \/ ClearSpawned(g)
     \/ ClearActive(g)

Next ==
  \/ \E t \in Threads : Begin(t) \/ Leave(t) \/ Proceed(t)
  \/ \E g \in Masters : gc_cache(g)

Spec == Init /\ [][Next]_vars

\* Every thread goes on; a scope is left in the end even if its thread keeps
\* allocating in it.
Fairness ==
  /\ \A t \in Threads : WF_vars(Proceed(t)) /\ SF_vars(Leave(t))
  /\ \A g \in Masters : WF_vars(gc_cache(g))

FairSpec == Spec /\ Fairness

-----------------------------------------------------------------------------
Active(g) == gpc[g] \in {"loop", "round", "observe", "free", "signal", "stop",
                       "stopping"}

\* Never two masters at work, whatever races let more than one be spawned:
\* gc_cache, "No more than 1 active gc master thread".
OneMaster == \A g, h \in Masters : Active(g) /\ Active(h) => g = h

\* gc_master_spawned_ bounds the threads even though it is cleared before the
\* master is gone: launch_gc_master, "Prevent too many spawned threads".
FewMasters == Cardinality({g \in Masters : gpc[g] # "none"}) <= 2

\* A collector will still go through Signal, or a mutator is about to spawn one.
HelpComing ==
  \/ \E g \in Masters : gpc[g] \in {"start", "cas", "loop", "round", "observe",
                                    "free", "signal"}
  \/ \E t \in Threads : pc[t] \in {"publish", "launch", "spawn"}

\* Nobody sleeps, or is told to, without a collector under way to wake him up
\* (mutator_wait_for_gc_cache, gc_check), unless one of the races happened.
SleepersHaveHelp ==
  races = {} /\ ~exited =>
    /\ almost_empty => HelpComing
    /\ \A t \in Threads : pc[t] = "sleep" => HelpComing

\* Somebody sleeps, nobody allocates, and no race has happened.
Paused ==
  /\ ~exited /\ races = {}
  /\ \E t \in Threads : pc[t] = "sleep"
  /\ \A t \in Threads : pc[t] \in {"sleep", "idle"}

\* Nobody sleeps for ever while the collector has all the time it needs: unless
\* one of the races happened, every pause ends, or another thread keeps taking
\* the regions the collector frees (mutator_wait_for_gc_cache).
PauseEnds == []<>~Paused
=============================================================================
