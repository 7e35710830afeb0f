------------------------------- MODULE ObjLocker -------------------------------
(***************************************************************************)
(* The locks on object ids: ObjLocker (src/obj_locker.cpp) and the loop of *)
(* FarMemManager::lock_object around it (inc/internal/manager.ipp).        *)
(*                                                                         *)
(* An id is locked while it is in one of the maps.  All ids that hash to   *)
(* the same map share a spin lock and a condition variable, so a thread is *)
(* also woken up when an id it does not want is unlocked.                  *)
(***************************************************************************)
EXTENDS Integers

CONSTANTS
  Threads,
  Ids,        \* object ids, as get_obj_id_fragment cuts them down to 8 bytes
  Maps,       \* maps, spin locks and condition variables, kNumMaps of each
  hash_func,  \* [Ids -> Maps]
  NoId

ASSUME HashAssumption == hash_func \in [Ids -> Maps]
ASSUME NoIdAssumption == NoId \notin Ids

VARIABLES
  locked,   \* the ids in the maps
  stage,    \* [Threads -> "out", "insert", "sleep", "woken" or "in"]
  want      \* [Threads -> the id it is locking, or has locked]

lockerVars == <<locked, stage, want>>

LockerTypeOK ==
  /\ locked \in SUBSET Ids
  /\ stage \in [Threads -> {"out", "insert", "sleep", "woken", "in"}]
  /\ want \in [Threads -> Ids \cup {NoId}]
  /\ \A t \in Threads : want[t] = NoId <=> stage[t] = "out"

lock_object(t, i) ==
  /\ stage[t] = "out"
  /\ stage' = [stage EXCEPT ![t] = "insert"]
  /\ want' = [want EXCEPT ![t] = i]
  /\ UNCHANGED locked

try_insert_NoFind(t) ==
  /\ stage[t] = "insert"
  /\ locked' = locked \cup {want[t]}
  /\ stage' = [stage EXCEPT ![t] = "in"]
  /\ UNCHANGED want

\* With the spin lock: take a free id, or sleep; Wait gives the spin lock up
\* in the same step.
try_insert(t) ==
  /\ stage[t] = "insert"
  /\ IF want[t] \in locked
     THEN /\ stage' = [stage EXCEPT ![t] = "sleep"]
          /\ UNCHANGED locked
     ELSE /\ stage' = [stage EXCEPT ![t] = "in"]
          /\ locked' = locked \cup {want[t]}
  /\ UNCHANGED want

\* Wait has returned, try_insert says no, lock_object tries again.
Again(t) ==
  /\ stage[t] = "woken"
  /\ stage' = [stage EXCEPT ![t] = "insert"]
  /\ UNCHANGED <<locked, want>>

Sleepers(m) == {t \in Threads : stage[t] = "sleep" /\ hash_func[want[t]] = m}

remove_WakesOne(t) ==
  LET some == Sleepers(hash_func[want[t]])
  IN /\ stage[t] = "in"
     /\ locked' = locked \ {want[t]}
     /\ \/ /\ some = {}
           /\ stage' = [stage EXCEPT ![t] = "out"]
        \/ \E u \in some : stage' = [stage EXCEPT ![t] = "out", ![u] = "woken"]
     /\ want' = [want EXCEPT ![t] = NoId]

\* remove: everybody who sleeps on this map is woken up, the id is erased.
remove(t) ==
  LET woken == Sleepers(hash_func[want[t]])
  IN /\ stage[t] = "in"
     /\ locked' = locked \ {want[t]}
     /\ stage' = [u \in Threads |-> IF u = t THEN "out"
                               ELSE IF u \in woken THEN "woken" ELSE stage[u]]
     /\ want' = [want EXCEPT ![t] = NoId]

LockerInit ==
  /\ locked = {}
  /\ stage = [t \in Threads |-> "out"]
  /\ want = [t \in Threads |-> NoId]

LockerStep(t) == try_insert(t) \/ Again(t) \/ remove(t)
LockerNext == \E t \in Threads : LockerStep(t) \/ \E i \in Ids : lock_object(t, i)
LockerSpec == LockerInit /\ [][LockerNext]_lockerVars

\* Every thread goes on, and unlocks what it has locked.
LockerFairSpec == LockerSpec /\ \A t \in Threads : WF_lockerVars(LockerStep(t))

-----------------------------------------------------------------------------
\* An id is locked by exactly one thread, so remove finds it in the map
\* (remove, "assert(iter != maps_[idx].end())").
OneHolder ==
  /\ \A t, u \in Threads :
       stage[t] = "in" /\ stage[u] = "in" /\ want[t] = want[u] => t = u
  /\ \A t \in Threads : stage[t] = "in" => want[t] \in locked
  /\ \A i \in locked : \E t \in Threads : stage[t] = "in" /\ want[t] = i

\* No wake-up is lost: whoever sleeps sleeps for an id that is still locked, so
\* its holder will wake him up, although the condition variable is shared with
\* other ids (try_insert, remove).
SleepersHaveHolder == \A t \in Threads : stage[t] = "sleep" => want[t] \in locked

\* An id somebody wants is locked by somebody in the end, again and again: a
\* single thread may starve, the lock may not.
Progress == \A i \in Ids :
  (\E t \in Threads : want[t] = i) ~> (\E t \in Threads : stage[t] = "in" /\ want[t] = i)
=============================================================================
