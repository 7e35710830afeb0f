---------------------------- MODULE GCMasterProofs ----------------------------
(* Proofs about GCMaster, for any numbers of threads, masters and regions. *)
EXTENDS GCMaster, FiniteSetTheorems, TLAPS

\* gc_master_active is up as long as a master is at work; without this a second
\* master could pass the compare-and-swap.
FlagUp == (\E g \in Masters : Active(g)) => active

Phases == {"none", "start", "cas", "loop", "round", "observe", "free", "signal",
           "stop", "stopping"}

Inv == gpc \in [Masters -> Phases] /\ OneMaster /\ FlagUp

LEMMA MutatorStep ==
  ASSUME Inv, NEW t \in Threads, Begin(t) \/ Leave(t) \/ Proceed(t)
  PROVE  Inv'
<1>1. active' = active
  BY DEF Begin, Leave, Proceed, Enter, Exit, Allocate, Refill, WakeUp, CheckLow,
    Measure, PublishEmpty, Launch, Spawn, mutator_wait_for_gc_cache, flagVars
<1>2. \/ gpc' = gpc
      \/ \E g \in Masters : gpc[g] = "none" /\ gpc' = [gpc EXCEPT ![g] = "start"]
  BY DEF Begin, Leave, Proceed, Enter, Exit, Allocate, Refill, WakeUp, CheckLow,
    Measure, PublishEmpty, Launch, Spawn, mutator_wait_for_gc_cache, GGoto
<1> QED
  BY <1>1, <1>2 DEF Inv, OneMaster, FlagUp, Active, Phases

\* A step of master g that neither begins nor ends its activity.
LEMMA SameActivity ==
  ASSUME Inv, NEW g \in Masters, NEW l, gpc' = [gpc EXCEPT ![g] = l],
         l \in Phases,
         Active(g)' <=> Active(g), active' = active
  PROVE  Inv'
BY DEF Inv, OneMaster, FlagUp, Active, Phases

LEMMA MasterStep ==
  ASSUME Inv, NEW g \in Masters, gc_cache(g)
  PROVE  Inv'
<1> USE DEF Inv, GGoto, flagVars, Phases
<1>1. CASE StartMaster(g)
  <2>1. PICK l \in {"cas", "none"} : gpc' = [gpc EXCEPT ![g] = l]
    BY <1>1 DEF StartMaster
  <2> QED
    BY <1>1, <2>1, SameActivity DEF StartMaster, Active
<1>2. CASE BecomeMaster(g)
  BY <1>2 DEF BecomeMaster, OneMaster, FlagUp, Active
<1>3. CASE PickRegions(g)
  BY <1>3, SameActivity DEF PickRegions, Active
<1>4. CASE EndRound(g)
  BY <1>4, SameActivity DEF EndRound, Active
<1>10. CASE FlipExpected(g)
  BY <1>10, SameActivity DEF FlipExpected, Active
<1>5. CASE PushRegion(g)
  <2>1. PICK l \in {"signal", "free"} : gpc' = [gpc EXCEPT ![g] = l]
    BY <1>5 DEF PushRegion
  <2> QED
    BY <1>5, <2>1, SameActivity DEF PushRegion, Active
<1>6. CASE Signal(g)
  BY <1>6, SameActivity DEF Signal, Active
<1>7. CASE LeaveLoop(g)
  BY <1>7, SameActivity DEF LeaveLoop, Active
<1>8. CASE ClearSpawned(g)
  BY <1>8, SameActivity DEF ClearSpawned, Active
<1>9. CASE ClearActive(g)
  BY <1>9 DEF ClearActive, OneMaster, FlagUp, Active
<1> QED
  BY <1>1, <1>2, <1>3, <1>4, <1>5, <1>6, <1>7, <1>8, <1>9, <1>10 DEF gc_cache

LEMMA InvInit == Init => Inv
BY DEF Init, Inv, OneMaster, FlagUp, Active, Phases

LEMMA InvStep == Inv /\ [Next]_vars => Inv'
<1> SUFFICES ASSUME Inv, [Next]_vars PROVE Inv'
  OBVIOUS
<1>1. CASE UNCHANGED vars
  BY <1>1 DEF Inv, OneMaster, FlagUp, Active, vars, flagVars
<1> QED
  BY <1>1, MutatorStep, MasterStep DEF Next

\* There is never more than one active master, however many threads the races
\* on the two flags spawn.
THEOREM OneMasterHolds == Spec => []OneMaster
<1>1. Inv => OneMaster
  BY DEF Inv
<1> QED
  BY <1>1, InvInit, InvStep, PTL DEF Spec

-----------------------------------------------------------------------------
(* Nobody sleeps without help under way.                                   *)

Labels == {"idle", "refill", "wait", "sleep", "woken", "check", "measure",
           "publish", "launch", "spawn"}

Typed ==
  /\ free \in Nat
  /\ pc \in [Threads -> Labels]
  /\ gpc \in [Masters -> Phases]

\* Somebody sleeps, or will when he looks at almost_empty.
Need == almost_empty \/ \E t \in Threads : pc[t] = "sleep"

\* Without a race there is one collector thread at a time, it was spawned for
\* want of memory and finds it wanting, and the flags tell of it.
OneSpawned ==
  /\ \A g, h \in Masters : gpc[g] # "none" /\ gpc[h] # "none" => g = h
  /\ \A g \in Masters : gpc[g] \in {"start", "cas"} => free <= Low
  /\ \A g \in Masters : gpc[g] \notin {"none", "stopping"} => spawned
  /\ spawned => \E g \in Masters : gpc[g] \notin {"none", "stopping"}
  /\ active <=> \E g \in Masters : Active(g)

\* Memory to be had means that the collector is about to tell; a collector that
\* stops leaves the need to a mutator that has yet to call launch_gc_master.
HelpInTime ==
  /\ Need /\ free > AlmostEmpty =>
       \E g \in Masters : gpc[g] \in {"free", "signal"}
  /\ Need /\ (\E g \in Masters : gpc[g] \in {"stop", "stopping"}) =>
       \E t \in Threads : pc[t] = "launch"
  /\ Need => HelpComing

HInv == Typed /\ (races = {} => OneSpawned /\ HelpInTime)

\* A step of mutator t that touches no flag and no collector: it may take a
\* region, and goes to sleep only if it saw almost_empty.
LEMMA QuietMutator ==
  ASSUME HInv, NEW t \in Threads, NEW l \in Labels,
         pc' = [pc EXCEPT ![t] = l],
         pc[t] \notin {"publish", "launch", "spawn"},
         l = "sleep" => almost_empty,
         free' \in Nat, free' <= free,
         UNCHANGED <<flagVars, gpc, races>>
  PROVE  HInv'
<1> USE ThresholdsAssumption DEF flagVars, Labels
<1>1. Typed'
  BY DEF HInv, Typed
<1> SUFFICES ASSUME races' = {} PROVE OneSpawned' /\ HelpInTime'
  BY <1>1 DEF HInv
<1>2. OneSpawned /\ HelpInTime /\ Typed
  BY DEF HInv
<1>3. OneSpawned'
  BY <1>2 DEF OneSpawned, Active, Typed
<1>4. Need' => Need
  BY <1>2 DEF Need, Typed
<1>5. \A u \in Threads : pc[u] \in {"publish", "launch", "spawn"} => pc'[u] = pc[u]
  BY <1>2 DEF Typed
<1>6. HelpComing => HelpComing'
  BY <1>5 DEF HelpComing
<1>7. HelpInTime'
  BY <1>2, <1>4, <1>5, <1>6 DEF HelpInTime, Typed
<1> QED
  BY <1>3, <1>7

\* The same for a step that takes no region either.
LEMMA LocalMutator ==
  ASSUME HInv, NEW t \in Threads, NEW l \in Labels,
         pc' = [pc EXCEPT ![t] = l],
         pc[t] \notin {"publish", "launch", "spawn"},
         l = "sleep" => almost_empty,
         UNCHANGED <<free, flagVars, gpc, races>>
  PROVE  HInv'
<1>1. free' \in Nat /\ free' <= free
  BY DEF HInv, Typed
<1> QED
  BY <1>1, QuietMutator

\* Every mutator step preserves the invariant: only PublishEmpty, Launch and
\* Spawn bear on it, and each keeps it or records a race.
LEMMA MutatorHelps ==
  ASSUME HInv, NEW t \in Threads, Begin(t) \/ Leave(t) \/ Proceed(t)
  PROVE  HInv'
<1> USE ThresholdsAssumption DEF Goto, regionVars
<1>0. Typed
  BY DEF HInv
<1>1. CASE Enter(t)
  <2>1. CASE almost_empty
    BY <1>0, <1>1, <2>1, LocalMutator DEF Enter, Typed, Labels
  <2>2. CASE ~almost_empty
    BY <1>0, <1>1, <2>2 DEF Enter, HInv, Typed, OneSpawned, HelpInTime, Need,
      HelpComing, Active, flagVars
  <2> QED
    BY <2>1, <2>2
<1>2. CASE Exit(t)
  BY <1>2 DEF Exit, HInv, Typed, OneSpawned, HelpInTime, Need, HelpComing,
    Active, flagVars
<1>3. CASE Allocate(t)
  BY <1>0, <1>3, LocalMutator DEF Allocate, Typed, Labels
<1>4. CASE Refill(t)
  <2>1. free' \in Nat /\ free' <= free
    BY <1>0, <1>4 DEF Refill, Typed
  <2>2. PICK l \in {"check", "wait"} : pc' = [pc EXCEPT ![t] = l]
    BY <1>4 DEF Refill
  <2> QED
    BY <1>4, <2>1, <2>2, QuietMutator DEF Refill, Labels
<1>5. CASE mutator_wait_for_gc_cache(t)
  <2>1. CASE ~almost_empty /\ Resume(t)
    <3>1. PICK l \in {"idle", "refill"} : pc' = [pc EXCEPT ![t] = l]
      BY <2>1 DEF Resume
    <3> QED
      BY <1>0, <1>5, <3>1, LocalMutator DEF mutator_wait_for_gc_cache, Typed, Labels
  <2>2. CASE UNCHANGED pc
    BY <1>5, <2>2 DEF mutator_wait_for_gc_cache, HInv, Typed, OneSpawned,
      HelpInTime, Need, HelpComing, Active, flagVars
  <2>3. CASE almost_empty /\ Goto(t, "sleep")
    BY <1>0, <1>5, <2>3, LocalMutator DEF mutator_wait_for_gc_cache, Typed, Labels
  <2> QED
    BY <1>5, <2>1, <2>2, <2>3 DEF mutator_wait_for_gc_cache
<1>6. CASE WakeUp(t)
  <2>1. PICK l \in {"sleep", "idle", "refill"} :
          pc' = [pc EXCEPT ![t] = l] /\ (l = "sleep" => almost_empty)
    BY <1>6 DEF WakeUp, Resume
  <2> QED
    BY <1>0, <1>6, <2>1, LocalMutator DEF WakeUp, Typed, Labels
<1>7. CASE CheckLow(t)
  <2>1. PICK l \in {"measure", "idle"} : pc' = [pc EXCEPT ![t] = l]
    BY <1>7 DEF CheckLow
  <2> QED
    BY <1>0, <1>7, <2>1, LocalMutator DEF CheckLow, Typed, Labels
<1>8. CASE Measure(t)
  BY <1>0, <1>8, LocalMutator DEF Measure, Typed, Labels
<1>9. CASE PublishEmpty(t)
  <2>1. Typed' /\ races \subseteq races' /\ pc'[t] = "launch"
    BY <1>0, <1>9 DEF PublishEmpty, Typed, Labels, Record
  <2> SUFFICES ASSUME races' = {} PROVE OneSpawned' /\ HelpInTime'
    BY <2>1 DEF HInv
  <2>2. OneSpawned /\ HelpInTime
    BY <2>1 DEF HInv
  <2>3. OneSpawned'
    BY <1>9, <2>2 DEF PublishEmpty, OneSpawned, Active
  <2>4. almost_empty' => free <= AlmostEmpty
    BY <1>0, <1>9 DEF PublishEmpty, Record, is_free_cache_almost_empty, Typed
  <2>5. Need' /\ ~almost_empty' => Need
    BY <1>0, <1>9 DEF PublishEmpty, Need, Typed, Labels
  <2>6. UNCHANGED <<free, gpc>>
    BY <1>9 DEF PublishEmpty
  <2> QED
    BY <1>0, <2>1, <2>2, <2>3, <2>4, <2>5, <2>6 DEF HelpInTime, HelpComing, Typed
<1>10. CASE Launch(t)
  <2>1. Typed' /\ races \subseteq races'
    BY <1>0, <1>10 DEF Launch, Typed, Labels, Record
  <2> SUFFICES ASSUME races' = {} PROVE OneSpawned' /\ HelpInTime'
    BY <2>1 DEF HInv
  <2>2. OneSpawned /\ HelpInTime
    BY <2>1 DEF HInv
  <2>3. OneSpawned'
    BY <1>10, <2>2 DEF Launch, OneSpawned, Active, flagVars
  <2>4. Need' => Need
    BY <1>0, <1>10 DEF Launch, Need, Typed, Labels, flagVars
  <2>5. ~\E g \in Masters : gpc[g] \in {"stop", "stopping"}
    BY <1>10, <2>2 DEF Launch, Record, OneSpawned, Active
  <2>6. HelpComing'
    <3>1. CASE active
      BY <1>10, <2>2, <2>5, <3>1 DEF Launch, OneSpawned, Active, HelpComing
    <3>2. CASE ~active
      BY <1>0, <1>10, <3>2 DEF Launch, HelpComing, Typed
    <3> QED
      BY <3>1, <3>2
  <2> QED
    BY <1>10, <2>2, <2>3, <2>4, <2>5, <2>6 DEF Launch, HelpInTime
<1>11. CASE Spawn(t)
  <2>1. CASE spawned
    <3>1. Typed' /\ races' = races
      BY <1>0, <1>11, <2>1 DEF Spawn, Typed, Labels
    <3> SUFFICES ASSUME races = {} PROVE OneSpawned' /\ HelpInTime'
      BY <3>1 DEF HInv
    <3>2. OneSpawned /\ HelpInTime
      BY DEF HInv
    <3>3. OneSpawned'
      BY <1>11, <2>1, <3>2 DEF Spawn, OneSpawned, Active
    <3>4. Need' => Need
      BY <1>0, <1>11 DEF Spawn, Need, Typed, Labels
    <3>5. \A u \in Threads : pc[u] = "launch" => pc'[u] = "launch"
      BY <1>0, <1>11 DEF Spawn, Typed
    <3>6. PICK g \in Masters : gpc[g] \notin {"none", "stopping"}
      BY <2>1, <3>2 DEF OneSpawned
    <3>7. Need' => HelpComing'
      <4>1. CASE gpc[g] = "stop"
        BY <3>2, <3>4, <3>5, <4>1 DEF HelpInTime, HelpComing
      <4>2. CASE gpc[g] # "stop"
        BY <1>0, <1>11, <2>1, <3>6, <4>2 DEF Spawn, HelpComing, Typed, Phases
      <4> QED
        BY <4>1, <4>2
    <3> QED
      BY <1>11, <2>1, <3>2, <3>3, <3>4, <3>5, <3>7 DEF Spawn, HelpInTime
  <2>2. CASE ~spawned
    <3>1. PICK g \in Masters : gpc[g] = "none" /\ gpc' = [gpc EXCEPT ![g] = "start"]
      BY <1>11, <2>2 DEF Spawn, GGoto
    <3>2. Typed' /\ races \subseteq races'
      BY <1>0, <1>11, <2>2, <3>1 DEF Spawn, Typed, Labels, Phases, Record
    <3> SUFFICES ASSUME races' = {} PROVE OneSpawned' /\ HelpInTime'
      BY <3>2 DEF HInv
    <3>3. OneSpawned /\ HelpInTime
      BY <3>2 DEF HInv
    <3>4. ~active /\ free <= Low
      BY <1>0, <1>11, <2>2 DEF Spawn, Record, is_free_cache_low, Typed
    <3>5. \A h \in Masters : gpc[h] = "none"
      BY <2>2, <3>3, <3>4 DEF OneSpawned, Active
    <3>6. gpc'[g] = "start" /\ \A h \in Masters : h # g => gpc'[h] = "none"
      BY <1>0, <3>1, <3>5 DEF Typed
    <3>7. UNCHANGED <<free, active, almost_empty>> /\ spawned'
      BY <1>11, <2>2 DEF Spawn, regionVars
    <3>8. OneSpawned'
      BY <3>3, <3>4, <3>5, <3>6, <3>7 DEF OneSpawned, Active
    <3>9. Need' => Need
      BY <1>0, <1>11 DEF Spawn, Need, Typed, Labels
    <3> QED
      BY <3>3, <3>5, <3>6, <3>7, <3>8, <3>9 DEF HelpInTime, HelpComing
  <2> QED
    BY <2>1, <2>2
<1> QED
  BY <1>1, <1>2, <1>3, <1>4, <1>5, <1>6, <1>7, <1>8, <1>9, <1>10, <1>11
    DEF Begin, Leave, Proceed

\* Every collector step preserves it: without races g is the only collector.
LEMMA MasterHelps ==
  ASSUME HInv, NEW g \in Masters, gc_cache(g)
  PROVE  HInv'
<1> USE ThresholdsAssumption
<1>1. races' = races /\ Typed
  BY DEF gc_cache, StartMaster, BecomeMaster, PickRegions, FlipExpected,
    EndRound, PushRegion, Signal, LeaveLoop, ClearSpawned, ClearActive, HInv
<1>2. Typed'
  <2>1. free' \in Nat
    BY <1>1 DEF gc_cache, StartMaster, BecomeMaster, PickRegions, FlipExpected,
      EndRound, PushRegion, Signal, LeaveLoop, ClearSpawned, ClearActive, Typed, regionVars
  <2>2. pc' \in [Threads -> Labels]
    BY <1>1 DEF gc_cache, StartMaster, BecomeMaster, PickRegions, FlipExpected,
      EndRound, PushRegion, Signal, LeaveLoop, ClearSpawned, ClearActive, Typed, Labels,
      threadVars
  <2>3. gpc' \in [Masters -> Phases]
    BY <1>1 DEF gc_cache, StartMaster, BecomeMaster, PickRegions, FlipExpected,
      EndRound, PushRegion, Signal, LeaveLoop, ClearSpawned, ClearActive, Typed, GGoto, Phases
  <2> QED
    BY <2>1, <2>2, <2>3 DEF Typed
<1> SUFFICES ASSUME races = {} PROVE OneSpawned' /\ HelpInTime'
  BY <1>1, <1>2 DEF HInv
<1>3. OneSpawned /\ HelpInTime
  BY DEF HInv
<1>4. gpc[g] # "none"
  BY DEF gc_cache, StartMaster, BecomeMaster, PickRegions, FlipExpected,
    EndRound, PushRegion, Signal, LeaveLoop, ClearSpawned, ClearActive
<1>5. \A h \in Masters : h # g => gpc[h] = "none"
  BY <1>3, <1>4 DEF OneSpawned
<1>6. ASSUME NEW l \in Phases, GGoto(g, l)
      PROVE  gpc'[g] = l /\ \A h \in Masters : h # g => gpc'[h] = "none"
  BY <1>1, <1>5, <1>6 DEF Typed, GGoto
<1> USE DEF Phases
<1>7. CASE StartMaster(g)
  <2>1. GGoto(g, "cas") /\ UNCHANGED <<free, flagVars, pc>>
    BY <1>3, <1>7 DEF StartMaster, OneSpawned, is_free_cache_low, regionVars, threadVars
  <2>2. gpc'[g] = "cas" /\ \A h \in Masters : h # g => gpc'[h] = "none"
    BY <1>6, <2>1
  <2> QED
    BY <1>3, <1>5, <1>7, <2>1, <2>2 DEF StartMaster, OneSpawned, HelpInTime, Need,
      HelpComing, Active, flagVars
<1>8. CASE BecomeMaster(g)
  <2>1. ~active
    BY <1>3, <1>5, <1>8 DEF BecomeMaster, OneSpawned, Active
  <2>2. gpc'[g] = "loop" /\ \A h \in Masters : h # g => gpc'[h] = "none"
    BY <1>6, <1>8, <2>1 DEF BecomeMaster
  <2> QED
    BY <1>3, <1>5, <1>8, <2>2 DEF BecomeMaster, OneSpawned, HelpInTime, Need,
      HelpComing, Active, regionVars, threadVars
<1>9. CASE PickRegions(g)
  <2>2. gpc'[g] = "round" /\ \A h \in Masters : h # g => gpc'[h] = "none"
    BY <1>6, <1>9 DEF PickRegions
  <2> QED
    BY <1>3, <1>5, <1>9, <2>2 DEF PickRegions, OneSpawned, HelpInTime, Need,
      HelpComing, Active, flagVars, threadVars
<1>16. CASE FlipExpected(g)
  <2>2. gpc'[g] = "observe" /\ \A h \in Masters : h # g => gpc'[h] = "none"
    BY <1>6, <1>16 DEF FlipExpected
  <2> QED
    BY <1>3, <1>5, <1>16, <2>2 DEF FlipExpected, OneSpawned, HelpInTime, Need,
      HelpComing, Active, flagVars, threadVars, regionVars
<1>10. CASE EndRound(g)
  <2>2. gpc'[g] = "free" /\ \A h \in Masters : h # g => gpc'[h] = "none"
    BY <1>6, <1>10 DEF EndRound
  <2> QED
    BY <1>3, <1>5, <1>10, <2>2 DEF EndRound, OneSpawned, HelpInTime, Need,
      HelpComing, Active, flagVars, threadVars, regionVars
<1>11. CASE PushRegion(g)
  <2>1. PICK l \in {"signal", "free"} : GGoto(g, l)
    BY <1>11 DEF PushRegion
  <2>2. gpc'[g] = l /\ \A h \in Masters : h # g => gpc'[h] = "none"
    BY <1>6, <2>1
  <2> QED
    BY <1>3, <1>5, <1>11, <2>2 DEF PushRegion, OneSpawned, HelpInTime, Need,
      HelpComing, Active, flagVars, threadVars
<1>12. CASE Signal(g)
  <2>1. gpc'[g] = "loop" /\ \A h \in Masters : h # g => gpc'[h] = "none"
    BY <1>6, <1>12 DEF Signal
  <2>2. OneSpawned'
    BY <1>3, <1>5, <1>12, <2>1 DEF Signal, OneSpawned, Active, regionVars
  <2>3. HelpComing'
    BY <2>1 DEF HelpComing
  <2>4. Need' => free' <= AlmostEmpty
    <3>1. CASE is_free_cache_almost_empty
      BY <1>12, <3>1 DEF Signal, is_free_cache_almost_empty, regionVars
    <3>2. CASE ~is_free_cache_almost_empty
      BY <1>1, <1>12, <3>2 DEF Signal, Need, Typed
    <3> QED
      BY <3>1, <3>2
  <2> QED
    BY <1>2, <2>1, <2>2, <2>3, <2>4 DEF HelpInTime, Typed
<1>13. CASE LeaveLoop(g)
  <2>1. gpc'[g] = "stop" /\ \A h \in Masters : h # g => gpc'[h] = "none"
    BY <1>6, <1>13 DEF LeaveLoop
  <2>2. free > AlmostEmpty
    BY <1>1, <1>13 DEF LeaveLoop, is_free_cache_high, Typed
  <2>3. ~Need
    BY <1>3, <1>5, <1>13, <2>2 DEF LeaveLoop, HelpInTime
  <2> QED
    BY <1>3, <1>5, <1>13, <2>1, <2>3 DEF LeaveLoop, OneSpawned, HelpInTime, Need,
      Active, flagVars, threadVars, regionVars
<1>14. CASE ClearSpawned(g)
  <2>1. gpc'[g] = "stopping" /\ \A h \in Masters : h # g => gpc'[h] = "none"
    BY <1>6, <1>14 DEF ClearSpawned
  <2> QED
    BY <1>3, <1>5, <1>14, <2>1 DEF ClearSpawned, OneSpawned, HelpInTime, Need,
      HelpComing, Active, threadVars, regionVars
<1>15. CASE ClearActive(g)
  <2>1. gpc'[g] = "none" /\ \A h \in Masters : h # g => gpc'[h] = "none"
    BY <1>6, <1>15 DEF ClearActive
  <2> QED
    BY <1>3, <1>5, <1>15, <2>1 DEF ClearActive, OneSpawned, HelpInTime, Need,
      HelpComing, Active, threadVars, regionVars
<1> QED
  BY <1>7, <1>8, <1>9, <1>10, <1>11, <1>12, <1>13, <1>14, <1>15, <1>16
    DEF gc_cache

\* Unless one of the recorded races happens, nobody sleeps, or is told to,
\* without a collector under way, for any thresholds in the code's order.
THEOREM SleepersHaveHelpHolds == Spec => []SleepersHaveHelp
<1>1. Init => HInv
  <2> SUFFICES ASSUME Init PROVE HInv
    OBVIOUS
  <2>1. Cardinality(Threads) \in Nat
    BY RegionsAssumption, FS_CardinalityType
  <2>2. free \in Nat
    BY <2>1, RegionsAssumption, ThresholdsAssumption DEF Init
  <2> QED
    BY <2>2 DEF Init, HInv, Typed, Labels, Phases, OneSpawned, HelpInTime, Need, Active
<1>2. HInv /\ [Next]_vars => HInv'
  <2> SUFFICES ASSUME HInv, [Next]_vars PROVE HInv'
    OBVIOUS
  <2>1. CASE UNCHANGED vars
    BY <2>1 DEF HInv, Typed, OneSpawned, HelpInTime, Need, HelpComing, Active,
      vars, flagVars, threadVars, regionVars
  <2> QED
    BY <2>1, MutatorHelps, MasterHelps DEF Next
<1>3. HInv => SleepersHaveHelp
  BY DEF HInv, HelpInTime, Need, SleepersHaveHelp
<1> QED
  BY <1>1, <1>2, <1>3, PTL DEF Spec

-----------------------------------------------------------------------------
(* Two collector threads at most.                                          *)

\* A collector thread that has yet to clear gc_master_spawned_.
Pending(g) == gpc[g] \notin {"none", "stopping"}

\* There is one such thread at most, and the flag tells of it.
FlagGuards ==
  /\ \A g, h \in Masters : Pending(g) /\ Pending(h) => g = h
  /\ (\E g \in Masters : Pending(g)) => spawned

LEMMA GuardsInit == Init => FlagGuards
BY DEF Init, FlagGuards, Pending

LEMMA GuardsStep ==
  ASSUME Inv, FlagGuards, [Next]_vars PROVE FlagGuards'
<1>1. ASSUME NEW t \in Threads, Begin(t) \/ Leave(t) \/ Proceed(t) PROVE FlagGuards'
  <2>1. CASE UNCHANGED <<gpc, spawned>>
    BY <2>1 DEF FlagGuards, Pending
  <2>2. CASE Spawn(t) /\ ~spawned
    <3>1. PICK g \in Masters : gpc' = [gpc EXCEPT ![g] = "start"]
      BY <2>2 DEF Spawn, GGoto
    <3>2. spawned'
      BY <2>2 DEF Spawn
    <3>3. \A h \in Masters : ~Pending(h)
      BY <2>2 DEF FlagGuards
    <3> QED
      BY <3>1, <3>2, <3>3 DEF FlagGuards, Pending, Inv
  <2>3. UNCHANGED <<gpc, spawned>> \/ (Spawn(t) /\ ~spawned)
    BY <1>1 DEF Begin, Leave, Proceed, Enter, Exit, Allocate, Refill, WakeUp, CheckLow,
      Measure, PublishEmpty, Launch, Spawn, mutator_wait_for_gc_cache, flagVars
  <2> QED
    BY <2>1, <2>2, <2>3
<1>2. ASSUME NEW g \in Masters, gc_cache(g) PROVE FlagGuards'
  <2>0. gpc \in [Masters -> Phases]
    BY DEF Inv
  <2>1. CASE ClearSpawned(g)
    <3>1. gpc[g] = "stop" /\ gpc' = [gpc EXCEPT ![g] = "stopping"]
      BY <2>1 DEF ClearSpawned, GGoto
    <3>2. \A h \in Masters : ~Pending(h)'
      BY <2>0, <3>1 DEF FlagGuards, Pending
    <3> QED
      BY <3>2 DEF FlagGuards
  <2>2. CASE ~ClearSpawned(g)
    <3>1. UNCHANGED spawned
      BY <1>2, <2>2 DEF gc_cache, StartMaster, BecomeMaster, PickRegions, FlipExpected,
        EndRound, PushRegion, Signal, LeaveLoop, ClearActive, flagVars
    <3>2. PICK l \in Phases : gpc' = [gpc EXCEPT ![g] = l]
                              /\ (l \notin {"none", "stopping"} => Pending(g))
      BY <1>2, <2>2 DEF gc_cache, StartMaster, BecomeMaster, PickRegions, FlipExpected,
        EndRound, PushRegion, Signal, LeaveLoop, ClearActive, GGoto, Phases, Pending
    <3>3. \A h \in Masters : Pending(h)' => Pending(h)
      BY <2>0, <3>2 DEF Pending
    <3> QED
      BY <3>1, <3>3 DEF FlagGuards
  <2> QED
    BY <2>1, <2>2
<1>3. CASE UNCHANGED vars
  BY <1>3 DEF vars, flagVars, FlagGuards, Pending
<1> QED
  BY <1>1, <1>2, <1>3 DEF Next

LEMMA PairIsSmall ==
  ASSUME NEW S, NEW a, NEW b, S \subseteq {a, b}
  PROVE  IsFiniteSet(S) /\ Cardinality(S) <= 2
<1>1. IsFiniteSet({a}) /\ Cardinality({a}) = 1
  BY FS_Singleton
<1>2. {a} \cup {b} = {a, b}
  OBVIOUS
<1>3. IsFiniteSet({a, b}) /\ Cardinality({a, b}) <= 2
  BY <1>1, <1>2, FS_AddElement
<1>4. IsFiniteSet(S) /\ Cardinality(S) <= Cardinality({a, b})
  BY <1>3, FS_Subset
<1>5. Cardinality(S) \in Nat /\ Cardinality({a, b}) \in Nat
  BY <1>3, <1>4, FS_CardinalityType
<1> QED
  BY <1>3, <1>4, <1>5

LEMMA FewWhenGuarded ==
  ASSUME Inv, FlagGuards PROVE FewMasters
<1> DEFINE S == {g \in Masters : gpc[g] # "none"}
<1>1. \A g, h \in S : Pending(g) /\ Pending(h) => g = h
  BY DEF FlagGuards
<1>2. \A g, h \in S : ~Pending(g) /\ ~Pending(h) => g = h
  BY DEF Pending, Inv, OneMaster, Active
<1> HIDE DEF S
<1>3. \E a, b : S \subseteq {a, b}
  <2>1. CASE \E a \in S : Pending(a)
    <3>1. PICK a \in S : Pending(a)
      BY <2>1
    <3>2. CASE \E b \in S : ~Pending(b)
      <4>1. PICK b \in S : ~Pending(b)
        BY <3>2
      <4>2. S \subseteq {a, b}
        BY <1>1, <1>2, <3>1, <4>1
      <4> QED
        BY <4>2
    <3>3. CASE \A b \in S : Pending(b)
      <4>1. S \subseteq {a, a}
        BY <1>1, <3>1, <3>3
      <4> QED
        BY <4>1
    <3> QED
      BY <3>2, <3>3
  <2>2. CASE \A a \in S : ~Pending(a)
    <3>1. CASE S = {}
      BY <3>1
    <3>2. CASE S # {}
      <4>1. PICK b \in S : TRUE
        BY <3>2
      <4>2. S \subseteq {b, b}
        BY <1>2, <2>2, <4>1
      <4> QED
        BY <4>2
    <3> QED
      BY <3>1, <3>2
  <2> QED
    BY <2>1, <2>2
<1>4. Cardinality(S) <= 2
  BY <1>3, PairIsSmall
<1> QED
  BY <1>4 DEF FewMasters, S

\* gc_master_spawned_ keeps the collector threads down to two, the one at work
\* that has just cleared it and the next, although it is cleared before
\* gc_master_active and may start out true.
THEOREM FewMastersHolds == Spec => []FewMasters
<1>1. Init => Inv /\ FlagGuards
  BY InvInit, GuardsInit
<1>2. Inv /\ FlagGuards /\ [Next]_vars => (Inv /\ FlagGuards)'
  BY InvStep, GuardsStep
<1>3. Inv /\ FlagGuards => FewMasters
  BY FewWhenGuarded
<1> QED
  BY <1>1, <1>2, <1>3, PTL DEF Spec

-----------------------------------------------------------------------------
(* No region is lost.                                                      *)

Locals == {t \in Threads : local[t]}

\* The master's round holds regions from PickRegions to the last PushRegion.
InRound(g) == gpc[g] \in {"round", "observe", "free"}

\* Every region is on one of the lists, in the round, or a core's.
Conserved ==
  /\ free \in Nat /\ used \in Nat /\ from \in Nat
  /\ local \in [Threads -> BOOLEAN]
  /\ free + used + from + Cardinality(Locals) = NumRegions
  /\ from > 0 <=> \E g \in Masters : InRound(g)

\* What TypeOK says of everything else.
RestTyped ==
  /\ almost_empty \in BOOLEAN /\ active \in BOOLEAN /\ spawned \in BOOLEAN /\ exited \in BOOLEAN
  /\ pc \in [Threads -> Labels]
  /\ blocking \in [Threads -> BOOLEAN] /\ inside \in [Threads -> BOOLEAN]
  /\ entering \in [Threads -> BOOLEAN] /\ reading \in [Threads -> BOOLEAN]
  /\ gpc \in [Masters -> Phases]
  /\ old \subseteq Threads /\ races \subseteq Races

LEMMA LocalsFinite ==
  IsFiniteSet(Locals) /\ Cardinality(Locals) \in Nat
<1>1. Locals \subseteq Threads
  BY DEF Locals
<1> QED
  BY <1>1, RegionsAssumption, FS_Subset, FS_CardinalityType

LEMMA LocalsChange ==
  ASSUME NEW t \in Threads, NEW b \in BOOLEAN, local \in [Threads -> BOOLEAN],
         local' = [local EXCEPT ![t] = b]
  PROVE  /\ local' \in [Threads -> BOOLEAN]
         /\ Cardinality(Locals') + (IF local[t] THEN 1 ELSE 0)
              = Cardinality(Locals) + (IF b THEN 1 ELSE 0)
<1>0. IsFiniteSet(Locals) /\ Cardinality(Locals) \in Nat
  BY LocalsFinite
<1>t. local' \in [Threads -> BOOLEAN]
  OBVIOUS
<1>1. CASE (local[t] /\ b) \/ (~local[t] /\ ~b)
  <2>1. Locals' = Locals
    BY <1>1 DEF Locals
  <2> QED
    BY <1>0, <1>1, <1>t, <2>1
<1>2. CASE local[t] /\ ~b
  <2>1. Locals' = Locals \ {t} /\ t \in Locals
    BY <1>2 DEF Locals
  <2>2. Cardinality(Locals') = Cardinality(Locals) - 1
    BY <1>0, <2>1, FS_RemoveElement
  <2> QED
    BY <1>0, <1>2, <1>t, <2>2
<1>3. CASE ~local[t] /\ b
  <2>1. Locals' = Locals \cup {t} /\ t \notin Locals
    BY <1>3 DEF Locals
  <2>2. Cardinality(Locals') = Cardinality(Locals) + 1
    BY <1>0, <2>1, FS_AddElement
  <2> QED
    BY <1>0, <1>3, <1>t, <2>2
<1> QED
  BY <1>1, <1>2, <1>3

LEMMA MutatorConserves ==
  ASSUME Conserved, gpc \in [Masters -> Phases], NEW t \in Threads,
         Begin(t) \/ Leave(t) \/ Proceed(t)
  PROVE  Conserved'
<1>1. \A g \in Masters : InRound(g)' <=> InRound(g)
  <2>1. \/ gpc' = gpc
        \/ \E g \in Masters : gpc[g] = "none" /\ gpc' = [gpc EXCEPT ![g] = "start"]
    BY DEF Begin, Leave, Proceed, Enter, Exit, Allocate, Refill, WakeUp, CheckLow,
      Measure, PublishEmpty, Launch, Spawn, mutator_wait_for_gc_cache, GGoto
  <2> QED
    BY <2>1 DEF InRound
<1>2. CASE UNCHANGED regionVars
  <2>1. Locals' = Locals
    BY <1>2 DEF Locals, regionVars
  <2> QED
    BY <1>1, <1>2, <2>1 DEF Conserved, regionVars
<1>3. CASE Refill(t)
  <2>0. free \in Nat /\ used \in Nat /\ from \in Nat /\ Cardinality(Locals) \in Nat
    BY LocalsFinite DEF Conserved
  <2>1. local' = [local EXCEPT ![t] = free > 0] /\ (free > 0) \in BOOLEAN
    BY <1>3 DEF Refill
  <2>2. /\ local' \in [Threads -> BOOLEAN]
        /\ Cardinality(Locals') + (IF local[t] THEN 1 ELSE 0)
             = Cardinality(Locals) + (IF free > 0 THEN 1 ELSE 0)
    BY <2>1, LocalsChange DEF Conserved
  <2>3. /\ used' = used + (IF local[t] THEN 1 ELSE 0)
        /\ free' + (IF free > 0 THEN 1 ELSE 0) = free
        /\ free' \in Nat /\ used' \in Nat /\ from' = from
    BY <1>3, <2>0 DEF Refill
  <2>4. IsFiniteSet(Locals') /\ Cardinality(Locals') \in Nat
    BY RegionsAssumption, FS_Subset, FS_CardinalityType DEF Locals
  <2>6. free + used + from + Cardinality(Locals) = NumRegions
    BY DEF Conserved
  <2>5. free' + used' + from' + Cardinality(Locals') = NumRegions
    <3>1. (IF local[t] THEN 1 ELSE 0) \in Nat /\ (IF free > 0 THEN 1 ELSE 0) \in Nat
      OBVIOUS
    <3>2. PICK a \in Nat, b \in Nat :
                 /\ Cardinality(Locals') + a = Cardinality(Locals) + b
                 /\ used' = used + a /\ free' + b = free
      BY <2>2, <2>3, <3>1
    <3>3. PICK c \in Nat, d \in Nat : c = Cardinality(Locals) /\ d = Cardinality(Locals')
      BY <2>0, <2>4
    <3>4. d + a = c + b /\ used' = used + a /\ free' + b = free
      BY <3>2, <3>3
    <3>5. free' \in Nat /\ used' \in Nat /\ free \in Nat /\ used \in Nat /\ from \in Nat
      BY <2>0, <2>3
    <3>6. PICK fx \in Nat, ux \in Nat, f \in Nat, u \in Nat, r \in Nat :
                 fx = free' /\ ux = used' /\ f = free /\ u = used /\ r = from
      BY <3>5
    <3>7. d + a = c + b /\ ux = u + a /\ fx + b = f
      BY <3>4, <3>6
    <3>8. fx + ux + r + d = f + u + r + c
      BY <3>7
    <3>9. free' + used' + from + d = free + used + from + c
      BY <3>6, <3>8
    <3> QED
      BY <2>3, <2>6, <3>3, <3>9
  <2> QED
    BY <1>1, <2>2, <2>3, <2>5 DEF Conserved
<1> QED
  BY <1>2, <1>3 DEF Begin, Leave, Proceed, Enter, Exit, Allocate, WakeUp, CheckLow,
      Measure, PublishEmpty, Launch, Spawn, mutator_wait_for_gc_cache

LEMMA MasterConserves ==
  ASSUME Inv, Conserved, NEW g \in Masters, gc_cache(g)
  PROVE  Conserved'
<1>0. /\ gpc \in [Masters -> Phases] /\ OneMaster
      /\ free \in Nat /\ used \in Nat /\ from \in Nat /\ local \in [Threads -> BOOLEAN]
      /\ free + used + from + Cardinality(Locals) = NumRegions
      /\ from > 0 <=> \E h \in Masters : InRound(h)
      /\ Cardinality(Locals) \in Nat
  BY LocalsFinite DEF Inv, Conserved
<1>1. ASSUME NEW l \in Phases, GGoto(g, l), UNCHANGED regionVars,
             l \in {"round", "observe", "free"} <=> InRound(g)
      PROVE  Conserved'
  <2>1. Locals' = Locals
    BY <1>1 DEF Locals, regionVars
  <2>2. \A h \in Masters : InRound(h)' <=> InRound(h)
    BY <1>0, <1>1 DEF InRound, GGoto
  <2> QED
    BY <1>0, <1>1, <2>1, <2>2 DEF Conserved, regionVars
<1> USE DEF Phases
<1>2. CASE StartMaster(g) \/ BecomeMaster(g) \/ FlipExpected(g) \/ EndRound(g) \/ Signal(g)
           \/ LeaveLoop(g) \/ ClearSpawned(g) \/ ClearActive(g)
  BY <1>1, <1>2 DEF StartMaster, BecomeMaster, FlipExpected, EndRound, Signal, LeaveLoop,
    ClearSpawned, ClearActive, InRound
<1>3. CASE PickRegions(g)
  <2>1. \A h \in Masters : ~InRound(h)
    BY <1>0, <1>3 DEF PickRegions, OneMaster, Active, InRound
  <2>2. from = 0
    BY <1>0, <2>1
  <2>3. PICK k \in 1..MaxPerRound : k <= used /\ from' = k /\ used' = used - k
    BY <1>3 DEF PickRegions
  <2>4. k \in Nat /\ k > 0
    BY ThresholdsAssumption
  <2>5. UNCHANGED <<free, local>> /\ Locals' = Locals
    BY <1>3 DEF PickRegions, Locals
  <2>6. InRound(g)'
    BY <1>0, <1>3 DEF PickRegions, GGoto, InRound
  <2>7. /\ free' \in Nat /\ used' \in Nat /\ from' \in Nat /\ from' > 0
        /\ free' + used' + from' + Cardinality(Locals') = NumRegions
    BY <1>0, <2>2, <2>3, <2>4, <2>5
  <2> QED
    BY <1>0, <2>5, <2>6, <2>7 DEF Conserved
<1>4. CASE PushRegion(g)
  <2>1. InRound(g) /\ from > 0
    BY <1>0, <1>4 DEF PushRegion, InRound
  <2>2. free' = free + 1 /\ from' = from - 1 /\ UNCHANGED <<used, local>> /\ Locals' = Locals
    BY <1>4 DEF PushRegion, Locals
  <2>3. /\ free' \in Nat /\ used' \in Nat /\ from' \in Nat
        /\ free' + used' + from' + Cardinality(Locals') = NumRegions
        /\ from' > 0 <=> from # 1
    BY <1>0, <2>1, <2>2
  <2>4. \A h \in Masters : InRound(h) => h = g
    BY <1>0, <2>1 DEF OneMaster, Active, InRound
  <2>5. InRound(g)' <=> from # 1
    BY <1>0, <1>4 DEF PushRegion, GGoto, InRound
  <2>6. \A h \in Masters : h # g => ~InRound(h)'
    BY <1>0, <1>4, <2>4 DEF PushRegion, GGoto, InRound
  <2> QED
    BY <1>0, <2>2, <2>3, <2>5, <2>6 DEF Conserved
<1> QED
  BY <1>2, <1>3, <1>4 DEF gc_cache

LEMMA RestStep ==
  ASSUME RestTyped, [Next]_vars PROVE RestTyped'
<1> USE DEF RestTyped
<1>1. ASSUME NEW t \in Threads, Begin(t) \/ Leave(t) \/ Proceed(t) PROVE RestTyped'
  <2>1. CASE Enter(t) /\ UNCHANGED exited
    BY <2>1 DEF Enter, Goto, Labels, flagVars
  <2>2. CASE Exit(t) /\ UNCHANGED exited
    BY <2>2 DEF Exit, flagVars
  <2>3. CASE Allocate(t) /\ UNCHANGED exited
    BY <2>3 DEF Allocate, Goto, Labels, flagVars
  <2>4. CASE mutator_wait_for_gc_cache(t)
    <3>1. exited' \in BOOLEAN
      BY <2>4 DEF mutator_wait_for_gc_cache
    <3>2. /\ pc' \in [Threads -> Labels] /\ entering' \in [Threads -> BOOLEAN]
          /\ inside' \in [Threads -> BOOLEAN]
      BY <2>4 DEF mutator_wait_for_gc_cache, Resume, Goto, Labels
    <3> QED
      BY <2>4, <3>1, <3>2 DEF mutator_wait_for_gc_cache, flagVars
  <2>5. CASE Refill(t) /\ UNCHANGED exited
    BY <2>5 DEF Refill, Goto, Labels, flagVars
  <2>6. CASE WakeUp(t) /\ UNCHANGED exited
    BY <2>6 DEF WakeUp, Resume, Goto, Labels, flagVars
  <2>7. CASE CheckLow(t) /\ UNCHANGED exited
    BY <2>7 DEF CheckLow, Goto, Labels, flagVars
  <2>8. CASE Measure(t) /\ UNCHANGED exited
    <3>1. is_free_cache_almost_empty \in BOOLEAN
      BY DEF is_free_cache_almost_empty
    <3> QED
      BY <2>8, <3>1 DEF Measure, Goto, Labels, flagVars
  <2>9. CASE PublishEmpty(t) /\ UNCHANGED exited
    BY <2>9 DEF PublishEmpty, Goto, Labels, Record, Races
  <2>10. CASE Launch(t) /\ UNCHANGED exited
    BY <2>10 DEF Launch, Goto, Labels, Record, Races, flagVars
  <2>11. CASE Spawn(t) /\ UNCHANGED exited
    <3>1. gpc' \in [Masters -> Phases]
      BY <2>11 DEF Spawn, GGoto, Phases
    <3>2. spawned' \in BOOLEAN /\ races' \subseteq Races
      BY <2>11 DEF Spawn, Record, Races
    <3> QED
      BY <2>11, <3>1, <3>2 DEF Spawn, Goto, Labels
  <2> QED
    BY <1>1, <2>1, <2>2, <2>3, <2>4, <2>5, <2>6, <2>7, <2>8, <2>9, <2>10, <2>11
      DEF Begin, Leave, Proceed
<1>2. ASSUME NEW g \in Masters, gc_cache(g) PROVE RestTyped'
  <2>1. gpc' \in [Masters -> Phases]
    BY <1>2 DEF gc_cache, StartMaster, BecomeMaster, PickRegions, FlipExpected,
      EndRound, PushRegion, Signal, LeaveLoop, ClearSpawned, ClearActive, GGoto, Phases
  <2>2. pc' \in [Threads -> Labels]
    BY <1>2 DEF gc_cache, StartMaster, BecomeMaster, PickRegions, FlipExpected,
      EndRound, PushRegion, Signal, LeaveLoop, ClearSpawned, ClearActive, Labels, threadVars
  <2>3. almost_empty' \in BOOLEAN /\ active' \in BOOLEAN /\ spawned' \in BOOLEAN
    BY <1>2 DEF gc_cache, StartMaster, BecomeMaster, PickRegions, FlipExpected,
      EndRound, PushRegion, Signal, LeaveLoop, ClearSpawned, ClearActive, flagVars
  <2>4. old' \subseteq Threads
    BY <1>2 DEF gc_cache, StartMaster, BecomeMaster, PickRegions, FlipExpected,
      EndRound, PushRegion, Signal, LeaveLoop, ClearSpawned, ClearActive
  <2>5. UNCHANGED <<blocking, inside, entering, reading, exited, races>>
    BY <1>2 DEF gc_cache, StartMaster, BecomeMaster, PickRegions, FlipExpected,
      EndRound, PushRegion, Signal, LeaveLoop, ClearSpawned, ClearActive, threadVars
  <2> QED
    BY <2>1, <2>2, <2>3, <2>4, <2>5
<1>3. CASE UNCHANGED vars
  BY <1>3 DEF vars, flagVars, threadVars
<1> QED
  BY <1>1, <1>2, <1>3 DEF Next

RegionInv == Inv /\ Conserved /\ RestTyped

LEMMA RegionInvInit == Init => RegionInv
<1> SUFFICES ASSUME Init PROVE RegionInv
  OBVIOUS
<1>1. Cardinality(Threads) \in Nat /\ NumRegions \in Nat /\ High \in Nat
      /\ Cardinality(Threads) + High <= NumRegions
  BY RegionsAssumption, ThresholdsAssumption, FS_CardinalityType
<1>2. Locals = Threads
  BY DEF Init, Locals
<1>3. free \in Nat /\ used = 0 /\ from = 0 /\ free + Cardinality(Threads) = NumRegions
  BY <1>1 DEF Init
<1>4. Conserved
  <2>1. ~(from > 0) /\ \A g \in Masters : ~InRound(g)
    BY <1>3 DEF Init, InRound
  <2>2. free + used + from + Cardinality(Locals) = NumRegions
    BY <1>1, <1>2, <1>3
  <2> QED
    BY <1>3, <2>1, <2>2 DEF Conserved, Init
<1>5. RestTyped
  <2>1. almost_empty \in BOOLEAN /\ active \in BOOLEAN /\ spawned \in BOOLEAN /\ exited \in BOOLEAN
    BY DEF Init
  <2> QED
    BY <2>1 DEF Init, RestTyped, Labels, Phases, Races
<1> QED
  BY <1>4, <1>5, InvInit DEF RegionInv

LEMMA RegionInvStep == RegionInv /\ [Next]_vars => RegionInv'
<1> SUFFICES ASSUME RegionInv, [Next]_vars PROVE RegionInv'
  OBVIOUS
<1>1. CASE UNCHANGED vars
  <2>1. Conserved'
    BY <1>1 DEF RegionInv, Conserved, vars, regionVars, Locals, InRound
  <2> QED
    BY <2>1, InvStep, RestStep DEF RegionInv
<1> QED
  BY <1>1, InvStep, RestStep, MutatorConserves, MasterConserves DEF Next, RegionInv, Inv

\* Every state is well typed, because no region is lost or counted twice: the
\* free and used lists, the regions of the round and those of the cores always
\* add up to all of them, and a round is never picked before the last one is
\* back on the free list.
THEOREM TypeCorrect == Spec => []TypeOK
<1>1. RegionInv => TypeOK
  <2> SUFFICES ASSUME RegionInv PROVE TypeOK
    OBVIOUS
  <2>1. free \in 0..NumRegions /\ used \in 0..NumRegions /\ from \in 0..NumRegions
    <3>1. /\ free \in Nat /\ used \in Nat /\ from \in Nat
          /\ free + used + from + Cardinality(Locals) = NumRegions
          /\ Cardinality(Locals) \in Nat /\ NumRegions \in Nat
      BY LocalsFinite, ThresholdsAssumption DEF RegionInv, Conserved
    <3> QED
      BY <3>1
  <2>2. {almost_empty, active, spawned, exited} \subseteq BOOLEAN
    BY DEF RegionInv, RestTyped
  <2> QED
    BY <2>1, <2>2 DEF RegionInv, RestTyped, Conserved, TypeOK, Labels, Phases
<1> QED
  BY <1>1, RegionInvInit, RegionInvStep, PTL DEF Spec
=============================================================================
