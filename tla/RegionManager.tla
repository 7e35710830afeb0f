----------------------------- MODULE RegionManager -----------------------------
(***************************************************************************)
(* The local regions and the lists they travel through:                    *)
(* FarMemManager::RegionManager (src/manager.cpp) over Region              *)
(* (src/region.cpp, inc/internal/region.ipp), driven by the allocations of *)
(* the mutators and by pick_from_regions and the last phase of a GC round. *)
(*                                                                         *)
(* A core owns two regions to allocate from, one of them for non-temporal  *)
(* objects.  A full region moves to one of two used lists, chosen by a     *)
(* flag in the region's own memory, and back to the free list when the     *)
(* collector is done with it.  The lists hold Region handles; moving a     *)
(* handle invalidates its index but leaves its buffer pointer behind.      *)
(***************************************************************************)
EXTENDS Integers, Sequences, FiniteSets, SequencesExt

CONSTANTS
  Regions,      \* local regions
  Cores,
  Slots,        \* objects that fit in a region (Region::kSize)
  MaxPerRound,  \* regions picked in one round
  None

ASSUME SlotsAssumption == Slots \in Nat \ {0}
ASSUME RoundAssumption == MaxPerRound \in Nat \ {0}
ASSUME NoneAssumption == None \notin Regions
\* The constructor exits unless there are more regions than cores need.
ASSUME RegionsAssumption ==
  /\ IsFiniteSet(Regions) /\ IsFiniteSet(Cores)
  /\ Cardinality(Regions) > 2 * Cardinality(Cores)

Kinds == {"temporal", "nt"}
kPickRegionMaxRetryTimes == 3

VARIABLES
  free_regions, used_regions, nt_used_regions,  \* sequences of regions
  local,   \* [Cores -> [Kinds -> the core's region, None when invalid]]
  buf,     \* [Cores -> [Kinds -> the region its handle's buffer belongs to]]
  nt,      \* [Regions -> the flag in the region's memory]
  bump,    \* [Regions -> objects allocated]
  ref,     \* [Regions -> ref_cnt: objects not yet initialised]
  from,    \* from_regions_
  gc       \* collector: picking regions or done with them

listVars == <<free_regions, used_regions, nt_used_regions>>
vars == <<listVars, local, buf, nt, bump, ref, from, gc>>

TypeOK ==
  /\ {free_regions, used_regions, nt_used_regions, from} \subseteq Seq(Regions)
  /\ local \in [Cores -> [Kinds -> Regions \cup {None}]]
  /\ buf \in [Cores -> [Kinds -> Regions]]
  /\ nt \in [Regions -> BOOLEAN]
  /\ bump \in [Regions -> 0..Slots]
  /\ ref \in [Regions -> 0..Slots]
  /\ gc \in {"pick", "collected"}

-----------------------------------------------------------------------------
(* Allocation.                                                             *)

Allocate_OneTooMany(c, k) ==
  LET r == local[c][k]
  IN /\ r # None
     /\ bump[r] <= Slots
     /\ bump' = [bump EXCEPT ![r] = @ + 1]
     /\ ref' = [ref EXCEPT ![r] = @ + 1]
     /\ UNCHANGED <<listVars, local, buf, nt, from, gc>>

\* allocate_object in the core's region of that kind.
Allocate(c, k) ==
  LET r == local[c][k]
  IN /\ r # None
     /\ bump[r] < Slots
     /\ bump' = [bump EXCEPT ![r] = @ + 1]
     /\ ref' = [ref EXCEPT ![r] = @ + 1]
     /\ UNCHANGED <<listVars, local, buf, nt, from, gc>>

\* The object is initialised: atomic_inc_ref_cnt(-1).
Initialise(r) ==
  /\ ref[r] > 0
  /\ ref' = [ref EXCEPT ![r] = @ - 1]
  /\ UNCHANGED <<listVars, local, buf, nt, bump, from, gc>>

\* The full region, if the handle is valid, joins the used list its flag says.
Retire(r) ==
  /\ nt_used_regions' = IF r # None /\ nt[r]
                        THEN Append(nt_used_regions, r) ELSE nt_used_regions
  /\ used_regions' = IF r # None /\ ~nt[r]
                     THEN Append(used_regions, r) ELSE used_regions

try_refill_ForgetsFull(c, k) ==
  /\ local[c][k] # None => bump[local[c][k]] > 0
  /\ free_regions # <<>>
  /\ local' = [local EXCEPT ![c][k] = Head(free_regions)]
  /\ buf' = [buf EXCEPT ![c][k] = Head(free_regions)]
  /\ free_regions' = Tail(free_regions)
  /\ nt' = IF k = "nt" THEN [nt EXCEPT ![buf'[c][k]] = TRUE] ELSE nt
  /\ UNCHANGED <<used_regions, nt_used_regions, bump, ref, from, gc>>

\* try_refill_core_local_free_region, when an object did not fit (an empty region
\* takes any object, an object may be larger than a slot): the handle takes the first free region,
\* if there is one; set_nt writes through its buffer pointer either way.
try_refill_core_local_free_region(c, k) ==
  /\ local[c][k] # None => bump[local[c][k]] > 0
  /\ Retire(local[c][k])
  /\ IF free_regions = <<>>
     THEN /\ local' = [local EXCEPT ![c][k] = None]
          /\ UNCHANGED <<free_regions, buf>>
     ELSE /\ local' = [local EXCEPT ![c][k] = Head(free_regions)]
          /\ buf' = [buf EXCEPT ![c][k] = Head(free_regions)]
          /\ free_regions' = Tail(free_regions)
  /\ nt' = IF k = "nt" THEN [nt EXCEPT ![buf'[c][k]] = TRUE] ELSE nt
  /\ UNCHANGED <<bump, ref, from, gc>>

-----------------------------------------------------------------------------
(* The collector.                                                          *)

is_gcable(r) == ref[r] = 0

\* Handles the picker tries in a list before it gives up.
Tries == kPickRegionMaxRetryTimes + 2
Rotate(s, n) == SubSeq(s, n + 1, Len(s)) \o SubSeq(s, 1, n)

\* The positions among the first tries where nt_used_regions_ has a region that
\* can be collected.
NtCandidates == {i \in DOMAIN nt_used_regions :
                   i <= Tries /\ is_gcable(nt_used_regions[i])}

pop_used_region_AnyRef(r) ==
  \/ /\ nt_used_regions # <<>>
     /\ r = Head(nt_used_regions)
     /\ nt_used_regions' = Tail(nt_used_regions)
     /\ UNCHANGED used_regions
  \/ /\ nt_used_regions = <<>> /\ used_regions # <<>>
     /\ r = Head(used_regions)
     /\ used_regions' = Tail(used_regions)
     /\ UNCHANGED nt_used_regions

\* pop_used_region hands out r (None: nothing).  A region of the non-temporal
\* list that cannot be collected goes to the back of it; one of the other list
\* goes back to the front, where the next try finds it again.
pop_used_region(r) ==
  \/ \E i \in NtCandidates :
       /\ \A j \in NtCandidates : i <= j
       /\ r = nt_used_regions[i]
       /\ nt_used_regions' = Tail(Rotate(nt_used_regions, i - 1))
       /\ UNCHANGED used_regions
  \/ /\ NtCandidates = {}
     /\ nt_used_regions' = IF nt_used_regions = <<>> THEN <<>>
          ELSE Rotate(nt_used_regions, Tries % Len(nt_used_regions))
     /\ \/ /\ used_regions # <<>> /\ is_gcable(Head(used_regions))
           /\ r = Head(used_regions)
           /\ used_regions' = Tail(used_regions)
        \/ /\ used_regions # <<>> => ~is_gcable(Head(used_regions))
           /\ r = None
           /\ UNCHANGED used_regions

\* pick_from_regions, one handle at a time until the round is full or nothing
\* can be popped.
pick_from_regions ==
  /\ gc = "pick"
  /\ Len(from) < MaxPerRound
  /\ \E r \in Regions \cup {None} :
       /\ pop_used_region(r)
       /\ from' = IF r = None THEN from ELSE Append(from, r)
       /\ gc' = IF (r = None /\ from # <<>>) \/ Len(from') = MaxPerRound
                THEN "collected" ELSE "pick"
  /\ UNCHANGED <<free_regions, local, buf, nt, bump, ref>>

\* The round is over for this region: push_free_region resets it.
push_free_region ==
  /\ gc = "collected"
  /\ from # <<>>
  /\ free_regions' = Append(free_regions, Head(from))
  /\ bump' = [bump EXCEPT ![Head(from)] = 0]
  /\ nt' = [nt EXCEPT ![Head(from)] = FALSE]
  /\ from' = Tail(from)
  /\ gc' = IF Len(from) = 1 THEN "pick" ELSE gc
  /\ UNCHANGED <<used_regions, nt_used_regions, local, buf, ref>>

-----------------------------------------------------------------------------
\* The constructor gives every core its two regions; the rest is free.
Init ==
  /\ local \in [Cores -> [Kinds -> Regions]]
  /\ \A c, d \in Cores, k, l \in Kinds :
       local[c][k] = local[d][l] => c = d /\ k = l
  /\ buf = local
  /\ LET owned == {local[c][k] : c \in Cores, k \in Kinds}
     IN free_regions \in SetToSeqs(Regions \ owned)
  /\ nt = [r \in Regions |-> \E c \in Cores : local[c]["nt"] = r]
  /\ used_regions = <<>> /\ nt_used_regions = <<>>
  /\ bump = [r \in Regions |-> 0]
  /\ ref = [r \in Regions |-> 0]
  /\ from = <<>>
  /\ gc = "pick"

Next ==
  \/ \E c \in Cores, k \in Kinds :
       Allocate(c, k) \/ try_refill_core_local_free_region(c, k)
  \/ \E r \in Regions : Initialise(r)
  \/ pick_from_regions \/ push_free_region

Spec == Init /\ [][Next]_vars

-----------------------------------------------------------------------------
\* How often r occurs in a list.
Copies(s, r) == Cardinality({i \in DOMAIN s : s[i] = r})
Owners(r) == {ck \in Cores \X Kinds : local[ck[1]][ck[2]] = r}

\* No sequence of refills, picks and returns loses or duplicates a region: each
\* has one handle.  In particular no list overflows, the BUG_ON of
\* push_free_region and try_refill_core_local_free_region.
OneHandle == \A r \in Regions :
  Copies(free_regions, r) + Copies(used_regions, r) + Copies(nt_used_regions, r)
    + Copies(from, r) + Cardinality(Owners(r)) = 1

\* A region is collected, and handed out again, only after every object
\* allocated in it was initialised, and it is handed out empty (region.hpp,
\* "The region can only be GCed when the ref_cnt goes to 0").
CollectedIsQuiet ==
  /\ \A i \in DOMAIN from : ref[from[i]] = 0
  /\ \A i \in DOMAIN free_regions :
       ref[free_regions[i]] = 0 /\ bump[free_regions[i]] = 0
=============================================================================
