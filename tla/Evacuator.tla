------------------------------ MODULE Evacuator ------------------------------
(***************************************************************************)
(* The far-memory pointers of AIFM and the concurrent evacuator that moves *)
(* their objects: DerefScope (inc/internal/deref_scope.ipp), the pointer   *)
(* operations (inc/internal/pointer.ipp, src/pointer.cpp), and the five    *)
(* phases of FarMemManager::gc_cache with swap_in and swap_out             *)
(* (src/manager.cpp).                                                      *)
(*                                                                         *)
(* Mutator threads hold raw pointers into local regions without any lock;  *)
(* what protects a raw pointer is that the thread is inside a DerefScope.  *)
(* The collector marks the pointers of the regions it picked, flips the    *)
(* expected scope status, waits until no thread is counted under the old   *)
(* status, moves or writes back every object still marked and only then    *)
(* reuses the regions.                                                     *)
(*                                                                         *)
(* An action is one stretch of code between two points where another       *)
(* thread can observe or change the state: a read or a write of the 8-byte *)
(* pointer metadata, taking an object lock, an allocation.  The per-core   *)
(* counters of threads per status are abstracted to the set of counted     *)
(* threads; DerefScope.tla has the counters themselves.                    *)
(***************************************************************************)
EXTENDS Integers, FiniteSets

CONSTANTS
  Threads,     \* mutator threads
  Ptrs,        \* far-memory unique pointers, each with its object id
  Regions,     \* local regions
  Cores,       \* cores, each with one core-local free region
  Slots,       \* objects that fit in a region (Region::kSize)
  HotThresh,   \* FarMemPtrMeta::kHotThresh
  MaxRaws,     \* bound: raw pointers a thread holds
  GC,          \* the collector, as a lock owner
  None         \* no thread, pointer, region, address or raw pointer

ASSUME ThreadsAssumption == IsFiniteSet(Threads)
ASSUME SlotsAssumption == Slots \in Nat \ {0}
ASSUME HotAssumption == HotThresh \in Nat
ASSUME BoundsAssumption == MaxRaws \in Nat
ASSUME NamesAssumption ==
  /\ GC \notin Threads
  /\ None \notin Threads \cup Ptrs \cup Regions \cup {GC} \cup (Regions \X Nat)

Addr == Regions \X (1..Slots)

\* Status of a thread: enum Status { OutofScope, InScopeV0, InScopeV1, .. }.
InScope == {"V0", "V1"}
flip_status(s) == IF s = "V0" THEN "V1" ELSE "V0"

VARIABLES
  expected,  \* expected_status
  status,    \* [Threads -> the thread's own status]
  pc,        \* [Threads -> where the thread is]
  op,        \* [Threads -> the operands of its current operation]
  raw,       \* [Threads -> raw pointers the thread holds]
  meta,      \* [Ptrs -> FarMemPtrMeta]
  lock,      \* [Ptrs -> holder of the object lock]
  obj,       \* [Addr -> object header; has this copy every write so far?]
  remote,    \* [Ptrs -> has the copy in far memory every write so far?]
  rstate,    \* [Regions -> which list the region is on]
  bump,      \* [Regions -> objects allocated, first_free_byte_idx_]
  refcnt,    \* [Regions -> objects allocated but not yet initialised]
  cur,       \* [Cores -> core-local free region]
  gc,        \* phase of the collector
  todo,      \* objects the collector still has to visit in this phase
  swap,      \* [Ptrs -> swap_out in progress under the object lock]
  races      \* history: the races that have happened (see below)

scopeVars == <<expected, status>>
threadVars == <<pc, op, raw>>
heapVars == <<rstate, bump, refcnt, cur>>
gcVars == <<gc, todo, swap>>
vars == <<scopeVars, threadVars, meta, lock, obj, remote, heapVars, gcVars,
          races>>

-----------------------------------------------------------------------------
(* Metadata, objects, operands.                                            *)

Meta(state, addr, dirty, hot) ==
  [state |-> state, addr |-> addr, dirty |-> dirty, hot |-> hot, evac |-> FALSE]

Null == Meta("null", None, FALSE, 0)

set_present_Hotter(a) == Meta("present", a, FALSE, HotThresh + 1)

\* set_present: clean and cold; init additionally sets the dirty bit.
set_present(a) == Meta("present", a, FALSE, HotThresh)

\* gc_wb: present bit cleared, the object is named by its id.
gc_wb == Meta("absent", None, FALSE, 0)

mutator_copy_KeepsEvac(m, a) == [m EXCEPT !.addr = a]

\* mutator_copy: new address, evacuation bit cleared, the other bits kept.
mutator_copy(m, a) == [m EXCEPT !.addr = a, !.evac = FALSE]

gc_copy_Clean(m, a) ==
  [m EXCEPT !.addr = a, !.evac = FALSE, !.hot = HotThresh, !.dirty = FALSE]

\* gc_copy: new address, cold again, evacuation bit cleared, dirty bit kept.
gc_copy(m, a) == [m EXCEPT !.addr = a, !.evac = FALSE, !.hot = HotThresh]

Unused == [ptr |-> None, freed |-> FALSE, fresh |-> FALSE]
Idle == [ptr |-> None, mut |-> FALSE, addr |-> None, new |-> None, snap |-> None]

MetaType == [state : {"null", "present", "absent"}, addr : Addr \cup {None},
             dirty : BOOLEAN, hot : 0..HotThresh, evac : BOOLEAN]
ObjType == [ptr : Ptrs \cup {None}, freed : BOOLEAN, fresh : BOOLEAN]
RawType == [ptr : Ptrs, addr : Addr, mut : BOOLEAN]
OpType == [ptr : Ptrs \cup {None}, mut : BOOLEAN,
           addr : Addr \cup {None}, new : Addr \cup {None},
           snap : MetaType \cup {None}]
SwapType == [addr : Addr, hot : BOOLEAN, dirty : BOOLEAN]

\* Races that can really happen in the code; none of them is prevented, each
\* is recorded when it happens.
\*   late_enter     a thread is counted under a status that is no longer the
\*                  expected one: GC flipped it after the snapshot
\*   split_object   a mutator copies an object while a raw pointer refers to it
\*   stale_migrate  a mutator copies an object from an address the pointer
\*                  no longer has
\*   stale_header   an object header is read at an address that has been reused
\*                  for another object since
\*   wild_meta      metadata bits are written to a pointer that is not present
\*   wild_object    an address is read from a pointer that is not present
\*   flush_in_use   a flushed object is marked clean although it was written
\*                  since, or a raw pointer that may write to it is left
Races == {"late_enter", "split_object", "stale_migrate", "stale_header",
          "wild_meta", "wild_object", "flush_in_use"}

PcType == {"out", "entering", "in", "alloc", "deref", "bits", "swap_in",
           "swap_alloc", "swap_read", "migrate", "migrate_check",
           "migrate_lock", "migrate_copy", "migrate_pub", "flush",
           "flush_lock", "flush_write", "flush_clean"}

ScopesTyped ==
  /\ expected \in InScope
  /\ status \in [Threads -> InScope \cup {"Out"}]
  /\ pc \in [Threads -> PcType]
  /\ races \in SUBSET Races

\* The operands are there when the thread is at a step that uses them.
OperandsTyped ==
  /\ op \in [Threads -> OpType]
  /\ raw \in [Threads -> SUBSET RawType]
  /\ \A t \in Threads :
       /\ pc[t] \notin {"out", "entering", "in"} => op[t].ptr \in Ptrs
       /\ pc[t] \in {"alloc", "swap_read", "migrate_pub"} => op[t].new \in Addr
       /\ pc[t] \in {"bits", "migrate_lock", "migrate_copy", "migrate_pub",
                    "flush_lock", "flush_write", "flush_clean"}
            => op[t].addr \in Addr

PointersTyped ==
  /\ meta \in [Ptrs -> MetaType]
  /\ \A p \in Ptrs : meta[p].state = "present" => meta[p].addr \in Addr
  /\ lock \in [Ptrs -> Threads \cup {GC, None}]
  /\ remote \in [Ptrs -> BOOLEAN]

HeapTyped ==
  /\ obj \in [Addr -> ObjType]
  /\ rstate \in [Regions -> {"free", "local", "used", "from"}]
  /\ bump \in [Regions -> 0..Slots]
  /\ refcnt \in [Regions -> Int]
  /\ cur \in [Cores -> Regions \cup {None}]

CollectorTyped ==
  /\ gc \in {"idle", "mark", "wait", "wb", "free"}
  /\ todo \in SUBSET Addr
  /\ swap \in [Ptrs -> SwapType \cup {None}]

\* Every variable has its type, and an operation has the operands its next
\* step needs.
TypeOK ==
  ScopesTyped /\ OperandsTyped /\ PointersTyped /\ HeapTyped /\ CollectorTyped

-----------------------------------------------------------------------------
(* Allocation in the core-local region of core c.                          *)

HasRoom(c) == cur[c] # None /\ bump[cur[c]] < Slots
FreeRegions == {r \in Regions : rstate[r] = "free"}

\* The full core-local region joins used_regions_ and f (None when the free
\* list is empty) becomes the core-local region.
RefilledState(c, f) ==
  [r \in Regions |-> IF r = f THEN "local"
                     ELSE IF r = cur[c] THEN "used" ELSE rstate[r]]

\* allocate_local_object(_nb) succeeds with address a; ref is what it leaves
\* of the reference it takes on the region: 1 until the object is
\* initialised, 0 when the caller initialises it in the same step.
allocate_local_object(c, a, ref) ==
  \/ /\ HasRoom(c)
     /\ a = <<cur[c], bump[cur[c]] + 1>>
     /\ bump' = [bump EXCEPT ![cur[c]] = @ + 1]
     /\ refcnt' = [refcnt EXCEPT ![cur[c]] = @ + ref]
     /\ UNCHANGED <<rstate, cur>>
  \/ /\ ~HasRoom(c)
     /\ \E f \in FreeRegions :
          /\ a = <<f, 1>>
          /\ rstate' = RefilledState(c, f)
          /\ cur' = [cur EXCEPT ![c] = f]
          /\ bump' = [bump EXCEPT ![f] = 1]
          /\ refcnt' = [refcnt EXCEPT ![f] = @ + ref]

\* It fails: no room, and try_refill_core_local_free_region finds no free
\* region, after it has put the full one on used_regions_.
allocate_local_object_fails(c) ==
  /\ ~HasRoom(c)
  /\ FreeRegions = {}
  /\ rstate' = RefilledState(c, None)
  /\ cur' = [cur EXCEPT ![c] = None]
  /\ UNCHANGED <<bump, refcnt>>

-----------------------------------------------------------------------------
(* DerefScope.                                                             *)

\* The threads in the sum of num_threads_on_status over the cores.
Counted(s) == {t \in Threads : status[t] = s /\ pc[t] # "entering"}

Record(race, happens) == races' = races \cup (IF happens THEN {race} ELSE {})

\* enter: the thread takes the status it reads in expected_status ...
EnterSnapshot(t) ==
  /\ pc[t] = "out"
  /\ status' = [status EXCEPT ![t] = expected]
  /\ pc' = [pc EXCEPT ![t] = "entering"]
  /\ UNCHANGED <<expected, op, raw, meta, lock, obj, remote, heapVars, gcVars,
                 races>>

\* ... and, later, the increment of the counter of that status.
EnterCount(t) ==
  /\ pc[t] = "entering"
  /\ pc' = [pc EXCEPT ![t] = "in"]
  /\ Record("late_enter", status[t] # expected)
  /\ UNCHANGED <<scopeVars, op, raw, meta, lock, obj, remote, heapVars, gcVars>>

Exit_StillCounted(t) ==
  /\ pc[t] = "in"
  /\ pc' = [pc EXCEPT ![t] = "out"]
  /\ raw' = [raw EXCEPT ![t] = {}]
  /\ UNCHANGED <<scopeVars, op, meta, lock, obj, remote, heapVars, gcVars,
                 races>>

\* exit: the raw pointers of the scope are dead.
Exit(t) ==
  /\ pc[t] = "in"
  /\ status' = [status EXCEPT ![t] = "Out"]
  /\ pc' = [pc EXCEPT ![t] = "out"]
  /\ raw' = [raw EXCEPT ![t] = {}]
  /\ UNCHANGED <<expected, op, meta, lock, obj, remote, heapVars, gcVars,
                 races>>

-----------------------------------------------------------------------------
(* Allocation and free of a unique pointer.                                *)

\* Some thread is using p: application code frees a pointer only when none is.
InUse(p) == \E t \in Threads :
  op[t].ptr = p \/ \E w \in raw[t] : w.ptr = p

\* allocate_unique_ptr: local object (the region is referenced from here) ...
AllocLocal(t, p, c) ==
  /\ pc[t] = "out"
  /\ meta[p].state = "null"
  /\ ~InUse(p)
  /\ \/ \E a \in Addr :
          /\ allocate_local_object(c, a, 1)
          /\ op' = [op EXCEPT ![t] = [Idle EXCEPT !.ptr = p, !.new = a]]
          /\ pc' = [pc EXCEPT ![t] = "alloc"]
     \/ /\ allocate_local_object_fails(c)
        /\ UNCHANGED <<op, pc>>
  /\ UNCHANGED <<scopeVars, raw, meta, lock, obj, remote, gcVars, races>>

\* ... remote object, whose memory is not initialised, object header, pointer.
AllocInit(t) ==
  LET p == op[t].ptr
      a == op[t].new
  IN /\ pc[t] = "alloc"
     /\ obj' = [obj EXCEPT ![a] = [ptr |-> p, freed |-> FALSE, fresh |-> TRUE]]
     /\ meta' = [meta EXCEPT ![p] = [set_present(a) EXCEPT !.dirty = TRUE]]
     /\ remote' = [remote EXCEPT ![p] = FALSE]
     /\ refcnt' = [refcnt EXCEPT ![a[1]] = @ - 1]
     /\ op' = [op EXCEPT ![t] = Idle]
     /\ pc' = [pc EXCEPT ![t] = "out"]
     /\ UNCHANGED <<scopeVars, raw, lock, rstate, bump, cur, gcVars,
                    races>>

\* free: pin has dereferenced p in this scope, so p is in raw[t].
Free(t, p) ==
  /\ pc[t] = "in"
  /\ \E w \in raw[t] : w.ptr = p
  /\ \A u \in Threads \ {t} : op[u].ptr # p /\ \A w \in raw[u] : w.ptr # p
  /\ meta[p].state = "present"
  /\ lock[p] = None
  /\ obj' = [obj EXCEPT ![meta[p].addr].freed = TRUE,
                        ![meta[p].addr].fresh = FALSE]
  /\ remote' = [remote EXCEPT ![p] = FALSE]
  /\ meta' = [meta EXCEPT ![p] = Null]
  /\ raw' = [raw EXCEPT ![t] = {w \in @ : w.ptr # p}]
  /\ UNCHANGED <<scopeVars, pc, op, lock, heapVars, gcVars, races>>

-----------------------------------------------------------------------------
(* GenericFarMemPtr::_deref.                                               *)

Retry(t) == pc' = [pc EXCEPT ![t] = "deref"]

\* _deref hands the caller address a of the pointer; a raw pointer that may
\* write stands for one that may only read as well.
Return(t, p, mut, a) ==
  LET old == {w \in raw[t] : w.ptr = p /\ w.addr = a}
  IN /\ raw' = [raw EXCEPT ![t] = (@ \ old) \cup
          {[ptr |-> p, addr |-> a, mut |-> mut \/ \E w \in old : w.mut]}]
     /\ op' = [op EXCEPT ![t] = Idle]
     /\ pc' = [pc EXCEPT ![t] = "in"]

_deref_IgnoresEvac(t, p, mut) ==
  /\ IF meta[p].state = "present"
     THEN Return(t, p, mut, meta[p].addr)
     ELSE /\ op' = [op EXCEPT ![t] = [Idle EXCEPT !.ptr = p, !.mut = mut]]
          /\ pc' = [pc EXCEPT ![t] =
               IF meta[p].state = "null" THEN "in" ELSE "swap_in"]
          /\ UNCHANGED raw
  /\ UNCHANGED <<scopeVars, meta, lock, obj, remote, heapVars, gcVars, races>>

\* The metadata is read once: what it says decides the path.
_deref(t, p, mut) ==
  LET m == meta[p]
      Goto(l, a) == /\ op' = [op EXCEPT ![t] =
                         [Idle EXCEPT !.ptr = p, !.mut = mut, !.addr = a]]
                    /\ pc' = [pc EXCEPT ![t] = l]
                    /\ UNCHANGED raw
  IN /\ \/ /\ m.state = "null"
           /\ op' = [op EXCEPT ![t] = Idle]
           /\ pc' = [pc EXCEPT ![t] = "in"]
           /\ UNCHANGED raw
        \/ /\ m.state = "absent"
           /\ Goto("swap_in", None)
        \/ /\ m.state = "present" /\ m.evac
           /\ Goto("migrate", None)
        \/ /\ m.state = "present" /\ ~m.evac
           /\ m.hot > 0 \/ (mut /\ ~m.dirty)
           /\ Goto("bits", m.addr)
        \/ /\ m.state = "present" /\ ~m.evac
           /\ m.hot = 0 /\ (mut => m.dirty)
           /\ Return(t, p, mut, m.addr)
     /\ UNCHANGED <<scopeVars, meta, lock, obj, remote, heapVars, gcVars,
                    races>>

\* A thread in a scope dereferences p: deref or deref_mut ...
DerefStart(t, p, mut) ==
  /\ pc[t] = "in"
  /\ Cardinality(raw[t]) < MaxRaws
  /\ \A u \in Threads : pc[u] = "alloc" => op[u].ptr # p
  /\ _deref(t, p, mut)

\* ... and again, after swap_in or mutator_migrate_object.
DerefRetry(t) ==
  /\ pc[t] = "deref"
  /\ _deref(t, op[t].ptr, op[t].mut)

\* The slow path writes the dirty and the hot byte of whatever the metadata is
\* by now, and returns the address it read before.
DerefBits(t) ==
  LET p == op[t].ptr
      wild == meta[p].state # "present"
  IN /\ pc[t] = "bits"
     /\ meta' = IF wild THEN meta
                ELSE [meta EXCEPT ![p].dirty = @ \/ op[t].mut,
                                  ![p].hot = IF @ = 0 THEN 0 ELSE @ - 1]
     /\ Return(t, p, op[t].mut, op[t].addr)
     /\ Record("wild_meta", wild)
     /\ UNCHANGED <<scopeVars, lock, obj, remote, heapVars, gcVars>>

\* The application writes through a raw pointer it got from deref_mut: every
\* other copy of the object now lacks a write.
Write(t) ==
  /\ pc[t] = "in"
  /\ \E w \in raw[t] :
       /\ w.mut
       /\ obj' = [a \in Addr |-> IF obj[a].ptr = w.ptr /\ a # w.addr
                               THEN [obj[a] EXCEPT !.fresh = FALSE] ELSE obj[a]]
       /\ remote' = [remote EXCEPT ![w.ptr] = FALSE]
  /\ UNCHANGED <<scopeVars, threadVars, meta, lock, heapVars, gcVars,
                 races>>

-----------------------------------------------------------------------------
(* FarMemManager::swap_in.                                                 *)

\* Absent: take the object lock and look again.
SwapInLock(t) ==
  LET p == op[t].ptr
  IN /\ pc[t] = "swap_in"
     /\ \/ /\ meta[p].state = "present"
           /\ Retry(t)
           /\ UNCHANGED lock
        \/ /\ meta[p].state # "present"
           /\ lock[p] = None
           /\ lock' = [lock EXCEPT ![p] = t]
           /\ pc' = [pc EXCEPT ![t] = "swap_alloc"]
     /\ UNCHANGED <<scopeVars, op, raw, meta, obj, remote, heapVars, gcVars,
                    races>>

\* The local copy is allocated with the object lock held; without memory the
\* thread goes round the allocation loop again.
SwapInAlloc(t, c) ==
  /\ pc[t] = "swap_alloc"
  /\ \/ \E a \in Addr :
          /\ allocate_local_object(c, a, 1)
          /\ op' = [op EXCEPT ![t].new = a]
          /\ pc' = [pc EXCEPT ![t] = "swap_read"]
     \/ /\ allocate_local_object_fails(c)
        /\ UNCHANGED <<op, pc>>
  /\ UNCHANGED <<scopeVars, raw, meta, lock, obj, remote, gcVars, races>>

\* read_object, object header, set_present, reference dropped, lock released.
SwapInRead(t) ==
  LET p == op[t].ptr
      a == op[t].new
  IN /\ pc[t] = "swap_read"
     /\ obj' = [obj EXCEPT ![a] =
          [ptr |-> p, freed |-> FALSE, fresh |-> remote[p]]]
     /\ meta' = [meta EXCEPT ![p] = set_present(a)]
     /\ refcnt' = [refcnt EXCEPT ![a[1]] = @ - 1]
     /\ lock' = [lock EXCEPT ![p] = None]
     /\ op' = [op EXCEPT ![t].new = None]
     /\ Retry(t)
     /\ UNCHANGED <<scopeVars, raw, remote, rstate, bump, cur, gcVars, races>>

-----------------------------------------------------------------------------
(* GenericFarMemPtr::mutator_migrate_object.                               *)

\* The address is read before the lock is taken ...
MigrateSnap(t) ==
  LET m == meta[op[t].ptr]
  IN /\ pc[t] = "migrate"
     /\ op' = [op EXCEPT ![t].addr = IF m.state = "present" THEN m.addr ELSE None]
     /\ pc' = [pc EXCEPT ![t] = "migrate_check"]
     /\ UNCHANGED <<scopeVars, raw, meta, lock, obj, remote, heapVars, gcVars,
                    races>>

\* ... and then the present bit, again.
MigrateCheck(t) ==
  LET present == meta[op[t].ptr].state = "present"
      go == present /\ op[t].addr # None
  IN /\ pc[t] = "migrate_check"
     /\ op' = IF go THEN op ELSE [op EXCEPT ![t].addr = None]
     /\ pc' = [pc EXCEPT ![t] = IF go THEN "migrate_lock" ELSE "deref"]
     /\ Record("wild_object", present /\ ~go)
     /\ UNCHANGED <<scopeVars, raw, meta, lock, obj, remote, heapVars, gcVars>>

\* The lock is named by the id in the header at that address; then the
\* present and evacuation bits are checked, not the address.
MigrateLock(t) ==
  LET p == op[t].ptr
      go == meta[p].state = "present" /\ meta[p].evac
  IN /\ pc[t] = "migrate_lock"
     /\ lock[p] = None
     /\ lock' = [lock EXCEPT ![p] = IF go THEN t ELSE None]
     /\ pc' = [pc EXCEPT ![t] = IF go THEN "migrate_copy" ELSE "deref"]
     /\ op' = IF go THEN op ELSE [op EXCEPT ![t].addr = None]
     /\ Record("stale_header", obj[op[t].addr].ptr # p)
     /\ UNCHANGED <<scopeVars, raw, meta, obj, remote, heapVars, gcVars>>

\* Somebody still uses address a of pointer p.
Held(p, a) == \E t \in Threads :
  \/ \E w \in raw[t] : w.ptr = p /\ w.addr = a
  \/ pc[t] = "bits" /\ op[t].ptr = p /\ op[t].addr = a

\* allocate_local_object_nb, memcpy of the header and the data, reference
\* dropped.  Without memory: unlock, yield, retry.
MigrateCopy(t, c) ==
  LET p == op[t].ptr
  IN /\ pc[t] = "migrate_copy"
     /\ \/ \E a \in Addr :
             /\ allocate_local_object(c, a, 0)
             /\ obj' = [obj EXCEPT ![a] = obj[op[t].addr]]
             /\ op' = [op EXCEPT ![t].new = a]
             /\ pc' = [pc EXCEPT ![t] = "migrate_pub"]
             /\ races' = races
                  \cup (IF op[t].addr # meta[p].addr
                        THEN {"stale_migrate"} ELSE {})
                  \cup (IF Held(p, op[t].addr) THEN {"split_object"} ELSE {})
             /\ UNCHANGED lock
        \/ /\ allocate_local_object_fails(c)
           /\ lock' = [lock EXCEPT ![p] = None]
           /\ op' = [op EXCEPT ![t].addr = None]
           /\ Retry(t)
           /\ UNCHANGED <<obj, races>>
     /\ UNCHANGED <<scopeVars, raw, meta, remote, gcVars>>

\* mutator_copy, the old object is freed, the lock is released.
MigratePublish(t) ==
  LET p == op[t].ptr
  IN /\ pc[t] = "migrate_pub"
     /\ meta' = [meta EXCEPT ![p] = mutator_copy(@, op[t].new)]
     /\ obj' = [obj EXCEPT ![op[t].addr].freed = TRUE]
     /\ lock' = [lock EXCEPT ![p] = None]
     /\ op' = [op EXCEPT ![t].addr = None, ![t].new = None]
     /\ Retry(t)
     /\ UNCHANGED <<scopeVars, raw, remote, heapVars, gcVars, races>>

-----------------------------------------------------------------------------
(* GenericFarMemPtr::_flush: the threads of GenericArray::flush call it    *)
(* outside any scope.                                                      *)

\* The metadata is read as a whole; only a dirty object is flushed.
_flush(t, p) ==
  LET m == meta[p]
      go == m.state = "present" /\ m.dirty
  IN /\ op' = [op EXCEPT ![t] = IF go
          THEN [Idle EXCEPT !.ptr = p, !.addr = m.addr, !.snap = m] ELSE Idle]
     /\ pc' = [pc EXCEPT ![t] = IF go THEN "flush_lock" ELSE "out"]
     /\ UNCHANGED <<scopeVars, raw, meta, lock, obj, remote, heapVars, gcVars,
                    races>>

FlushStart(t, p) ==
  /\ pc[t] = "out"
  /\ _flush(t, p)

\* The lock is named by the id in the header at the address just read, which
\* no scope protects; then the metadata must be the same as before, or the
\* lock is released and the operation starts over.
FlushLock(t) ==
  LET p == op[t].ptr
      go == meta[p] = op[t].snap
  IN /\ pc[t] = "flush_lock"
     /\ lock[p] = None
     /\ lock' = [lock EXCEPT ![p] = IF go THEN t ELSE None]
     /\ pc' = [pc EXCEPT ![t] = IF go THEN "flush_write" ELSE "flush"]
     /\ op' = [op EXCEPT ![t].addr = IF go THEN @ ELSE None, ![t].snap = None]
     /\ Record("stale_header", obj[op[t].addr].ptr # p)
     /\ UNCHANGED <<scopeVars, raw, meta, obj, remote, heapVars, gcVars>>

FlushRetry(t) ==
  /\ pc[t] = "flush"
  /\ _flush(t, op[t].ptr)

\* write_object; writers are not kept out ...
FlushWrite(t) ==
  LET p == op[t].ptr
  IN /\ pc[t] = "flush_write"
     /\ remote' = [remote EXCEPT ![p] = obj[op[t].addr].fresh]
     /\ pc' = [pc EXCEPT ![t] = "flush_clean"]
     /\ UNCHANGED <<scopeVars, op, raw, meta, lock, obj, heapVars, gcVars, races>>

\* ... then clear_dirty, and the lock is released.
FlushClean(t) ==
  LET p == op[t].ptr
  IN /\ pc[t] = "flush_clean"
     /\ meta' = [meta EXCEPT ![p].dirty = FALSE]
     /\ Record("flush_in_use",
               ~remote[p] \/ \E u \in Threads : \E w \in raw[u] : w.ptr = p /\ w.mut)
     /\ lock' = [lock EXCEPT ![p] = None]
     /\ op' = [op EXCEPT ![t] = Idle]
     /\ pc' = [pc EXCEPT ![t] = "out"]
     /\ UNCHANGED <<scopeVars, raw, obj, remote, heapVars, gcVars>>

-----------------------------------------------------------------------------
(* The collector: one round of FarMemManager::gc_cache.                    *)

FromRegions == {r \in Regions : rstate[r] = "from"}
Allocated(rs) == {a \in Addr : a[1] \in rs /\ a[2] <= bump[a[1]]}
PhaseDone == todo = {}

pick_from_regions_AnyUsed ==
  /\ gc = "idle"
  /\ \E rs \in SUBSET {r \in Regions : rstate[r] = "used"} :
       /\ rs # {}
       /\ rstate' = [r \in Regions |-> IF r \in rs THEN "from" ELSE rstate[r]]
       /\ todo' = Allocated(rs)
  /\ gc' = "mark"
  /\ UNCHANGED <<scopeVars, threadVars, meta, lock, obj, remote, bump, refcnt,
                 cur, swap, races>>

\* Phase 1, pick_from_regions: only regions whose objects are all initialised.
pick_from_regions ==
  /\ gc = "idle"
  /\ \E rs \in SUBSET {r \in Regions : rstate[r] = "used" /\ refcnt[r] = 0} :
       /\ rs # {}
       /\ rstate' = [r \in Regions |-> IF r \in rs THEN "from" ELSE rstate[r]]
       /\ todo' = Allocated(rs)
  /\ gc' = "mark"
  /\ UNCHANGED <<scopeVars, threadVars, meta, lock, obj, remote, bump, refcnt,
                 cur, swap, races>>

\* A freed object is skipped by the marker and by the write-backer.
SkipFreed ==
  /\ gc \in {"mark", "wb"}
  /\ \E a \in todo :
       /\ obj[a].freed
       /\ todo' = todo \ {a}
  /\ UNCHANGED <<scopeVars, threadVars, meta, lock, obj, remote, heapVars, gc,
                 swap, races>>

\* Phase 2, mark_fm_ptrs: the evacuation bit is set under the object lock.
MarkObj(a) ==
  LET p == obj[a].ptr
  IN /\ gc = "mark"
     /\ a \in todo
     /\ ~obj[a].freed
     /\ lock[p] = None
     /\ meta' = IF meta[p].state = "present"
                THEN [meta EXCEPT ![p].evac = TRUE] ELSE meta
     /\ Record("wild_meta", meta[p].state # "present")
     /\ todo' = todo \ {a}
     /\ UNCHANGED <<scopeVars, threadVars, lock, obj, remote, heapVars, gc,
                    swap>>

\* Phase 3, wait_mutators_observation: flip the expected status ...
FlipExpected ==
  /\ gc = "mark"
  /\ PhaseDone
  /\ expected' = flip_status(expected)
  /\ gc' = "wait"
  /\ UNCHANGED <<status, threadVars, meta, lock, obj, remote, heapVars,
                 todo, swap, races>>

WaitDone_AtOnce ==
  /\ gc = "wait"
  /\ todo' = Allocated(FromRegions)
  /\ gc' = "wb"
  /\ UNCHANGED <<scopeVars, threadVars, meta, lock, obj, remote, heapVars,
                 swap, races>>

\* ... and wait until no thread is counted under the old one.
WaitDone ==
  /\ gc = "wait"
  /\ Counted(flip_status(expected)) = {}
  /\ todo' = Allocated(FromRegions)
  /\ gc' = "wb"
  /\ UNCHANGED <<scopeVars, threadVars, meta, lock, obj, remote, heapVars,
                 swap, races>>

\* Phase 4, swap_out under the object lock; an object no longer marked is left
\* alone, for the others the hot and dirty bits are read first ...
SwapOutLock(a) ==
  LET p == obj[a].ptr
      m == meta[p]
  IN /\ gc = "wb"
     /\ a \in todo
     /\ ~obj[a].freed
     /\ lock[p] = None
     /\ IF m.evac
        THEN /\ lock' = [lock EXCEPT ![p] = GC]
             /\ swap' = [swap EXCEPT ![p] =
                  [addr |-> a, hot |-> m.hot = 0, dirty |-> m.dirty]]
             /\ UNCHANGED todo
        ELSE /\ todo' = todo \ {a}
             /\ UNCHANGED <<lock, swap>>
     /\ UNCHANGED <<scopeVars, threadVars, meta, obj, remote, heapVars, gc,
                    races>>

SwapOutEnd(p) ==
  /\ lock' = [lock EXCEPT ![p] = None]
  /\ swap' = [swap EXCEPT ![p] = None]
  /\ todo' = todo \ {swap[p].addr}

\* ... a hot object is copied to the core-local region, if there is room ...
SwapOutCopy(p, c) ==
  /\ swap[p] # None
  /\ swap[p].hot
  /\ \E a \in Addr :
       /\ allocate_local_object(c, a, 0)
       /\ obj' = [obj EXCEPT ![a] = obj[swap[p].addr]]
       /\ meta' = [meta EXCEPT ![p] = gc_copy(@, a)]
  /\ SwapOutEnd(p)
  /\ UNCHANGED <<scopeVars, threadVars, remote, gc, races>>

\* ... and written back otherwise, or when the copy cannot be allocated.  A hot
\* object is also written back when it is non-temporal or memory is almost
\* exhausted, which this module leaves open.
SwapOutWriteBack(p, c) ==
  /\ swap[p] # None
  /\ \/ UNCHANGED heapVars
     \/ swap[p].hot /\ allocate_local_object_fails(c)
  /\ remote' = IF swap[p].dirty
               THEN [remote EXCEPT ![p] = obj[swap[p].addr].fresh] ELSE remote
  /\ meta' = [meta EXCEPT ![p] = gc_wb]
  /\ SwapOutEnd(p)
  /\ UNCHANGED <<scopeVars, threadVars, obj, gc, races>>

WriteBackDone_Early ==
  /\ gc = "wb"
  /\ gc' = "free"
  /\ UNCHANGED <<scopeVars, threadVars, meta, lock, obj, remote, heapVars,
                 todo, swap, races>>

WriteBackDone ==
  /\ gc = "wb"
  /\ PhaseDone
  /\ gc' = "free"
  /\ UNCHANGED <<scopeVars, threadVars, meta, lock, obj, remote, heapVars,
                 todo, swap, races>>

\* Contents a thread can still get at: the others are forgotten when their
\* region is freed (the code leaves the bytes where they are).
Readable(a) == \E t \in Threads :
  op[t].addr = a \/ \E w \in raw[t] : w.addr = a

\* Phase 5, push_cache_free_region, region by region.
PushFreeRegion(r) ==
  /\ gc = "free"
  /\ rstate[r] = "from"
  /\ rstate' = [rstate EXCEPT ![r] = "free"]
  /\ bump' = [bump EXCEPT ![r] = 0]
  /\ obj' = [a \in Addr |-> IF a[1] = r /\ ~Readable(a) THEN Unused ELSE obj[a]]
  /\ gc' = IF FromRegions = {r} THEN "idle" ELSE "free"
  /\ UNCHANGED <<scopeVars, threadVars, meta, lock, remote, refcnt, cur,
                 todo, swap, races>>

-----------------------------------------------------------------------------
Init ==
  /\ expected = "V0"
  /\ status = [t \in Threads |-> "Out"]
  /\ pc = [t \in Threads |-> "out"]
  /\ op = [t \in Threads |-> Idle]
  /\ raw = [t \in Threads |-> {}]
  /\ meta = [p \in Ptrs |-> Null]
  /\ lock = [p \in Ptrs |-> None]
  /\ obj = [a \in Addr |-> Unused]
  /\ remote = [p \in Ptrs |-> FALSE]
  /\ cur \in [Cores -> Regions]
  /\ \A c, d \in Cores : cur[c] = cur[d] => c = d
  /\ rstate = [r \in Regions |-> IF \E c \in Cores : cur[c] = r
                               THEN "local" ELSE "free"]
  /\ bump = [r \in Regions |-> 0]
  /\ refcnt = [r \in Regions |-> 0]
  /\ gc = "idle"
  /\ todo = {}
  /\ swap = [p \in Ptrs |-> None]
  /\ races = {}

\* Steps that finish an operation a thread has begun.
Finish(t) ==
  \/ EnterCount(t) \/ AllocInit(t)
  \/ DerefRetry(t) \/ DerefBits(t)
  \/ SwapInLock(t) \/ (\E c \in Cores : SwapInAlloc(t, c)) \/ SwapInRead(t)
  \/ MigrateSnap(t) \/ MigrateCheck(t) \/ MigrateLock(t)
  \/ (\E c \in Cores : MigrateCopy(t, c)) \/ MigratePublish(t)
  \/ FlushLock(t) \/ FlushRetry(t) \/ FlushWrite(t) \/ FlushClean(t)

\* Operations a thread may begin.
Begin(t) ==
  \/ EnterSnapshot(t) \/ Exit(t) \/ Write(t)
  \/ \E p \in Ptrs :
       \/ Free(t, p) \/ FlushStart(t, p)
       \/ \E mut \in BOOLEAN : DerefStart(t, p, mut)
       \/ \E c \in Cores : AllocLocal(t, p, c)

Collector ==
  \/ pick_from_regions \/ SkipFreed \/ FlipExpected \/ WaitDone
  \/ WriteBackDone
  \/ \E a \in Addr : MarkObj(a) \/ SwapOutLock(a)
  \/ \E p \in Ptrs, c \in Cores : SwapOutCopy(p, c) \/ SwapOutWriteBack(p, c)
  \/ \E r \in Regions : PushFreeRegion(r)

Next == Collector \/ \E t \in Threads : Begin(t) \/ Finish(t)

Spec == Init /\ [][Next]_vars

\* Every operation a thread has begun goes on, the collector goes on, and the
\* application leaves every scope it enters.
Fairness ==
  /\ WF_vars(Collector)
  /\ \A t \in Threads : WF_vars(Finish(t)) /\ SF_vars(Exit(t))

FairSpec == Spec /\ Fairness

-----------------------------------------------------------------------------
(* What the scope protects.                                                *)

\* Unless a thread was counted late, the collector waits for the right
\* threads: outside the wait itself, everybody in a scope is in a scope of the
\* current status, so no raw pointer of the previous round is left
\* (wait_mutators_observation).
GracePeriod ==
  "late_enter" \notin races /\ gc # "wait" =>
    Counted(flip_status(expected)) = {}

\* A raw pointer refers to memory of its own object as long as its scope lasts:
\* the region is not on the free list and the slot was not given to another
\* object (swap_out, push_cache_free_region), even when a mutator has moved
\* the object since.
RawIsOwned ==
  races \subseteq {"split_object"} =>
    \A t \in Threads : \A w \in raw[t] :
      rstate[w.addr[1]] # "free" /\ obj[w.addr].ptr = w.ptr

\* Without any race, no write through deref_mut is ever lost: the copy a
\* dereference would reach, local or in far memory, has every write.
NoLostUpdate ==
  races = {} => \A p \in Ptrs :
    /\ meta[p].state = "present" => obj[meta[p].addr].fresh
    /\ meta[p].state = "absent" => remote[p]

\* Before a region is reused every live object has left it, whether the
\* collector or a mutator moved it.
ReclaimedIsDead ==
  races \subseteq {"split_object"} => \A p \in Ptrs :
    meta[p].state = "present" =>
      /\ rstate[meta[p].addr[1]] # "free"
      /\ gc = "free" => rstate[meta[p].addr[1]] # "from"

\* The collector never visits an object whose header is not written yet:
\* region references are held from allocation to initialisation (Region's
\* reference count, pop_used_region).
InitBeforeVisit ==
  \A t \in Threads : pc[t] \in {"alloc", "swap_read"} =>
    /\ rstate[op[t].new[1]] \in {"local", "used"}
    /\ refcnt[op[t].new[1]] > 0

\* The collector's wait for the mutators ends (wait_mutators_observation).
WaitEnds == gc = "wait" ~> gc = "wb"

\* A dereference returns however often the collector takes the object away
\* (the retry loop of _deref).
DerefReturns ==
  \A t \in Threads : pc[t] \in {"deref", "swap_in", "migrate"} ~> pc[t] = "in"

\* The scopes of this module, with their counters abstracted to the set of
\* counted threads.
Scopes == INSTANCE ScopeSpec WITH
  scope <- [t \in Threads |-> IF pc[t] = "entering" THEN "Out" ELSE status[t]],
  waiting <- gc = "wait",
  late <- "late_enter" \in races

\* Whatever the pointer operations and the phases of a round do in between, the
\* mutators and the collector use scopes as ScopeSpec promises, the promise
\* the per-core counters of DerefScope are shown to keep
\* (wait_mutators_observation).
UsesScopes == Scopes!Spec

-----------------------------------------------------------------------------
(* What comments and tests claim and the code does not guarantee.          *)

\* wait_mutators_observation, "Wait all mutator threads swicth to the new
\* status", with only late entries among the races.
AllSwitched ==
  races \subseteq {"late_enter"} /\ gc \in {"wb", "free"} =>
    Counted(flip_status(expected)) = {}
=============================================================================
