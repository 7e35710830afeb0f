------------------------------- MODULE Hopscotch -------------------------------
(***************************************************************************)
(* GenericConcurrentHopscotch (src/concurrent_hopscotch.cpp and            *)
(* inc/internal/concurrent_hopscotch.ipp), as built without                *)
(* HASHTABLE_EXCLUSIVE: the cached part of a hash table whose other part is *)
(* at the server.  get is lock-free, put and remove lock the home bucket   *)
(* of the key, put moves other keys to make room near the home bucket, and *)
(* the collector takes objects out of the table behind everybody's back.   *)
(*                                                                         *)
(* An operation runs in one dereference scope, so an object it has         *)
(* dereferenced is not evicted before it ends (pinned; see Evacuator).     *)
(* Values all have one length; copying one takes time, and a get can copy  *)
(* what a put is writing.  A step is one access to shared state; accesses  *)
(* under a lock that nobody else can tell apart are merged.                *)
(***************************************************************************)
EXTENDS Integers, FiniteSets, FiniteSetsExt, Functions

CONSTANTS
  Threads, Keys, Vals,
  ShortKeys,      \* the keys of less than sizeof(uint64_t) bytes
  Home,           \* [Keys -> Homes], the hash function and kHashMask_
  NumHomes,       \* kHashMask_ + 1
  kNeighborhood,
  kMaxRetries,
  Loaded,         \* [some entries -> the keys put there beforehand]
  MaxOps,         \* bound: operations started
  MaxFails,       \* bound: failed allocations
  Null, kBusyPtr, \* the two pointer values for which is_null() is true
  None

Homes   == 0..(NumHomes - 1)
kNumEntries == NumHomes + kNeighborhood
Entries == 0..(kNumEntries - 1)
Offsets == 0..(kNeighborhood - 1)

ASSUME HomeAssumption == Home \in [Keys -> Homes]
ASSUME SizeAssumption ==
  NumHomes \in Nat \ {0} /\ kNeighborhood \in Nat \ {0} /\ kMaxRetries \in Nat
ASSUME LoadedAssumption ==
  /\ DOMAIN Loaded \subseteq Entries /\ IsInjective(Loaded)
  /\ \A e \in DOMAIN Loaded : Loaded[e] \in Keys /\ e - Home[Loaded[e]] \in Offsets

VARIABLES
  bitmap,     \* [Entries -> SUBSET Offsets]
  spin,       \* [Entries -> the thread that holds the bucket's lock, or None]
  ptr,        \* [Entries -> Null, kBusyPtr or an object]
  stash,      \* evac_notifier_stash_, metas <<anchor, offset>>
  notes,      \* metas whose entry was nullified and whose bit was not cleared yet
  remote,     \* [Keys -> the value at the server, or None]
  pc, op,     \* [Threads -> step; operation and its local variables]
  pinned,     \* [Threads -> keys whose object the thread has dereferenced]
  late,       \* readers whose bucket's timestamp grew since they read it
  torn,       \* readers that copied a value while a put wrote it: bytes of two values
  left,       \* operations and failures left
  seen,       \* history: [Threads -> values its key had since the get started]
  races       \* history: the hazards below that have happened

table == <<bitmap, spin, ptr, stash, notes, remote>>
vars  == <<table, pc, op, pinned, late, torn, left, seen, races>>

Objects == [key : Keys, val : Vals, dirty : BOOLEAN, anchor : Homes, offset : Offsets]
Metas   == Entries \X Offsets

ASSUME NoneAssumption == None \notin Threads \cup Vals
ASSUME NullAssumption == Null # kBusyPtr /\ Objects \cap {Null, kBusyPtr} = {}

IsNull(e) == ptr[e] \in {Null, kBusyPtr}

Idle == [kind |-> "none", key |-> None, val |-> None, home |-> 0, idx |-> 0,
         dist |-> 0, bits |-> {}, tries |-> 0]

Reading == {"stamp", "bits", "look", "value", "recheck", "slow", "slowscan", "forward"}
Writing == {"lock", "scan", "write", "stash", "probe", "room", "from", "tick", "copy",
            "reset", "clear", "alloc", "publish", "remote"}

\* The value of k: what its home bucket leads to, else what the server has.
Slots(b) == {b + o : o \in bitmap[b]}
Holding(k) == {e \in Slots(Home[k]) : ~IsNull(e) /\ ptr[e].key = k}
Lookup(k) == IF Holding(k) # {} THEN ptr[Min(Holding(k))].val ELSE remote[k]

TypeOK ==
  /\ bitmap \in [Entries -> SUBSET Offsets]
  /\ spin \in [Entries -> Threads \cup {None}]
  /\ \A e \in Entries : IsNull(e) \/ ptr[e] \in Objects
  /\ stash \subseteq Metas /\ notes \subseteq Metas
  /\ remote \in [Keys -> Vals \cup {None}]
  /\ pc \in [Threads -> Reading \cup Writing \cup {"idle", "bug"}]
  /\ \A t \in Threads :
       /\ op[t].key \in (IF pc[t] = "idle" THEN {None} ELSE Keys)
       /\ op[t].idx \in 0..kNumEntries /\ op[t].home \in 0..kNumEntries
       /\ op[t].dist \in Offsets /\ op[t].bits \subseteq Offsets
  /\ pinned \in [Threads -> SUBSET Keys] /\ late \cup torn \subseteq Threads

-----------------------------------------------------------------------------
\* Parts of steps.

Goto(t, step) == pc' = [pc EXCEPT ![t] = step]
Pin(t, keys) == pinned' = [pinned EXCEPT ![t] = @ \cup keys]
Key(t) == op[t].key
Home_(t) == op[t].home
Swap(t) == op[t].kind = "get"    \* a put on behalf of a get: swap_in
Asking(t) == op[t].kind = "get" /\ (op[t].val = None \/ pc[t] = "value")    \* no answer yet
Race(r) == races' = races \cup r

\* The operation ends, and with it the scope.
Done(t) ==
  /\ Goto(t, "idle")
  /\ op' = [op EXCEPT ![t] = Idle]
  /\ pinned' = [pinned EXCEPT ![t] = {}]

\* Retry after a null pointer: first process_evac_notifier_stash.
Restart(t) ==
  /\ Goto(t, "stash")
  /\ UNCHANGED <<op, pinned>>

\* do_evac_notifier: clear the bit, or leave it to whoever processes the stash.
Notify(meta) ==
  IF spin[meta[1]] = None
  THEN /\ bitmap' = [bitmap EXCEPT ![meta[1]] =
                       IF meta[2] \in @ THEN @ \ {meta[2]} ELSE @ \cup {meta[2]}]
       /\ stash' = stash \ {meta}
  ELSE stash' = stash \cup {meta} /\ UNCHANGED bitmap

\* What a locked scan of bucket b sees, in the order of the bits: it stops at
\* the key or, unless nulls are skipped, at a null pointer.
Stops(b, k, skip) ==
  {o \in bitmap[b] : IF IsNull(b + o) THEN ~skip ELSE ptr[b + o].key = k}
Passed(b, k, skip) ==
  LET stop == Stops(b, k, skip)
  IN {ptr[b + o].key : o \in {x \in bitmap[b] : ~IsNull(b + x)
                                /\ (stop = {} \/ x <= Min(stop))}}

-----------------------------------------------------------------------------
\* put, remove, get begin.
Start(t, kind, k, v) ==
  /\ pc[t] = "idle" /\ left.ops > 0
  /\ Goto(t, IF kind = "get" THEN "stamp" ELSE "lock")
  /\ op' = [op EXCEPT ![t] = [Idle EXCEPT !.kind = kind, !.key = k, !.val = v,
                                          !.home = Home[k], !.idx = Home[k]]]
  /\ left' = [left EXCEPT !.ops = @ - 1]
  /\ UNCHANGED <<table, pinned, late, races>>

\* Lock the bucket of bucket_idx; a retry of _put that had advanced bucket_idx
\* takes another bucket for the home of the key.
LockBucket(t) ==
  /\ pc[t] = "lock"
  /\ spin[op[t].idx] = None
  /\ spin' = [spin EXCEPT ![op[t].idx] = t]
  /\ op' = [op EXCEPT ![t].home = op[t].idx]
  /\ Race(IF op[t].idx # Home[Key(t)] THEN {"wrong_home"} ELSE {})
  /\ Goto(t, "scan")
  /\ UNCHANGED <<bitmap, ptr, stash, notes, remote, pinned, late, left>>

\* Somebody has removed k here and is about to remove it at the server.
Pending(k) == \E u \in Threads : pc[u] = "remote" /\ op[u].key = k

\* _put and _remove look for the key in the bucket they have locked.
Scan(t) ==
  LET b == Home_(t)
      stop == Stops(b, Key(t), FALSE)
      e == b + Min(stop)
  IN /\ pc[t] = "scan"
     /\ \/ /\ stop # {} /\ IsNull(e)
           /\ Goto(t, "stash") /\ Pin(t, Passed(b, Key(t), FALSE))
           /\ spin' = [spin EXCEPT ![b] = None]
           /\ UNCHANGED <<bitmap, ptr, op, races>>
        \/ /\ stop # {} /\ ~IsNull(e) /\ op[t].kind # "remove"
           /\ ptr' = [ptr EXCEPT ![e].val = op[t].val, ![e].dirty = @ \/ ~Swap(t)]
           /\ Race(IF Swap(t) /\ (ptr[e].val # op[t].val \/ Pending(Key(t)))
                   THEN {"stale_forward"} ELSE {})
           /\ IF ptr[e].val = op[t].val    \* no byte changes
              THEN spin' = [spin EXCEPT ![b] = None] /\ Done(t)
              ELSE /\ Goto(t, "write") /\ Pin(t, Passed(b, Key(t), FALSE))
                   /\ UNCHANGED <<spin, op>>
           /\ UNCHANGED bitmap
        \/ /\ stop # {} /\ ~IsNull(e) /\ op[t].kind = "remove"
           /\ bitmap' = [bitmap EXCEPT ![b] = @ \ {e - b}]
           /\ ptr' = [ptr EXCEPT ![e] = Null]
           /\ pinned' = [u \in Threads |-> pinned[u] \ {Key(t)}]
           /\ spin' = [spin EXCEPT ![b] = None]
           /\ Goto(t, "remote")
           /\ UNCHANGED <<op, races>>
        \/ /\ stop = {} /\ op[t].kind = "remove"
           /\ spin' = [spin EXCEPT ![b] = None]
           /\ Goto(t, "remote") /\ Pin(t, Passed(b, Key(t), FALSE))
           /\ UNCHANGED <<bitmap, ptr, op, races>>
        \/ /\ stop = {} /\ op[t].kind # "remove"
           /\ Goto(t, "probe") /\ Pin(t, Passed(b, Key(t), FALSE))
           /\ UNCHANGED <<bitmap, spin, ptr, op, races>>
     /\ UNCHANGED <<stash, notes, remote, late, left>>

\* The memcpy over the old value has ended; no timestamp tells the readers.
WriteVal(t) ==
  /\ pc[t] = "write"
  /\ spin' = [spin EXCEPT ![Home_(t)] = None]
  /\ Done(t)
  /\ UNCHANGED <<bitmap, ptr, stash, notes, remote, late, races, left>>

\* process_evac_notifier_stash, one meta at a time, then retry.  A put that
\* could not move a key still holds the lock of that key's bucket.
Stash(t) ==
  /\ pc[t] = "stash"
  /\ \/ \E meta \in stash :
          /\ ptr' = [ptr EXCEPT ![meta[1] + meta[2]] = Null]
          /\ Notify(meta)
          /\ Race(IF spin[meta[1]] = t THEN {"self_stash"} ELSE {})
          /\ UNCHANGED <<spin, pc>>
     \/ /\ stash = {}
        /\ spin' = [e \in Entries |-> IF spin[e] = t THEN None ELSE spin[e]]
        /\ Goto(t, IF Asking(t) THEN "stamp" ELSE "lock")
        /\ UNCHANGED <<bitmap, ptr, stash, races>>
  /\ UNCHANGED <<notes, remote, op, pinned, late, left>>

\* Reserve the first empty entry.  A bit may still lead to it: the collector
\* nullifies the pointer before it clears the bit.
Probe(t) ==
  LET i == op[t].idx
  IN /\ pc[t] = "probe"
     /\ \/ /\ i < kNumEntries /\ ptr[i] = Null
           /\ ptr' = [ptr EXCEPT ![i] = kBusyPtr]
           /\ Race(IF \E b \in Entries : i \in Slots(b) THEN {"early_reuse"} ELSE {})
           /\ op' = [op EXCEPT ![t].dist = kNeighborhood - 1]
           /\ Goto(t, "room")
        \/ /\ i < kNumEntries /\ ptr[i] # Null
           /\ op' = [op EXCEPT ![t].idx = i + 1]
           /\ UNCHANGED <<ptr, pc, races>>
     /\ UNCHANGED <<bitmap, spin, stash, notes, remote, pinned, late, left>>

Room_NoCheck(t) ==
  LET i == op[t].idx
      a == i - op[t].dist
  IN /\ pc[t] = "room"
     /\ \/ i - Home_(t) < kNeighborhood /\ Goto(t, "alloc") /\ UNCHANGED op
        \/ /\ i - Home_(t) >= kNeighborhood /\ bitmap[a] = {}
           /\ op' = [op EXCEPT ![t].dist = @ - 1]
           /\ UNCHANGED pc
     /\ UNCHANGED <<table, pinned, late, races, left>>

\* Is the entry near enough?  Else look for a bucket before it, farthest
\* first, one of whose keys can move into it, and lock that bucket.
Room(t) ==
  LET i == op[t].idx
      a == i - op[t].dist
  IN /\ pc[t] = "room"
     /\ \/ /\ i - Home_(t) < kNeighborhood
           /\ Goto(t, "alloc")
           /\ UNCHANGED <<spin, op>>
        \/ /\ i - Home_(t) >= kNeighborhood /\ op[t].dist > 0
           /\ \/ bitmap[a] = {}
              \/ bitmap[a] # {} /\ spin[a] = None /\ a + Min(bitmap[a]) >= i
           /\ op' = [op EXCEPT ![t].dist = @ - 1]
           /\ UNCHANGED <<spin, pc>>
        \/ /\ i - Home_(t) >= kNeighborhood /\ op[t].dist > 0
           /\ bitmap[a] # {} /\ spin[a] = None /\ a + Min(bitmap[a]) < i
           /\ spin' = [spin EXCEPT ![a] = t]
           /\ Goto(t, "from")
           /\ UNCHANGED op
     /\ UNCHANGED <<bitmap, ptr, stash, notes, remote, pinned, late, races, left>>

\* BUG(): no empty entry, or no key that can be moved.
Bug(t) ==
  /\ \/ pc[t] = "probe" /\ op[t].idx = kNumEntries
     \/ /\ pc[t] = "room" /\ op[t].dist = 0
        /\ op[t].idx - Home_(t) >= kNeighborhood
  /\ Goto(t, "bug")
  /\ UNCHANGED <<table, op, pinned, late, races, left>>

\* The bucket a put has locked to make room, and the entry it empties.
Anchor(t) == op[t].idx - op[t].dist
From(t)   == Anchor(t) + Min(bitmap[Anchor(t)])

Dislodge_KeepsEntry(t) ==
  /\ pc[t] = "from" /\ IsNull(From(t))
  /\ spin' = [spin EXCEPT ![Home_(t)] = None]
  /\ Restart(t)
  /\ UNCHANGED <<bitmap, ptr, stash, notes, remote, late, races, left>>

Dislodge_NoBit(t) ==
  /\ pc[t] = "from" /\ ~IsNull(From(t))
  /\ Pin(t, {ptr[From(t)].key})
  /\ ptr' = [ptr EXCEPT ![From(t)].offset = op[t].dist]
  /\ Goto(t, "tick")
  /\ UNCHANGED <<bitmap, spin, op, stash, notes, remote, late, races, left>>

\* Dereference the key to move.  If it is gone, release the entry and retry;
\* else tell the object and the bitmap its new place.
Dislodge(t) ==
  LET i == op[t].idx
      f == From(t)
  IN /\ pc[t] = "from"
     /\ \/ /\ IsNull(f)
           /\ spin' = [spin EXCEPT ![Home_(t)] = None]
           /\ ptr' = [ptr EXCEPT ![i] = Null]
           /\ Restart(t)
           /\ UNCHANGED bitmap
        \/ /\ ~IsNull(f)
           /\ Pin(t, {ptr[f].key})
           /\ ptr' = [ptr EXCEPT ![f].offset = op[t].dist]
           /\ bitmap' = [bitmap EXCEPT ![Anchor(t)] = @ \cup {op[t].dist}]
           /\ Goto(t, "tick")
           /\ UNCHANGED <<spin, op>>
     /\ UNCHANGED <<stash, notes, remote, late, races, left>>

Tick_Missing(t) ==
  /\ pc[t] = "tick"
  /\ Goto(t, "copy")
  /\ UNCHANGED <<table, op, pinned, late, races, left>>

\* timestamp++: readers of this bucket are told that they may have missed a key.
Tick(t) ==
  /\ pc[t] = "tick"
  /\ late' = late \cup {u \in Threads : pc[u] \in {"bits", "look", "recheck"}
                                         /\ op[u].home = Anchor(t)}
  /\ Goto(t, "copy")
  /\ UNCHANGED <<table, op, pinned, races, left>>

\* GenericFarMemPtr::move: the pointer is at its new place before it is busy
\* at its old one (Unmove says what its lock on the object is worth).
CopyPtr(t) ==
  /\ pc[t] = "copy"
  /\ ptr' = [ptr EXCEPT ![op[t].idx] = ptr[From(t)]]
  /\ Goto(t, "reset")
  /\ UNCHANGED <<bitmap, spin, stash, notes, remote, op, pinned, late, races, left>>

ResetPtr(t) ==
  /\ pc[t] = "reset"
  /\ ptr' = [ptr EXCEPT ![From(t)] = kBusyPtr]
  /\ Goto(t, "clear")
  /\ UNCHANGED <<bitmap, spin, stash, notes, remote, op, pinned, late, races, left>>

\* The old bit is cleared, and the emptied entry is the one to bring closer.
ClearBit(t) ==
  /\ pc[t] = "clear"
  /\ bitmap' = [bitmap EXCEPT ![Anchor(t)] = @ \ {Min(@)}]
  /\ spin' = [spin EXCEPT ![Anchor(t)] = None]
  /\ op' = [op EXCEPT ![t].idx = From(t), ![t].dist = kNeighborhood - 1]
  /\ Goto(t, "room")
  /\ UNCHANGED <<ptr, stash, notes, remote, pinned, late, races, left>>

\* Allocate and fill the object; without memory start over, with bucket_idx
\* where it is and the entry still reserved.
Allocate(t) ==
  LET i == op[t].idx
  IN /\ pc[t] = "alloc"
     /\ \/ /\ ptr' = [ptr EXCEPT ![i] = [key |-> Key(t), val |-> op[t].val,
                                         dirty |-> ~Swap(t), anchor |-> Home_(t),
                                         offset |-> i - Home_(t)]]
           /\ Pin(t, {Key(t)})
           /\ Goto(t, "publish")
           /\ UNCHANGED <<spin, left, races>>
        \/ /\ left.fails > 0
           /\ left' = [left EXCEPT !.fails = @ - 1]
           /\ spin' = [spin EXCEPT ![Home_(t)] = None]
           /\ Race({"leak"})
           /\ Goto(t, "lock")
           /\ UNCHANGED <<ptr, pinned>>
     /\ UNCHANGED <<bitmap, stash, notes, remote, op, late>>

\* Set the bit.  A value from the server may be outdated by now.
Publish(t) ==
  LET b == Home_(t)
  IN /\ pc[t] = "publish"
     /\ bitmap' = [bitmap EXCEPT ![b] = @ \cup {op[t].idx - b}]
     /\ spin' = [spin EXCEPT ![b] = None]
     /\ IF Swap(t)
        THEN /\ Race(IF Lookup(Key(t)) # op[t].val \/ Pending(Key(t))
                     THEN {"stale_forward"} ELSE {})
             /\ Done(t)
        ELSE Goto(t, "remote") /\ UNCHANGED <<op, pinned, races>>
     /\ UNCHANGED <<ptr, stash, notes, remote, late, left>>

\* remove_object at the server, the last step of put and of remove.  A put is
\* too late if the object it inserted has been removed since, and too early
\* for a get that read the bitmap before the insertion and asks the server next.
RemoveRemote(t) ==
  /\ pc[t] = "remote"
  /\ remote' = [remote EXCEPT ![Key(t)] = None]
  /\ Race({r \in {"late_remove", "crossed_get"} :
            /\ op[t].kind = "put"
            /\ r = "late_remove" => Key(t) \notin pinned[t]
            /\ r = "crossed_get" => \E u \in Threads : Asking(u) /\ Key(u) = Key(t)
                                     /\ pc[u] \in {"look", "recheck", "forward"}})
  /\ Done(t)
  /\ UNCHANGED <<bitmap, spin, ptr, stash, notes, late, left>>

-----------------------------------------------------------------------------
\* __get without a lock: timestamp, bitmap, one entry after the other.

ReadStamp(t) ==
  /\ pc[t] = "stamp"
  /\ late' = late \ {t}
  /\ Goto(t, "bits")
  /\ UNCHANGED <<table, op, pinned, races, left>>

ReadBits(t) ==
  /\ pc[t] = "bits"
  /\ op' = [op EXCEPT ![t].bits = bitmap[Home_(t)]]
  /\ Goto(t, "look")
  /\ UNCHANGED <<table, pinned, late, races, left>>

Look(t) ==
  LET e == Home_(t) + Min(op[t].bits)
      next == [op EXCEPT ![t].bits = @ \ {Min(@)}]
  IN /\ pc[t] = "look"
     /\ \/ /\ op[t].bits = {}
           /\ Goto(t, "recheck")
           /\ UNCHANGED <<op, pinned>>
        \/ /\ op[t].bits # {} /\ IsNull(e)
           /\ \/ op' = next /\ UNCHANGED <<pc, pinned>>
              \/ Restart(t)    \* nullified after is_null was asked
        \/ /\ op[t].bits # {} /\ ~IsNull(e)
           /\ IF ptr[e].key = Key(t)
              THEN op' = [op EXCEPT ![t].val = ptr[e].val] /\ Goto(t, "value")
              ELSE op' = next /\ UNCHANGED pc
           /\ Pin(t, {ptr[e].key})
     /\ Race(IF op[t].bits # {} /\ \E u \in Threads : pc[u] = "publish" /\ op[u].idx = e
             THEN {"early_read"} ELSE {})
     /\ UNCHANGED <<table, late, left>>

\* The memcpy of the value has ended, and is not checked.
CopyVal(t) ==
  /\ pc[t] = "value"
  /\ Done(t)
  /\ UNCHANGED <<table, late, races, left>>

\* A miss counts if no key was moved meanwhile.
Recheck(t) ==
  /\ pc[t] = "recheck"
  /\ IF t \in late
     THEN IF op[t].tries < kMaxRetries
          THEN op' = [op EXCEPT ![t].tries = @ + 1] /\ Goto(t, "stamp")
          ELSE Goto(t, "slow") /\ UNCHANGED op
     ELSE Goto(t, "forward") /\ UNCHANGED op
  /\ late' = late \ {t}
  /\ UNCHANGED <<table, pinned, races, left>>

LockSlow(t) ==
  /\ pc[t] = "slow" /\ spin[Home_(t)] = None
  /\ spin' = [spin EXCEPT ![Home_(t)] = t]
  /\ Goto(t, "slowscan")
  /\ UNCHANGED <<bitmap, ptr, stash, notes, remote, op, pinned, late, races, left>>

ScanSlow(t) ==
  /\ pc[t] = "slowscan"
  /\ spin' = [spin EXCEPT ![Home_(t)] = None]
  /\ IF Stops(Home_(t), Key(t), TRUE) # {}
     THEN Done(t)
     ELSE /\ Goto(t, "forward") /\ Pin(t, Passed(Home_(t), Key(t), TRUE))
          /\ UNCHANGED op
  /\ UNCHANGED <<bitmap, ptr, stash, notes, remote, late, races, left>>

\* forward_get: ask the server, and put what it says into the table.
Forward(t) ==
  /\ pc[t] = "forward"
  /\ IF remote[Key(t)] = None
     THEN Done(t)
     ELSE /\ op' = [op EXCEPT ![t].val = remote[Key(t)], ![t].bits = {}]
          /\ Goto(t, "lock")
          /\ UNCHANGED pinned
  /\ UNCHANGED <<table, late, races, left>>

-----------------------------------------------------------------------------
\* The collector writes back an object nobody has dereferenced, and nullifies
\* the entry its meta names.  evac_notifier has emptied the stash before.
Evict(e) ==
  LET o == ptr[e]
      meta == <<o.anchor, o.offset>>
  IN /\ ~IsNull(e)
     /\ \A t \in Threads : o.key \notin pinned[t]
     /\ stash = {}
     /\ remote' = IF o.dirty THEN [remote EXCEPT ![o.key] = o.val] ELSE remote
     /\ ptr' = [ptr EXCEPT ![meta[1] + meta[2]] = Null]
     /\ notes' = notes \cup {meta}
     /\ UNCHANGED <<bitmap, spin, stash, pc, op, pinned, late, left, races>>

\* The rest of do_evac_notifier for a new meta, or for one from the stash.
Note(meta) ==
  /\ meta \in notes
  /\ Notify(meta)
  /\ notes' = notes \ {meta}
  /\ UNCHANGED <<spin, ptr, remote, pc, op, pinned, late, left, races>>

Restash(meta) ==
  /\ meta \in stash
  /\ ptr' = [ptr EXCEPT ![meta[1] + meta[2]] = Null]
  /\ Notify(meta)
  /\ UNCHANGED <<spin, notes, remote, pc, op, pinned, late, left, races>>

\* The collector marks, or a get that dereferences it migrates, the pointer that
\* move has copied and is going to reset, and what it wrote is lost.  They lock the
\* key; move locks eight bytes, which is another lock if the key has less.
Unmove(t) ==
  /\ pc[t] = "reset" /\ ptr[From(t)].key \in ShortKeys
  /\ Race({"split_move"})
  /\ UNCHANGED <<table, pc, op, pinned, late, left>>

-----------------------------------------------------------------------------
Init ==
  /\ bitmap = [b \in Entries |-> {o \in Offsets : b + o \in DOMAIN Loaded
                                                  /\ Home[Loaded[b + o]] = b}]
  /\ spin = [e \in Entries |-> None]
  /\ \E v \in Vals : ptr = [e \in Entries |->
       IF e \in DOMAIN Loaded
       THEN [key |-> Loaded[e], val |-> v, dirty |-> TRUE,
             anchor |-> Home[Loaded[e]], offset |-> e - Home[Loaded[e]]]
       ELSE Null]
  /\ stash = {} /\ notes = {} /\ remote = [k \in Keys |-> None]
  /\ pc = [t \in Threads |-> "idle"] /\ op = [t \in Threads |-> Idle]
  /\ pinned = [t \in Threads |-> {}] /\ late = {} /\ torn = {}
  /\ left = [ops |-> MaxOps, fails |-> MaxFails]
  /\ seen = [t \in Threads |-> {}] /\ races = {}

PutStep(t) == LockBucket(t) \/ Scan(t) \/ WriteVal(t) \/ Stash(t) \/ Probe(t) \/ Room(t) \/ Bug(t)
  \/ Dislodge(t) \/ Tick(t) \/ CopyPtr(t) \/ ResetPtr(t) \/ ClearBit(t)
  \/ Allocate(t) \/ Publish(t) \/ RemoveRemote(t)
GetStep(t) == ReadStamp(t) \/ ReadBits(t) \/ Look(t) \/ CopyVal(t) \/ Recheck(t)
  \/ LockSlow(t) \/ ScanSlow(t) \/ Forward(t)

\* BUG() has not ended the process.
Alive == \A t \in Threads : pc[t] # "bug"

Begin(t) == \E k \in Keys : \/ \E v \in Vals : Start(t, "put", k, v)
                            \/ Start(t, "get", k, None)
                            \/ Start(t, "remove", k, None)
Collector == \/ \E e \in Entries : Evict(e)
             \/ \E meta \in notes : Note(meta)
             \/ \E meta \in stash : Restash(meta)
             \/ \E t \in Threads : Unmove(t)

\* A remove of k has reached the server.  If k was put again after the remove
\* had looked for it here, the remove counts as done before that put.
Removed(k) == \E t \in Threads :
  pc[t] = "remote" /\ pc'[t] = "idle" /\ op[t].kind = "remove" /\ Key(t) = k

\* The values the key of a get has until the get has its answer.
Watch == seen' = [t \in Threads |->
  IF Asking(t)' THEN seen[t] \cup {Lookup(Key(t))'} \cup {v \in {None} : Removed(Key(t)')}
  ELSE {}]

\* A get copies the value that a put overwrites, and it is the same object: it
\* has not been removed since the get found it.
Tears(t) == /\ pc[t] = "value" /\ Key(t) \in pinned[t]
            /\ \E u \in Threads : pc[u] = "write" /\ Key(u) = Key(t)
Tear == torn' = {t \in Threads : pc'[t] = "value" /\ (t \in torn \/ Tears(t)')}

Step == (\E t \in Threads : Begin(t) \/ PutStep(t) \/ GetStep(t)) \/ Collector

\* All operations are done, or BUG() has ended the process.
Finished ==
  /\ ~Alive \/ \A t \in Threads : pc[t] = "idle"
  /\ UNCHANGED vars

Next == (Alive /\ Step /\ Watch /\ Tear) \/ Finished

Spec == Init /\ [][Next]_vars

-----------------------------------------------------------------------------
\* What the table promises ends with one of these.
Sound == races \cap {"early_reuse", "wrong_home", "stale_forward", "late_remove",
                     "split_move"} = {}

\* What a step may do to the value of a key.
ByItsOps(k) ==
  Lookup(k)' # Lookup(k) =>
    \E t \in Threads : /\ op[t].key = k
                       /\ \/ op[t].kind = "put" /\ Lookup(k)' = op[t].val
                          \/ op[t].kind = "remove" /\ Lookup(k)' \in {None, remote[k]}
OnlyByOps == \A k \in Keys : ByItsOps(k)

\* The value of a key changes only by a put of that value, or by a remove in
\* progress: no key is lost or brought back by moving it, by evicting it, by
\* fetching it from the server or by an operation on another key.
ChangedByOps == [][Sound' => OnlyByOps]_vars

\* What a get whose next step answers it will answer.
Answer(t) ==
  LET b == Home_(t)
  IN CASE pc[t] = "value" -> op[t].val
       [] pc[t] = "slowscan" -> ptr[b + Min(Stops(b, Key(t), TRUE))].val
       [] pc[t] = "forward" -> remote[Key(t)]
AnswersSeen == \A t \in Threads \ torn : Asking(t) /\ ~Asking(t)' => Answer(t) \in seen[t]

\* No get has read an object before its bit was set, or crossed a put's removal.
Uncrossed == races \cap {"early_read", "crossed_get"} = {}

\* A get returns a value that its key had at some time since the get began,
\* although it reads without a lock and keys are moved under it (__get).  A get
\* that copied the value while a put overwrote it is excepted: it can return
\* bytes of both, a value its key never had.
GetIsRight == [][Sound' /\ Uncrossed' => AnswersSeen]_vars

\* A reserved entry belongs to an insertion in progress: retries give back what
\* they reserved, unless memory ran out.
NothingLeaks ==
  Sound /\ Alive /\ "leak" \notin races =>
    \A e \in Entries : ptr[e] = kBusyPtr =>
      \E t \in Threads :
        \/ op[t].idx = e /\ pc[t] \in {"room", "from", "tick", "copy", "alloc"}
        \/ pc[t] = "clear" /\ From(t) = e
=============================================================================
