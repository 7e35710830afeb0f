---------------------------- MODULE HopscotchProofs ----------------------------
(***************************************************************************)
(* Proofs about Hopscotch, for any number of threads, keys and values, any *)
(* hash function and any size of the table and of a neighbourhood.         *)
(*                                                                         *)
(* What they say ends, as in Hopscotch, with the races that Sound names.   *)
(***************************************************************************)
EXTENDS Hopscotch, WellFoundedInduction, TLAPS

-----------------------------------------------------------------------------
\* The inductive invariant, part by part.

HomeLocked == {"scan", "write", "probe", "room", "from", "tick", "copy", "reset",
               "clear", "alloc", "publish", "slowscan"}
Making   == HomeLocked \ {"scan", "write", "slowscan"}
Moving   == {"from", "tick", "copy", "reset", "clear"}
Relinked == {"tick", "copy", "reset"}
Owning   == {"room", "from", "tick", "copy", "clear", "alloc", "publish"}

IsObj(e) == ptr[e] \in Objects

OpTypes == [kind : {"none", "put", "get", "remove"}, key : Keys \cup {None},
            val : Vals \cup {None}, home : Entries, idx : 0..kNumEntries,
            dist : Offsets, bits : SUBSET Offsets, tries : Nat]

Types ==
  /\ bitmap \in [Entries -> SUBSET Offsets]
  /\ spin \in [Entries -> Threads \cup {None}]
  /\ ptr \in [Entries -> Objects \cup {Null, kBusyPtr}]
  /\ stash \in SUBSET Metas /\ notes \in SUBSET Metas
  /\ remote \in [Keys -> Vals \cup {None}]
  /\ pc \in [Threads -> Reading \cup Writing \cup {"idle", "bug"}]
  /\ op \in [Threads -> OpTypes]
  /\ pinned \in [Threads -> SUBSET Keys]
  /\ late \in SUBSET Threads

\* What an operation knows of its key, its home bucket and its entry.
OpOK(t) ==
  /\ pc[t] = "idle" => op[t] = Idle
  /\ pc[t] # "idle" => Key(t) \in Keys /\ Home_(t) = Home[Key(t)] /\ op[t].kind # "none"
  /\ op[t].kind = "put" => op[t].val \in Vals
  /\ pc[t] \in Reading => op[t].kind = "get"
  /\ pc[t] \in Reading \ {"value"} => op[t].val = None
  /\ pc[t] \in Writing \ {"stash"} /\ op[t].kind = "get" => op[t].val \in Vals
  /\ pc[t] \in Making => op[t].kind \in {"put", "get"} /\ Home_(t) <= op[t].idx
  /\ pc[t] = "scan" => op[t].idx = Home_(t)
  /\ pc[t] = "remote" => op[t].kind \in {"put", "remove"}
  /\ pc[t] \notin {"probe", "bug"} => op[t].idx \in Entries

\* Which locks a thread holds, and what they keep as it is.
LockOK(t) ==
  /\ pc[t] \in HomeLocked => spin[Home_(t)] = t
  /\ pc[t] \in Moving => /\ op[t].idx - Home_(t) >= kNeighborhood
                         /\ spin[Anchor(t)] = t
                         /\ bitmap[Anchor(t)] # {}
                         /\ From(t) < op[t].idx
  /\ pc[t] \in {"alloc", "publish"} => op[t].idx - Home_(t) < kNeighborhood

\* The entry a put has reserved, the object it moves and the one it inserts.
MoveOK(t) ==
  /\ pc[t] \in {"tick", "copy", "reset", "clear"} => op[t].dist \in bitmap[Anchor(t)]
  /\ pc[t] \in Relinked =>
       /\ IsObj(From(t)) /\ ptr[From(t)].anchor = Anchor(t)
       /\ ptr[From(t)].offset = op[t].dist /\ ptr[From(t)].key \in pinned[t]
  /\ pc[t] = "reset" => ptr[op[t].idx] = ptr[From(t)]
  /\ pc[t] \in {"room", "from", "tick", "copy", "alloc"} => ptr[op[t].idx] = kBusyPtr
  /\ pc[t] \in {"room", "from", "alloc", "publish"} =>
       \A b \in Entries : \A o \in bitmap[b] : op[t].idx # b + o
  /\ pc[t] = "clear" => ptr[From(t)] = kBusyPtr
  /\ pc[t] = "publish" =>
       /\ ptr[op[t].idx] = [key |-> Key(t), val |-> op[t].val, dirty |-> ~Swap(t),
                            anchor |-> Home_(t), offset |-> op[t].idx - Home_(t)]
       /\ Key(t) \in pinned[t]

\* No two threads have reserved the same entry.
Mine(t) == IF pc[t] = "clear" THEN From(t) ELSE op[t].idx
OwnOK == \A t, u \in Threads :
  t # u /\ pc[t] \in Owning /\ pc[u] \in Owning => Mine(t) # Mine(u)

\* What t does with an entry, or with the bit o of bucket b.
Source(t, e)     == pc[t] \in Relinked /\ From(t) = e
Fresh(t, e)      == pc[t] = "publish" /\ op[t].idx = e
Target(t, b, o)  == pc[t] \in {"tick", "copy"} /\ Anchor(t) = b /\ op[t].dist = o
Emptied(t, b, o) == pc[t] = "clear" /\ Anchor(t) = b /\ From(t) = b + o

\* An object is where it says it is, and a bit of its home bucket leads there,
\* unless it is being moved or inserted.
Settled(e) == ptr[e].anchor + ptr[e].offset = e /\ ptr[e].offset \in bitmap[ptr[e].anchor]
ObjOK == \A e \in Entries : IsObj(e) =>
  /\ ptr[e].anchor = Home[ptr[e].key]
  /\ Settled(e) \/ \E t \in Threads : Source(t, e) \/ Fresh(t, e)

\* A bit leads to an object of its bucket, unless the object was evicted and the
\* bit will be cleared, or is being moved.
BitOK == \A b \in Entries : \A o \in bitmap[b] :
  /\ b + o \in Entries
  /\ \/ IsObj(b + o) /\ ptr[b + o].anchor = b
     \/ <<b, o>> \in notes \cup stash
     \/ \E t \in Threads : Target(t, b, o) \/ Emptied(t, b, o)

UniqueBits == \A b, c \in Entries : \A o \in bitmap[b], p \in bitmap[c] :
  b + o = c + p => b = c

\* A meta that waits for its bit to be cleared waits in one place, the bit is
\* set, and nobody has taken the entry.
NoteOK ==
  /\ notes \cap stash = {}
  /\ \A b \in Entries, o \in Offsets : <<b, o>> \in notes \cup stash =>
       o \in bitmap[b] /\ ptr[b + o] = Null

\* A key is in the table once, twice only while it is moved, and not at all
\* while it is inserted.
KeyOK ==
  /\ \A e, f \in Entries : IsObj(e) /\ IsObj(f) /\ ptr[e].key = ptr[f].key /\ e # f =>
       \E t \in Threads : pc[t] = "reset" /\ {e, f} = {From(t), op[t].idx}
  /\ \A t \in Threads : pc[t] \in Making \ {"publish"} =>
       \A e \in Entries : IsObj(e) => ptr[e].key # Key(t)

\* A busy entry belongs to somebody, unless memory ran out.
LeakOK == "leak" \notin races /\ Alive =>
  \A e \in Entries : ptr[e] = kBusyPtr =>
    \E t \in Threads : pc[t] \in Owning \ {"publish"} /\ Mine(t) = e

Core ==
  /\ Types
  /\ \A t \in Threads : OpOK(t) /\ LockOK(t) /\ MoveOK(t)
  /\ OwnOK /\ ObjOK /\ BitOK /\ UniqueBits /\ NoteOK /\ KeyOK /\ LeakOK

-----------------------------------------------------------------------------
\* Numbers.

LEMMA LeastNat ==
  ASSUME NEW T \in SUBSET Nat, T # {}
  PROVE  \E n \in T : \A m \in T : n <= m
<1>1. PICK n \in T : \A m \in T : ~(<<m, n>> \in OpToRel(<, Nat))
  BY NatLessThanWellFounded, WFMin, Zenon
<1>2. \A m \in T : ~(m < n)
  BY <1>1 DEF OpToRel
<1> QED
  BY <1>2

LEMMA Sizes ==
  /\ NumHomes \in Nat /\ kNeighborhood \in Nat /\ kNeighborhood > 0 /\ NumHomes > 0
  /\ kNumEntries \in Nat /\ kNumEntries = NumHomes + kNeighborhood
  /\ Homes \subseteq Entries /\ Offsets \subseteq Nat /\ Entries \subseteq Nat
  /\ \A x \in Int : x \in Entries <=> 0 <= x /\ x < kNumEntries
  /\ \A x \in Int : x \in Offsets <=> 0 <= x /\ x < kNeighborhood
  /\ \A x \in Int : x \in Homes <=> 0 <= x /\ x < NumHomes
BY SizeAssumption DEF kNumEntries, Entries, Offsets, Homes

LEMMA MinOfOffsets ==
  ASSUME NEW S \in SUBSET Offsets, S # {}
  PROVE  Min(S) \in S /\ Min(S) \in Offsets /\ Min(S) \in Nat /\ \A x \in S : Min(S) <= x
<1>1. S \in SUBSET Nat
  BY Sizes
<1>2. \E n \in S : \A m \in S : n <= m
  BY <1>1, LeastNat
<1> QED
  BY <1>1, <1>2 DEF Min

-----------------------------------------------------------------------------
\* What follows from the invariant at once.

LEMMA OpFacts ==
  ASSUME Core, NEW t \in Threads
  PROVE  /\ op[t].home \in Entries /\ op[t].home \in Nat
         /\ op[t].idx \in Nat /\ op[t].idx <= kNumEntries
         /\ op[t].dist \in Offsets /\ op[t].dist \in Nat /\ op[t].dist < kNeighborhood
         /\ op[t].bits \in SUBSET Offsets /\ op[t].val \in Vals \cup {None}
         /\ op[t].key \in Keys \cup {None} /\ op[t].tries \in Nat
         /\ op[t].kind \in {"none", "put", "get", "remove"}
         /\ op[t] \in OpTypes
         /\ pc[t] \in Reading \cup Writing \cup {"idle", "bug"}
<1>1. op[t] \in OpTypes
  BY DEF Core, Types
<1>2. pc[t] \in Reading \cup Writing \cup {"idle", "bug"}
  BY DEF Core, Types
<1>3. /\ op[t].home \in Entries /\ op[t].idx \in 0..kNumEntries /\ op[t].dist \in Offsets
      /\ op[t].bits \in SUBSET Offsets /\ op[t].val \in Vals \cup {None}
      /\ op[t].key \in Keys \cup {None} /\ op[t].tries \in Nat
      /\ op[t].kind \in {"none", "put", "get", "remove"}
  BY <1>1 DEF OpTypes
<1>4. op[t].idx \in Nat /\ op[t].idx <= kNumEntries
  BY <1>3, Sizes
<1>5. op[t].home \in Nat
  BY <1>3, Sizes
<1>6. op[t].dist \in Nat /\ op[t].dist < kNeighborhood
  BY <1>3, SizeAssumption DEF Offsets
<1> QED
  BY <1>1, <1>2, <1>3, <1>4, <1>5, <1>6

\* The bucket and the entry of a put that makes room.
LEMMA MoveFacts ==
  ASSUME Core, NEW t \in Threads, pc[t] \in Moving
  PROVE  /\ Anchor(t) \in Entries /\ Anchor(t) \in Nat /\ Home_(t) < Anchor(t)
         /\ op[t].idx \in Entries /\ op[t].idx \in Nat /\ op[t].idx = Anchor(t) + op[t].dist
         /\ From(t) \in Entries /\ From(t) \in Nat /\ From(t) < op[t].idx
         /\ Anchor(t) <= From(t)
         /\ From(t) = Anchor(t) + Min(bitmap[Anchor(t)])
         /\ Min(bitmap[Anchor(t)]) \in bitmap[Anchor(t)]
         /\ Min(bitmap[Anchor(t)]) \in Offsets /\ Min(bitmap[Anchor(t)]) \in Nat
         /\ Min(bitmap[Anchor(t)]) < op[t].dist
         /\ spin[Anchor(t)] = t /\ spin[Home_(t)] = t
<1>1. /\ op[t].idx \in Entries /\ op[t].idx - Home_(t) >= kNeighborhood
      /\ spin[Anchor(t)] = t /\ bitmap[Anchor(t)] # {} /\ From(t) < op[t].idx
      /\ spin[Home_(t)] = t
  BY DEF Core, OpOK, LockOK, Moving, HomeLocked
<1>2. /\ op[t].dist \in Nat /\ op[t].dist < kNeighborhood /\ Home_(t) \in Nat
      /\ op[t].idx \in Nat
  BY OpFacts DEF Home_
<1>3. /\ Anchor(t) \in Entries /\ Anchor(t) \in Nat /\ Home_(t) < Anchor(t)
      /\ op[t].idx = Anchor(t) + op[t].dist
  BY <1>1, <1>2, Sizes DEF Anchor
<1>4. bitmap[Anchor(t)] \in SUBSET Offsets
  BY <1>3 DEF Core, Types
<1>5. /\ Min(bitmap[Anchor(t)]) \in bitmap[Anchor(t)]
      /\ Min(bitmap[Anchor(t)]) \in Offsets /\ Min(bitmap[Anchor(t)]) \in Nat
  BY <1>1, <1>4, MinOfOffsets
<1>6. From(t) = Anchor(t) + Min(bitmap[Anchor(t)])
  BY DEF From
<1>7. Min(bitmap[Anchor(t)]) < op[t].dist
  BY <1>1, <1>2, <1>3, <1>5, <1>6
<1>8. From(t) \in Entries /\ From(t) \in Nat /\ Anchor(t) <= From(t)
  BY <1>1, <1>2, <1>3, <1>5, <1>6, Sizes
<1> QED
  BY <1>1, <1>2, <1>3, <1>5, <1>6, <1>7, <1>8

LEMMA ObjFacts ==
  ASSUME Core, NEW e \in Entries
  PROVE  /\ ptr[e] \in Objects \cup {Null, kBusyPtr}
         /\ ~IsNull(e) <=> IsObj(e)
         /\ ptr[e] = Null => ~IsObj(e)
         /\ ptr[e] = kBusyPtr => ~IsObj(e)
         /\ IsObj(e) => /\ ptr[e].key \in Keys /\ ptr[e].val \in Vals
                        /\ ptr[e].dirty \in BOOLEAN /\ ptr[e].anchor \in Homes
                        /\ ptr[e].anchor \in Entries /\ ptr[e].anchor \in Nat
                        /\ ptr[e].offset \in Offsets /\ ptr[e].offset \in Nat
                        /\ ptr[e].anchor = Home[ptr[e].key]
<1>1. ptr[e] \in Objects \cup {Null, kBusyPtr}
  BY DEF Core, Types
<1>2. ~IsNull(e) <=> IsObj(e)
  BY <1>1, NullAssumption DEF IsNull, IsObj
<1>3. /\ ptr[e] = Null => ~IsObj(e)
      /\ ptr[e] = kBusyPtr => ~IsObj(e)
  BY NullAssumption DEF IsObj
<1>4. IsObj(e) => /\ ptr[e].key \in Keys /\ ptr[e].val \in Vals
                  /\ ptr[e].dirty \in BOOLEAN /\ ptr[e].anchor \in Homes
                  /\ ptr[e].offset \in Offsets
  BY DEF IsObj, Objects
<1>5. IsObj(e) => ptr[e].anchor = Home[ptr[e].key]
  BY DEF Core, ObjOK
<1> QED
  BY <1>1, <1>2, <1>3, <1>4, <1>5, Sizes

\* Where a bit leads.
LEMMA BitFacts ==
  ASSUME Core, NEW b \in Entries, NEW o \in bitmap[b]
  PROVE  /\ o \in Offsets /\ o \in Nat /\ b \in Nat /\ b + o \in Entries
         /\ IsObj(b + o) => ptr[b + o].anchor = b
         /\ ptr[b + o] = Null => <<b, o>> \in notes \cup stash
<1>1. o \in Offsets /\ o \in Nat /\ b \in Nat /\ b + o \in Entries
  BY Sizes DEF Core, Types, BitOK
<1>2. CASE IsObj(b + o) /\ ptr[b + o].anchor = b
  BY <1>1, <1>2, ObjFacts
<1>3. CASE <<b, o>> \in notes \cup stash
  <2>1. ptr[b + o] = Null
    BY <1>1, <1>3 DEF Core, NoteOK
  <2> QED
    BY <1>1, <1>3, <2>1, ObjFacts
<1>4. ASSUME NEW t \in Threads, Target(t, b, o) \/ Emptied(t, b, o)
      PROVE  ptr[b + o] = kBusyPtr
  <2>1. CASE Target(t, b, o)
    <3>1. pc[t] \in Moving /\ Anchor(t) = b /\ op[t].dist = o /\ ptr[op[t].idx] = kBusyPtr
      BY <2>1 DEF Target, Moving, Core, MoveOK
    <3>2. op[t].idx = b + o
      BY <3>1, MoveFacts
    <3> QED
      BY <3>1, <3>2
  <2>2. CASE Emptied(t, b, o)
    BY <2>2 DEF Emptied, Core, MoveOK
  <2> QED
    BY <1>4, <2>1, <2>2
<1>5. CASE \E t \in Threads : Target(t, b, o) \/ Emptied(t, b, o)
  <2>1. ptr[b + o] = kBusyPtr
    BY <1>4, <1>5
  <2> QED
    BY <1>1, <2>1, ObjFacts, NullAssumption
<1> QED
  BY <1>2, <1>3, <1>5 DEF Core, BitOK

\* An object that is being moved or inserted is pinned, and its home bucket is
\* locked, by the thread that does it; any other object is settled.
LEMMA SourceFacts ==
  ASSUME Core, NEW t \in Threads, NEW e \in Entries, Source(t, e) \/ Fresh(t, e)
  PROVE  /\ IsObj(e) /\ ptr[e].key \in pinned[t] /\ spin[ptr[e].anchor] = t
         /\ Source(t, e) => /\ ptr[e].anchor = Anchor(t) /\ ptr[e].offset = op[t].dist
                            /\ e = From(t) /\ pc[t] \in Moving
         /\ Fresh(t, e) => ptr[e].anchor = Home_(t) /\ ptr[e].key = Key(t)
<1>1. CASE Source(t, e)
  <2>1. pc[t] \in Moving /\ pc[t] \in Relinked /\ From(t) = e /\ pc[t] # "publish"
    BY <1>1 DEF Source, Moving, Relinked
  <2>2. /\ IsObj(e) /\ ptr[e].anchor = Anchor(t)
        /\ ptr[e].offset = op[t].dist /\ ptr[e].key \in pinned[t]
    BY <2>1 DEF Core, MoveOK
  <2> QED
    BY <2>1, <2>2, MoveFacts DEF Fresh
<1>2. CASE Fresh(t, e)
  <2>1. pc[t] = "publish" /\ op[t].idx = e
    BY <1>2 DEF Fresh
  <2>2. /\ ptr[e] = [key |-> Key(t), val |-> op[t].val, dirty |-> ~Swap(t),
                     anchor |-> Home_(t), offset |-> op[t].idx - Home_(t)]
        /\ Key(t) \in pinned[t] /\ spin[Home_(t)] = t
    BY <2>1 DEF Core, MoveOK, LockOK, HomeLocked
  <2>3. /\ Key(t) \in Keys /\ op[t].val \in Vals /\ Home_(t) = Home[Key(t)]
        /\ Home_(t) <= op[t].idx /\ op[t].idx - Home_(t) < kNeighborhood
    BY <2>1 DEF Core, OpOK, LockOK, Making, HomeLocked, Writing
  <2>4. Home_(t) \in Homes
    BY <2>3, HomeAssumption
  <2>5. op[t].idx - Home_(t) \in Offsets
    BY <2>3, OpFacts, Sizes DEF Home_
  <2>6. IsObj(e)
    BY <2>2, <2>3, <2>4, <2>5 DEF IsObj, Objects
  <2> QED
    BY <2>1, <2>2, <2>6 DEF Source, Relinked
<1> QED
  BY <1>1, <1>2

\* The entries that a thread relies on.
Held(t) ==
  {e \in Entries : \/ pc[t] \in {"room", "from", "tick", "copy", "alloc", "reset", "publish"}
                      /\ e = op[t].idx
                   \/ pc[t] \in {"tick", "copy", "reset", "clear"} /\ e = From(t)}

LEMMA HeldFacts ==
  ASSUME Core, NEW t \in Threads, NEW e \in Held(t)
  PROVE  \/ ptr[e] = kBusyPtr /\ pc[t] \in Owning /\ Mine(t) = e
         \/ IsObj(e) /\ spin[ptr[e].anchor] = t /\ ptr[e].key \in pinned[t]
<1>1. CASE pc[t] \in {"room", "from", "tick", "copy", "alloc"} /\ e = op[t].idx
  BY <1>1 DEF Core, MoveOK, Owning, Mine
<1>2. CASE pc[t] = "publish" /\ e = op[t].idx
  BY <1>2, SourceFacts DEF Fresh, Held
<1>3. CASE pc[t] \in Relinked /\ e = From(t)
  BY <1>3, SourceFacts DEF Source, Held
<1>4. CASE pc[t] = "reset" /\ e = op[t].idx
  <2>1. Source(t, From(t)) /\ From(t) \in Entries
    BY <1>4, MoveFacts DEF Source, Relinked, Moving
  <2>2. ptr[e] = ptr[From(t)]
    BY <1>4 DEF Core, MoveOK
  <2> QED
    BY <2>1, <2>2, SourceFacts DEF IsObj
<1>5. CASE pc[t] = "clear" /\ e = From(t)
  BY <1>5 DEF Core, MoveOK, Owning, Mine
<1> QED
  BY <1>1, <1>2, <1>3, <1>4, <1>5 DEF Held, Relinked

-----------------------------------------------------------------------------
\* What the others see of a step of a, a thread or the collector (None): it
\* changes the buckets it has locked or nobody has, its own entries and those of
\* objects nobody has pinned, and sets bits that lead to its own entry.
Bystanders(a) ==
  /\ \A u \in Threads \ {a} : pc'[u] = pc[u] /\ op'[u] = op[u]
  /\ \A b \in Entries : spin[b] \in Threads \ {a} =>
       spin'[b] = spin[b] /\ bitmap'[b] = bitmap[b]
  /\ \A e \in Entries :
       \/ ptr'[e] = ptr[e] \/ ptr[e] = Null
       \/ a \in Threads /\ pc[a] \in Owning /\ e = Mine(a)
       \/ IsObj(e) /\ spin[ptr[e].anchor] \notin Threads \ {a}
       \/ IsObj(e) /\ \A u \in Threads : ptr[e].key \notin pinned[u]
  /\ \A u \in Threads \ {a} : \A k \in pinned[u] :
       k \in pinned'[u] \/ spin[Home[k]] = a
  /\ \A b \in Entries : \A o \in bitmap'[b] :
       o \in bitmap[b] \/ (a \in Threads /\ pc[a] \in Owning /\ b + o = Mine(a))

LEMMA OthersHold ==
  ASSUME Core, NEW a, Bystanders(a), NEW u \in Threads \ {a}, NEW e \in Held(u)
  PROVE  /\ ptr'[e] = ptr[e]
         /\ IsObj(e) => ptr[e].key \in pinned'[u]
<1>0. e \in Entries /\ u \in Threads
  BY DEF Held
<1>1. CASE ptr[e] = kBusyPtr /\ pc[u] \in Owning /\ Mine(u) = e
  <2>1. ptr[e] # Null /\ ~IsObj(e)
    BY <1>0, <1>1, ObjFacts, NullAssumption
  <2>2. ~(a \in Threads /\ pc[a] \in Owning /\ e = Mine(a))
    BY <1>1 DEF Core, OwnOK
  <2> QED
    BY <1>0, <2>1, <2>2 DEF Bystanders
<1>2. CASE IsObj(e) /\ spin[ptr[e].anchor] = u /\ ptr[e].key \in pinned[u]
  <2>1. ptr[e] # Null /\ ptr[e].anchor = Home[ptr[e].key]
    BY <1>0, <1>2, ObjFacts
  <2>2. a \in Threads /\ pc[a] \in Owning /\ e = Mine(a) => ptr'[e] = ptr[e]
    <3> SUFFICES ASSUME a \in Threads, pc[a] \in Owning, e = Mine(a)
                 PROVE  FALSE
      OBVIOUS
    <3>1. pc[a] # "publish" => ptr[e] = kBusyPtr
      BY DEF Core, MoveOK, Mine, Owning
    <3>2. pc[a] = "publish"
      BY <1>0, <1>2, <3>1, ObjFacts
    <3>3. Fresh(a, e)
      BY <3>2 DEF Fresh, Mine
    <3> QED
      BY <1>0, <1>2, <3>3, SourceFacts
  <2> QED
    BY <1>0, <1>2, <2>1, <2>2 DEF Bystanders
<1> QED
  BY <1>0, <1>1, <1>2, HeldFacts

LEMMA OthersMove ==
  ASSUME Core, NEW a, Bystanders(a), NEW u \in Threads \ {a}, pc[u] \in Moving
  PROVE  /\ Anchor(u)' = Anchor(u) /\ From(u)' = From(u)
         /\ spin'[Anchor(u)] = u /\ bitmap'[Anchor(u)] = bitmap[Anchor(u)]
<1>1. Anchor(u) \in Entries /\ spin[Anchor(u)] \in Threads \ {a}
  BY MoveFacts
<1>2. spin'[Anchor(u)] = u /\ bitmap'[Anchor(u)] = bitmap[Anchor(u)]
  BY <1>1, MoveFacts DEF Bystanders
<1>3. op'[u] = op[u]
  BY DEF Bystanders
<1> QED
  BY <1>2, <1>3 DEF Anchor, From

LEMMA OthersKeep ==
  ASSUME Core, NEW a, Bystanders(a), NEW u \in Threads \ {a}
  PROVE  /\ pc'[u] = pc[u] /\ op'[u] = op[u]
         /\ OpOK(u)' /\ LockOK(u)' /\ MoveOK(u)'
         /\ pc[u] \in Owning => Mine(u)' = Mine(u)
         /\ pc[u] = "reset" => From(u)' = From(u)
         /\ \A e \in Entries : /\ Source(u, e)' <=> Source(u, e)
                               /\ Fresh(u, e)' <=> Fresh(u, e)
         /\ \A b \in Entries, o \in Offsets : /\ Target(u, b, o)' <=> Target(u, b, o)
                                              /\ Emptied(u, b, o)' <=> Emptied(u, b, o)
<1>0. pc'[u] = pc[u] /\ op'[u] = op[u] /\ u \in Threads
  BY DEF Bystanders
<1>1. pc[u] \in Moving => /\ Anchor(u)' = Anchor(u) /\ From(u)' = From(u)
                          /\ spin'[Anchor(u)] = u /\ bitmap'[Anchor(u)] = bitmap[Anchor(u)]
  BY OthersMove
<1>2. OpOK(u) /\ LockOK(u) /\ MoveOK(u)
  BY <1>0 DEF Core
<1>3. OpOK(u)'
  BY <1>0, <1>2 DEF OpOK, Key, Home_
<1>4. LockOK(u)'
  <2>1. pc[u] \in HomeLocked => spin'[Home_(u)] = u
    <3> SUFFICES ASSUME pc[u] \in HomeLocked PROVE spin'[Home_(u)] = u
      OBVIOUS
    <3>1. spin[Home_(u)] = u /\ Home_(u) \in Entries
      BY <1>0, <1>2, OpFacts DEF LockOK, Home_
    <3> QED
      BY <3>1, <1>0 DEF Bystanders
  <2>2. Home_(u)' = Home_(u)
    BY <1>0 DEF Home_
  <2> QED
    BY <1>0, <1>1, <1>2, <2>1, <2>2 DEF LockOK
<1>5. pc[u] \in Moving => From(u) \in Entries /\ op[u].idx \in Entries
  BY <1>0, MoveFacts
<1>6. pc[u] \in Owning => op[u].idx \in Entries
  BY <1>0, <1>2 DEF OpOK, Owning
<1>7. \A e \in Held(u) : ptr'[e] = ptr[e] /\ (IsObj(e) => ptr[e].key \in pinned'[u])
  BY OthersHold
<1>8. pc[u] \in Owning => Mine(u)' = Mine(u)
  BY <1>0, <1>1 DEF Mine, Owning, Moving
<1>9. MoveOK(u)'
  <2>1. (pc[u] \in {"tick", "copy", "reset", "clear"} => op[u].dist \in bitmap[Anchor(u)])'
    BY <1>0, <1>1, <1>2 DEF MoveOK, Moving
  <2>2. pc[u] \in Relinked =>
          /\ ptr'[From(u)] = ptr[From(u)] /\ ptr[From(u)].key \in pinned'[u]
    <3> SUFFICES ASSUME pc[u] \in Relinked
                 PROVE  ptr'[From(u)] = ptr[From(u)] /\ ptr[From(u)].key \in pinned'[u]
      OBVIOUS
    <3>1. From(u) \in Held(u) /\ IsObj(From(u))
      BY <1>2, <1>5 DEF Held, Relinked, Moving, MoveOK
    <3> QED
      BY <3>1, <1>7
  <2>3. (pc[u] \in Relinked =>
          /\ IsObj(From(u)) /\ ptr[From(u)].anchor = Anchor(u)
          /\ ptr[From(u)].offset = op[u].dist /\ ptr[From(u)].key \in pinned[u])'
    BY <1>0, <1>1, <1>2, <2>2 DEF MoveOK, Moving, Relinked, IsObj
  <2>4. pc[u] \in {"room", "from", "tick", "copy", "alloc", "reset", "publish"} =>
          ptr'[op[u].idx] = ptr[op[u].idx]
    BY <1>5, <1>6, <1>7 DEF Held, Owning, Moving
  <2>5. (pc[u] = "reset" => ptr[op[u].idx] = ptr[From(u)])'
    BY <1>0, <1>1, <1>2, <2>2, <2>4 DEF MoveOK, Moving, Relinked
  <2>6. (pc[u] \in {"room", "from", "tick", "copy", "alloc"} => ptr[op[u].idx] = kBusyPtr)'
    BY <1>0, <1>2, <2>4 DEF MoveOK
  <2>7. (pc[u] = "clear" => ptr[From(u)] = kBusyPtr)'
    BY <1>0, <1>1, <1>2, <1>5, <1>7 DEF MoveOK, Moving, Held
  <2>8. (pc[u] \in {"room", "from", "alloc", "publish"} =>
          \A b \in Entries : \A o \in bitmap[b] : op[u].idx # b + o)'
    <3> SUFFICES ASSUME pc[u] \in {"room", "from", "alloc", "publish"},
                        NEW b \in Entries, NEW o \in bitmap'[b]
                 PROVE  op[u].idx # b + o
      BY <1>0
    <3>1. CASE o \in bitmap[b]
      BY <1>2, <3>1 DEF MoveOK
    <3>2. CASE a \in Threads /\ pc[a] \in Owning /\ b + o = Mine(a)
      BY <3>2 DEF Core, OwnOK, Mine, Owning
    <3> QED
      BY <3>1, <3>2 DEF Bystanders
  <2>9. (pc[u] = "publish" =>
          /\ ptr[op[u].idx] = [key |-> Key(u), val |-> op[u].val, dirty |-> ~Swap(u),
                               anchor |-> Home_(u), offset |-> op[u].idx - Home_(u)]
          /\ Key(u) \in pinned[u])'
    <3>1. pc[u] = "publish" => Key(u) \in pinned'[u]
      <4> SUFFICES ASSUME pc[u] = "publish" PROVE Key(u) \in pinned'[u]
        OBVIOUS
      <4>1. Fresh(u, op[u].idx) /\ op[u].idx \in Held(u) /\ op[u].idx \in Entries
        BY <1>6 DEF Fresh, Held, Owning
      <4> QED
        BY <1>0, <1>7, <4>1, SourceFacts
    <3> QED
      BY <1>0, <1>2, <2>4, <3>1 DEF MoveOK, Key, Home_, Swap
  <2> QED
    BY <2>1, <2>3, <2>5, <2>6, <2>7, <2>8, <2>9 DEF MoveOK
<1>10. \A e \in Entries : /\ Source(u, e)' <=> Source(u, e)
                          /\ Fresh(u, e)' <=> Fresh(u, e)
  BY <1>0, <1>1 DEF Source, Fresh, Relinked, Moving
<1>11. \A b \in Entries, o \in Offsets : /\ Target(u, b, o)' <=> Target(u, b, o)
                                         /\ Emptied(u, b, o)' <=> Emptied(u, b, o)
  BY <1>0, <1>1 DEF Target, Emptied, Moving
<1>12. pc[u] = "reset" => From(u)' = From(u)
  BY <1>1 DEF Moving
<1> QED
  BY <1>0, <1>3, <1>4, <1>8, <1>9, <1>10, <1>11, <1>12

-----------------------------------------------------------------------------
\* The parts of the invariant that speak of all entries, after a step of a.

LEMMA OwnStep ==
  ASSUME Core, NEW a, Bystanders(a),
         a \in Threads /\ pc'[a] \in Owning =>
           \A u \in Threads \ {a} : pc[u] \in Owning => Mine(a)' # Mine(u)
  PROVE  OwnOK'
<1> SUFFICES ASSUME NEW t \in Threads, NEW u \in Threads, t # u,
                    pc'[t] \in Owning, pc'[u] \in Owning
             PROVE  Mine(t)' # Mine(u)'
  BY DEF OwnOK
<1>1. CASE t # a /\ u # a
  <2>1. /\ pc'[t] = pc[t] /\ pc'[u] = pc[u]
        /\ pc[t] \in Owning => Mine(t)' = Mine(t)
        /\ pc[u] \in Owning => Mine(u)' = Mine(u)
    BY <1>1, OthersKeep
  <2> QED
    BY <2>1 DEF Core, OwnOK
<1>2. CASE t = a
  <2>1. pc'[u] = pc[u] /\ (pc[u] \in Owning => Mine(u)' = Mine(u))
    BY <1>2, OthersKeep
  <2> QED
    BY <1>2, <2>1
<1>3. CASE u = a
  <2>1. pc'[t] = pc[t] /\ (pc[t] \in Owning => Mine(t)' = Mine(t))
    BY <1>3, OthersKeep
  <2> QED
    BY <1>3, <2>1
<1> QED
  BY <1>1, <1>2, <1>3

LEMMA ObjStep ==
  ASSUME Core, NEW a, Bystanders(a),
         \A e \in Entries : IsObj(e)' =>
           \/ /\ ptr'[e].anchor = Home[ptr'[e].key]
              /\ Settled(e)' \/ (a \in Threads /\ (Source(a, e)' \/ Fresh(a, e)'))
           \/ /\ ptr'[e] = ptr[e]
              /\ Settled(e) => ptr[e].offset \in bitmap'[ptr[e].anchor]
              /\ a \in Threads => ~Source(a, e) /\ ~Fresh(a, e)
  PROVE  ObjOK'
<1> SUFFICES ASSUME NEW e \in Entries, IsObj(e)'
             PROVE  /\ ptr'[e].anchor = Home[ptr'[e].key]
                    /\ Settled(e)' \/ \E t \in Threads : Source(t, e)' \/ Fresh(t, e)'
  BY DEF ObjOK
<1>1. CASE /\ ptr'[e].anchor = Home[ptr'[e].key]
           /\ Settled(e)' \/ (a \in Threads /\ (Source(a, e)' \/ Fresh(a, e)'))
  BY <1>1
<1>2. CASE /\ ptr'[e] = ptr[e]
           /\ Settled(e) => ptr[e].offset \in bitmap'[ptr[e].anchor]
           /\ a \in Threads => ~Source(a, e) /\ ~Fresh(a, e)
  <2>1. IsObj(e)
    BY <1>2 DEF IsObj
  <2>2. /\ ptr[e].anchor = Home[ptr[e].key]
        /\ Settled(e) \/ \E t \in Threads : Source(t, e) \/ Fresh(t, e)
    BY <2>1 DEF Core, ObjOK
  <2>3. CASE Settled(e)
    BY <1>2, <2>2, <2>3 DEF Settled
  <2>4. ASSUME NEW t \in Threads, Source(t, e) \/ Fresh(t, e)
        PROVE  Source(t, e)' \/ Fresh(t, e)'
    <3>1. t # a
      BY <1>2, <2>4
    <3> QED
      BY <2>4, <3>1, OthersKeep
  <2> QED
    BY <1>2, <2>2, <2>3, <2>4
<1> QED
  BY <1>1, <1>2

LEMMA BitStep ==
  ASSUME Core, NEW a, Bystanders(a),
         \A b \in Entries : \A o \in bitmap'[b] :
           LET now == \/ IsObj(b + o)' /\ ptr'[b + o].anchor = b
                      \/ <<b, o>> \in notes' \cup stash'
                      \/ a \in Threads /\ (Target(a, b, o)' \/ Emptied(a, b, o)')
           IN \/ b + o \in Entries /\ now
              \/ /\ o \in bitmap[b]
                 /\ IsObj(b + o) \/ <<b, o>> \in notes \cup stash => now
                 /\ a \in Threads => ~Target(a, b, o) /\ ~Emptied(a, b, o)
  PROVE  BitOK'
<1> SUFFICES ASSUME NEW b \in Entries, NEW o \in bitmap'[b]
             PROVE  /\ b + o \in Entries
                    /\ \/ IsObj(b + o)' /\ ptr'[b + o].anchor = b
                       \/ <<b, o>> \in notes' \cup stash'
                       \/ \E t \in Threads : Target(t, b, o)' \/ Emptied(t, b, o)'
  BY DEF BitOK
<1> DEFINE now == \/ IsObj(b + o)' /\ ptr'[b + o].anchor = b
                  \/ <<b, o>> \in notes' \cup stash'
                  \/ a \in Threads /\ (Target(a, b, o)' \/ Emptied(a, b, o)')
<1>0. \/ b + o \in Entries /\ now
      \/ /\ o \in bitmap[b]
         /\ IsObj(b + o) \/ <<b, o>> \in notes \cup stash => now
         /\ a \in Threads => ~Target(a, b, o) /\ ~Emptied(a, b, o)
  OBVIOUS
<1>1. CASE b + o \in Entries /\ now
  BY <1>1
<1>2. CASE /\ o \in bitmap[b]
           /\ IsObj(b + o) \/ <<b, o>> \in notes \cup stash => now
           /\ a \in Threads => ~Target(a, b, o) /\ ~Emptied(a, b, o)
  <2>1. /\ b + o \in Entries
        /\ \/ IsObj(b + o)
           \/ <<b, o>> \in notes \cup stash
           \/ \E t \in Threads : Target(t, b, o) \/ Emptied(t, b, o)
    BY <1>2 DEF Core, BitOK
  <2>2. ASSUME NEW t \in Threads, Target(t, b, o) \/ Emptied(t, b, o)
        PROVE  Target(t, b, o)' \/ Emptied(t, b, o)'
    <3>1. t # a /\ o \in Offsets
      BY <1>2, <2>2, BitFacts
    <3> QED
      BY <2>2, <3>1, OthersKeep
  <2> QED
    BY <1>2, <2>1, <2>2
<1> QED
  BY <1>0, <1>1, <1>2

LEMMA UniqueShrink ==
  ASSUME Core, \A b \in Entries : bitmap'[b] \subseteq bitmap[b]
  PROVE  UniqueBits'
BY DEF Core, UniqueBits

\* The only new bit leads to an entry to which no bit led.
LEMMA UniqueGrow ==
  ASSUME Core, NEW c \in Entries, NEW p \in Offsets,
         \A b \in Entries : \A o \in bitmap'[b] : o \in bitmap[b] \/ (b = c /\ o = p),
         \A b \in Entries : \A o \in bitmap[b] : b + o # c + p
  PROVE  UniqueBits'
BY DEF Core, UniqueBits

LEMMA KeyStep ==
  ASSUME Core, NEW a, Bystanders(a),
         \A e \in Entries : IsObj(e)' => IsObj(e) /\ ptr'[e].key = ptr[e].key,
         a \in Threads => pc[a] # "reset",
         a \in Threads /\ pc'[a] \in Making \ {"publish"} =>
           \A e \in Entries : IsObj(e)' => ptr'[e].key # Key(a)'
  PROVE  KeyOK'
<1>1. ASSUME NEW e \in Entries, NEW f \in Entries, IsObj(e)', IsObj(f)',
             ptr'[e].key = ptr'[f].key, e # f
      PROVE  \E t \in Threads : pc'[t] = "reset" /\ {e, f} = {From(t)', op'[t].idx}
  <2>1. IsObj(e) /\ IsObj(f) /\ ptr[e].key = ptr[f].key
    BY <1>1
  <2>2. PICK t \in Threads : pc[t] = "reset" /\ {e, f} = {From(t), op[t].idx}
    BY <1>1, <2>1 DEF Core, KeyOK
  <2>3. t # a
    BY <2>2
  <2>4. pc'[t] = pc[t] /\ op'[t] = op[t] /\ From(t)' = From(t)
    BY <2>2, <2>3, OthersKeep
  <2> QED
    BY <2>2, <2>4
<1>2. ASSUME NEW t \in Threads, pc'[t] \in Making \ {"publish"}, NEW e \in Entries, IsObj(e)'
      PROVE  ptr'[e].key # Key(t)'
  <2>1. CASE t = a
    BY <1>2, <2>1
  <2>2. CASE t # a
    <3>1. pc'[t] = pc[t] /\ op'[t] = op[t]
      BY <2>2, OthersKeep
    <3>2. IsObj(e) /\ ptr'[e].key = ptr[e].key
      BY <1>2
    <3>3. ptr[e].key # Key(t)
      BY <1>2, <3>1, <3>2 DEF Core, KeyOK
    <3> QED
      BY <3>1, <3>2, <3>3 DEF Key
  <2> QED
    BY <2>1, <2>2
<1> QED
  BY <1>1, <1>2 DEF KeyOK

LEMMA LeakStep ==
  ASSUME Core, NEW a, Bystanders(a), races \subseteq races',
         a \in Threads => pc[a] # "bug",
         "leak" \notin races' /\ Alive' => \A e \in Entries : ptr'[e] = kBusyPtr =>
           \/ a \in Threads /\ pc'[a] \in Owning \ {"publish"} /\ Mine(a)' = e
           \/ /\ ptr[e] = kBusyPtr
              /\ a \in Threads => ~(pc[a] \in Owning \ {"publish"} /\ Mine(a) = e)
  PROVE  LeakOK'
<1> SUFFICES ASSUME "leak" \notin races', Alive', NEW e \in Entries, ptr'[e] = kBusyPtr
             PROVE  \E t \in Threads : pc'[t] \in Owning \ {"publish"} /\ Mine(t)' = e
  BY DEF LeakOK
<1>1. CASE a \in Threads /\ pc'[a] \in Owning \ {"publish"} /\ Mine(a)' = e
  BY <1>1
<1>2. CASE /\ ptr[e] = kBusyPtr
           /\ a \in Threads => ~(pc[a] \in Owning \ {"publish"} /\ Mine(a) = e)
  <2>1. ASSUME NEW t \in Threads PROVE pc[t] # "bug"
    <3>1. CASE t = a
      BY <3>1
    <3>2. CASE t # a
      BY <3>2, OthersKeep DEF Alive
    <3> QED
      BY <3>1, <3>2
  <2>2. "leak" \notin races /\ Alive
    BY <2>1 DEF Alive
  <2>3. PICK t \in Threads : pc[t] \in Owning \ {"publish"} /\ Mine(t) = e
    BY <1>2, <2>2 DEF Core, LeakOK
  <2>4. t # a
    BY <1>2, <2>3
  <2>5. pc'[t] = pc[t] /\ Mine(t)' = Mine(t)
    BY <2>3, <2>4, OthersKeep
  <2> QED
    BY <2>3, <2>5
<1> QED
  BY <1>1, <1>2

-----------------------------------------------------------------------------
\* The steps that change no entry, bit or meta.

\* What a step of a that leaves the table alone has to show of a itself.
Quiet(a) ==
  /\ bitmap' = bitmap /\ ptr' = ptr /\ notes' = notes /\ stash' = stash
  /\ \A u \in Threads \ {a} : pc'[u] = pc[u] /\ op'[u] = op[u]
  /\ \A b \in Entries : spin[b] \in Threads \ {a} => spin'[b] = spin[b]
  /\ \A u \in Threads \ {a} : pinned'[u] = pinned[u]
  /\ races \subseteq races'
  /\ pc[a] \notin {"reset", "clear", "publish", "bug"}
  /\ pc[a] \in {"tick", "copy"} => pc'[a] \in {"tick", "copy"} /\ op'[a] = op[a]
  /\ pc'[a] \in Owning => pc[a] \in Owning /\ pc'[a] \notin {"clear", "publish"}
                          /\ op'[a].idx = op[a].idx
  /\ pc[a] \in Owning => pc'[a] \in Owning \/ pc'[a] = "bug" \/ "leak" \in races'

LEMMA QuietStep ==
  ASSUME Core, NEW a \in Threads, Quiet(a), Types', OpOK(a)', LockOK(a)', MoveOK(a)',
         pc'[a] \in Making \ {"publish"} =>
           \A e \in Entries : IsObj(e) => ptr[e].key # Key(a)'
  PROVE  Core'
<1>1. Bystanders(a)
  BY DEF Quiet, Bystanders
<1>2. \A t \in Threads : (OpOK(t) /\ LockOK(t) /\ MoveOK(t))'
  <2> SUFFICES ASSUME NEW t \in Threads PROVE (OpOK(t) /\ LockOK(t) /\ MoveOK(t))'
    OBVIOUS
  <2> QED
    BY <1>1, OthersKeep
<1>3. pc'[a] \in Owning => pc[a] \in Owning /\ Mine(a)' = Mine(a)
  BY DEF Quiet, Mine
<1>4. OwnOK'
  <2>1. ASSUME pc'[a] \in Owning, NEW u \in Threads \ {a}, pc[u] \in Owning
        PROVE  Mine(a)' # Mine(u)
    BY <1>3, <2>1 DEF Core, OwnOK
  <2> QED
    BY <1>1, <2>1, OwnStep
<1>5. pc[a] \in {"tick", "copy"} => Anchor(a)' = Anchor(a) /\ From(a)' = From(a)
  BY DEF Quiet, Anchor, From
<1>6. ObjOK'
  <2>1. ASSUME NEW e \in Entries, IsObj(e)'
        PROVE  \/ /\ ptr'[e].anchor = Home[ptr'[e].key]
                  /\ Settled(e)' \/ Source(a, e)' \/ Fresh(a, e)'
               \/ /\ ptr'[e] = ptr[e]
                  /\ Settled(e) => ptr[e].offset \in bitmap'[ptr[e].anchor]
                  /\ ~Source(a, e) /\ ~Fresh(a, e)
    <3>1. IsObj(e) /\ ptr'[e] = ptr[e] /\ bitmap' = bitmap
      BY <2>1 DEF Quiet, IsObj
    <3>2. Settled(e) => ptr[e].offset \in bitmap'[ptr[e].anchor]
      BY <3>1 DEF Settled
    <3>3. ~Fresh(a, e)
      BY DEF Quiet, Fresh
    <3>4. Source(a, e) => Source(a, e)'
      BY <1>5 DEF Quiet, Source, Relinked
    <3> QED
      BY <3>1, <3>2, <3>3, <3>4, ObjFacts
  <2> QED
    BY <1>1, <2>1, ObjStep
<1>7. BitOK'
  <2>1. ASSUME NEW b \in Entries, NEW o \in bitmap'[b]
        PROVE  LET now == \/ IsObj(b + o)' /\ ptr'[b + o].anchor = b
                          \/ <<b, o>> \in notes' \cup stash'
                          \/ Target(a, b, o)' \/ Emptied(a, b, o)'
               IN \/ b + o \in Entries /\ now
                  \/ /\ o \in bitmap[b]
                     /\ IsObj(b + o) \/ <<b, o>> \in notes \cup stash => now
                     /\ ~Target(a, b, o) /\ ~Emptied(a, b, o)
    <3>1. o \in bitmap[b] /\ ptr' = ptr /\ notes' = notes /\ stash' = stash
      BY <2>1 DEF Quiet
    <3>2. IsObj(b + o) => IsObj(b + o)' /\ ptr'[b + o].anchor = b
      BY <3>1, BitFacts DEF IsObj
    <3>3. ~Emptied(a, b, o)
      BY DEF Quiet, Emptied
    <3>4. Target(a, b, o) => Target(a, b, o)'
      BY <1>5 DEF Quiet, Target
    <3>5. b + o \in Entries
      BY <3>1, BitFacts
    <3> QED
      BY <3>1, <3>2, <3>3, <3>4, <3>5
  <2> QED
    BY <1>1, <2>1, BitStep
<1>8. UniqueBits'
  BY DEF Core, UniqueBits, Quiet
<1>9. NoteOK'
  BY DEF Core, NoteOK, Quiet
<1>10. KeyOK'
  <2>1. \A e \in Entries : IsObj(e)' => IsObj(e) /\ ptr'[e].key = ptr[e].key
    BY DEF Quiet, IsObj
  <2>2. pc[a] # "reset"
    BY DEF Quiet
  <2>3. pc'[a] \in Making \ {"publish"} =>
          \A e \in Entries : IsObj(e)' => ptr'[e].key # Key(a)'
    BY <2>1
  <2> QED
    BY <1>1, <2>1, <2>2, <2>3, KeyStep
<1>11. LeakOK'
  <2>1. ASSUME "leak" \notin races', Alive', NEW e \in Entries, ptr'[e] = kBusyPtr
        PROVE  \/ pc'[a] \in Owning \ {"publish"} /\ Mine(a)' = e
               \/ /\ ptr[e] = kBusyPtr
                  /\ ~(pc[a] \in Owning \ {"publish"} /\ Mine(a) = e)
    <3>1. pc'[a] # "bug" /\ ptr[e] = kBusyPtr
      BY <2>1 DEF Alive, Quiet
    <3>2. pc[a] \in Owning => pc'[a] \in Owning \ {"publish"}
      BY <2>1, <3>1 DEF Quiet
    <3> QED
      BY <1>3, <3>1, <3>2
  <2>2. races \subseteq races' /\ pc[a] # "bug"
    BY DEF Quiet
  <2> QED
    BY <1>1, <2>1, <2>2, LeakStep
<1> QED
  BY <1>2, <1>4, <1>6, <1>7, <1>8, <1>9, <1>10, <1>11 DEF Core

\* Steps outside the locked part of put: nothing is claimed of the entry.
LEMMA IdleLocks ==
  ASSUME NEW t \in Threads, pc'[t] \notin HomeLocked
  PROVE  LockOK(t)' /\ MoveOK(t)'
BY DEF LockOK, MoveOK, HomeLocked, Moving, Relinked

LEMMA IdleType == Idle \in OpTypes
<1>1. 0 \in Entries /\ 0 \in 0..kNumEntries /\ 0 \in Offsets
  BY SizeAssumption DEF Entries, Offsets, kNumEntries
<1> QED
  BY <1>1 DEF Idle, OpTypes

LEMMA StartCore ==
  ASSUME Core, NEW t \in Threads, Begin(t)
  PROVE  Core'
<1>1. PICK kind \in {"put", "get", "remove"}, k \in Keys, v \in Vals \cup {None} :
        /\ Start(t, kind, k, v)
        /\ (kind = "put" => v \in Vals) /\ (kind # "put" => v = None)
  BY DEF Begin
<1> DEFINE r == [Idle EXCEPT !.kind = kind, !.key = k, !.val = v,
                             !.home = Home[k], !.idx = Home[k]]
<1>2. /\ pc[t] = "idle" /\ op' = [op EXCEPT ![t] = r]
      /\ pc' = [pc EXCEPT ![t] = IF kind = "get" THEN "stamp" ELSE "lock"]
      /\ UNCHANGED <<bitmap, spin, ptr, stash, notes, remote, pinned, late, races>>
  BY <1>1 DEF Start, Goto, table
<1>3. Home[k] \in Entries /\ Home[k] \in 0..kNumEntries
  <2>1. Home[k] \in Homes
    BY HomeAssumption
  <2> QED
    BY <2>1, SizeAssumption DEF Homes, Entries, kNumEntries
<1>4. /\ r \in OpTypes /\ r.key = k /\ r.kind = kind /\ r.val = v
      /\ r.home = Home[k] /\ r.idx = Home[k]
  BY <1>1, <1>3, IdleType DEF OpTypes, Idle
<1> HIDE DEF r
<1>5. Types'
  BY <1>2, <1>4 DEF Core, Types, Reading, Writing
<1>6. /\ op'[t] = r /\ pc'[t] = IF kind = "get" THEN "stamp" ELSE "lock"
      /\ \A u \in Threads \ {t} : op'[u] = op[u] /\ pc'[u] = pc[u]
  BY <1>2 DEF Core, Types
<1>7. OpOK(t)'
  BY <1>1, <1>2, <1>3, <1>4, <1>6 DEF OpOK, Key, Home_, Reading, Writing, Making, HomeLocked
<1>8. LockOK(t)' /\ MoveOK(t)' /\ pc'[t] \notin Making
  BY <1>6, IdleLocks DEF HomeLocked, Making
<1>9. Quiet(t)
  BY <1>2, <1>6 DEF Quiet, Owning
<1> QED
  BY <1>5, <1>7, <1>8, <1>9, QuietStep

LEMMA LockBucketCore ==
  ASSUME Core, NEW t \in Threads, LockBucket(t), Sound'
  PROVE  Core'
<1>1. /\ pc[t] = "lock" /\ spin[op[t].idx] = None
      /\ spin' = [spin EXCEPT ![op[t].idx] = t]
      /\ op' = [op EXCEPT ![t].home = op[t].idx]
      /\ races' = races \cup (IF op[t].idx # Home[Key(t)] THEN {"wrong_home"} ELSE {})
      /\ pc' = [pc EXCEPT ![t] = "scan"]
      /\ UNCHANGED <<bitmap, ptr, stash, notes, remote, pinned, late>>
  BY DEF LockBucket, Goto, Race
<1>2. op[t].idx = Home[Key(t)]
  BY <1>1 DEF Sound
<1>3. OpOK(t) /\ op[t] \in OpTypes /\ op[t].idx \in Entries
  BY <1>1, OpFacts DEF Core, OpOK
<1>4. op' = op
  <2>1. op[t].home = op[t].idx
    BY <1>1, <1>2, <1>3 DEF OpOK, Home_
  <2>2. [op[t] EXCEPT !.home = op[t].idx] = op[t]
    BY <1>3, <2>1 DEF OpTypes
  <2>3. op' = [op EXCEPT ![t] = op[t]]
    BY <1>1, <2>2
  <2> QED
    BY <2>3 DEF Core, Types
<1>5. Types'
  BY <1>1, <1>3, <1>4 DEF Core, Types, Writing
<1>6. /\ pc'[t] = "scan" /\ spin'[op[t].idx] = t
      /\ \A u \in Threads \ {t} : pc'[u] = pc[u]
      /\ \A b \in Entries : b # op[t].idx => spin'[b] = spin[b]
  BY <1>1, <1>3 DEF Core, Types
<1>7. OpOK(t)'
  BY <1>1, <1>2, <1>3, <1>4, <1>6 DEF OpOK, Key, Home_, Reading, Writing, Making, HomeLocked
<1>8. LockOK(t)' /\ MoveOK(t)'
  BY <1>1, <1>2, <1>3, <1>4, <1>6
  DEF OpOK, LockOK, MoveOK, Moving, Relinked, Home_, Key
<1>9. Quiet(t) /\ pc'[t] \notin Making
  BY <1>1, <1>4, <1>6, NoneAssumption DEF Quiet, Owning, Making
<1> QED
  BY <1>5, <1>7, <1>8, <1>9, QuietStep

\* Steps of a thread that has no entry and ends in no locked part: it may unlock.
LEMMA ReleaseCore ==
  ASSUME Core, NEW t \in Threads,
         UNCHANGED <<bitmap, ptr, stash, notes>>, Types',
         \A u \in Threads \ {t} : pc'[u] = pc[u] /\ op'[u] = op[u] /\ pinned'[u] = pinned[u],
         \A b \in Entries : spin'[b] = spin[b] \/ spin[b] = t,
         races \subseteq races',
         pc[t] \notin Moving \cup {"publish", "bug"},
         pc[t] \in Owning => "leak" \in races',
         pc'[t] \notin HomeLocked,
         OpOK(t)'
  PROVE  Core'
<1>1. Quiet(t)
  BY DEF Quiet, Moving, Owning, HomeLocked
<1>2. LockOK(t)' /\ MoveOK(t)' /\ pc'[t] \notin Making
  BY IdleLocks DEF HomeLocked, Making
<1> QED
  BY <1>1, <1>2, QuietStep

LEMMA DoneFacts ==
  ASSUME Core, NEW t \in Threads, Done(t)
  PROVE  /\ pc' \in [Threads -> Reading \cup Writing \cup {"idle", "bug"}]
         /\ op' \in [Threads -> OpTypes] /\ pinned' \in [Threads -> SUBSET Keys]
         /\ pc'[t] = "idle" /\ op'[t] = Idle /\ OpOK(t)' /\ pc'[t] \notin HomeLocked
         /\ \A u \in Threads \ {t} :
              pc'[u] = pc[u] /\ op'[u] = op[u] /\ pinned'[u] = pinned[u]
<1>1. /\ pc' = [pc EXCEPT ![t] = "idle"] /\ op' = [op EXCEPT ![t] = Idle]
      /\ pinned' = [pinned EXCEPT ![t] = {}]
  BY DEF Done, Goto
<1>2. /\ pc' \in [Threads -> Reading \cup Writing \cup {"idle", "bug"}]
      /\ op' \in [Threads -> OpTypes] /\ pinned' \in [Threads -> SUBSET Keys]
      /\ pc'[t] = "idle" /\ op'[t] = Idle
      /\ \A u \in Threads \ {t} :
           pc'[u] = pc[u] /\ op'[u] = op[u] /\ pinned'[u] = pinned[u]
  BY <1>1, IdleType DEF Core, Types
<1>3. Idle.kind = "none" /\ Idle.idx \in Entries
  BY SizeAssumption DEF Idle, Entries, kNumEntries
<1>4. OpOK(t)' /\ pc'[t] \notin HomeLocked
  BY <1>2, <1>3 DEF OpOK, Reading, Writing, Making, HomeLocked
<1> QED
  BY <1>2, <1>4

LEMMA PassedKeys ==
  ASSUME Core, NEW b \in Entries, NEW k, NEW skip
  PROVE  Passed(b, k, skip) \in SUBSET Keys
<1>1. ASSUME NEW o \in bitmap[b], ~IsNull(b + o) PROVE ptr[b + o].key \in Keys
  BY <1>1, BitFacts, ObjFacts
<1> QED
  BY <1>1 DEF Passed

LEMMA StopFacts ==
  ASSUME Core, NEW b \in Entries, NEW k, NEW skip \in BOOLEAN, Stops(b, k, skip) # {}
  PROVE  LET o == Min(Stops(b, k, skip))
         IN /\ o \in bitmap[b] /\ o \in Offsets /\ o \in Nat /\ b + o \in Entries
            /\ ~IsNull(b + o) => /\ IsObj(b + o) /\ ptr[b + o].key = k
                                 /\ ptr[b + o].anchor = b
            /\ IsNull(b + o) => ~skip
<1>1. bitmap[b] \in SUBSET Offsets
  BY DEF Core, Types
<1>2. Stops(b, k, skip) \in SUBSET Offsets
  BY <1>1 DEF Stops
<1>3. Min(Stops(b, k, skip)) \in Stops(b, k, skip)
  BY <1>2, MinOfOffsets
<1> DEFINE o == Min(Stops(b, k, skip))
<1>4. /\ o \in bitmap[b]
      /\ ~IsNull(b + o) => ptr[b + o].key = k
      /\ IsNull(b + o) => ~skip
  BY <1>3 DEF Stops
<1>5. /\ o \in Offsets /\ o \in Nat /\ b + o \in Entries
      /\ IsObj(b + o) => ptr[b + o].anchor = b
  BY <1>4, BitFacts
<1>6. ~IsNull(b + o) => IsObj(b + o)
  BY <1>5, ObjFacts
<1> QED
  BY <1>4, <1>5, <1>6

\* A locked scan that finds neither the key nor a null pointer has seen that the
\* key is not in the table.
LEMMA ScanMisses ==
  ASSUME Core, NEW t \in Threads, pc[t] \in {"scan", "slowscan"}, NEW skip,
         Stops(Home_(t), Key(t), skip) = {}, NEW e \in Entries, IsObj(e)
  PROVE  ptr[e].key # Key(t)
<1> SUFFICES ASSUME ptr[e].key = Key(t) PROVE FALSE
  OBVIOUS
<1>1. spin[Home_(t)] = t /\ Home_(t) = Home[Key(t)] /\ Home_(t) \in Entries
  BY OpFacts DEF Core, LockOK, OpOK, HomeLocked, Home_
<1>2. ptr[e].anchor = Home_(t)
  BY <1>1, ObjFacts
<1>3. ASSUME NEW u \in Threads, Source(u, e) \/ Fresh(u, e) PROVE FALSE
  <2>1. spin[ptr[e].anchor] = u
    BY <1>3, SourceFacts
  <2>2. u = t
    BY <1>1, <1>2, <2>1
  <2> QED
    BY <1>3, <2>2 DEF Source, Fresh, Relinked
<1>4. Settled(e)
  BY <1>3 DEF Core, ObjOK
<1>5. ptr[e].offset \in bitmap[Home_(t)] /\ Home_(t) + ptr[e].offset = e
  BY <1>2, <1>4 DEF Settled
<1>6. ~IsNull(e)
  BY ObjFacts
<1>7. ptr[e].offset \in Stops(Home_(t), Key(t), skip)
  BY <1>5, <1>6 DEF Stops
<1> QED
  BY <1>7

\* _put and _remove that find a null pointer, and _remove that finds nothing.
LEMMA ScanGivesUp ==
  ASSUME Core, NEW t \in Threads, pc[t] = "scan", NEW step \in {"stash", "remote"},
         step = "remote" => op[t].kind = "remove",
         Goto(t, step), Pin(t, Passed(Home_(t), Key(t), FALSE)),
         spin' = [spin EXCEPT ![Home_(t)] = None],
         UNCHANGED <<bitmap, ptr, op, races, stash, notes, remote, late>>
  PROVE  Core'
<1>1. /\ pc' = [pc EXCEPT ![t] = step]
      /\ pinned' = [pinned EXCEPT ![t] = @ \cup Passed(Home_(t), Key(t), FALSE)]
  BY DEF Goto, Pin
<1>2. Home_(t) \in Entries /\ spin[Home_(t)] = t /\ OpOK(t)
  BY OpFacts DEF Core, LockOK, HomeLocked, Home_
<1>3. Types'
  BY <1>1, <1>2, PassedKeys DEF Core, Types, Writing
<1>4. /\ pc'[t] = step
      /\ \A u \in Threads \ {t} : pc'[u] = pc[u] /\ op'[u] = op[u] /\ pinned'[u] = pinned[u]
      /\ \A b \in Entries : spin'[b] = spin[b] \/ spin[b] = t
  BY <1>1, <1>2 DEF Core, Types
<1>5. OpOK(t)' /\ pc'[t] \notin HomeLocked
  BY <1>2, <1>4 DEF OpOK, Key, Home_, Reading, Writing, Making, HomeLocked
<1> QED
  BY <1>3, <1>4, <1>5, ReleaseCore DEF Moving, Owning

LEMMA ScanGoesOn ==
  ASSUME Core, NEW t \in Threads, pc[t] = "scan", op[t].kind # "remove",
         Stops(Home_(t), Key(t), FALSE) = {},
         Goto(t, "probe"), Pin(t, Passed(Home_(t), Key(t), FALSE)),
         UNCHANGED <<bitmap, spin, ptr, op, races, stash, notes, remote, late>>
  PROVE  Core'
<1>1. /\ pc' = [pc EXCEPT ![t] = "probe"]
      /\ pinned' = [pinned EXCEPT ![t] = @ \cup Passed(Home_(t), Key(t), FALSE)]
  BY DEF Goto, Pin
<1>2. Home_(t) \in Entries /\ spin[Home_(t)] = t /\ OpOK(t)
  BY OpFacts DEF Core, LockOK, HomeLocked, Home_
<1>3. Types'
  BY <1>1, <1>2, PassedKeys DEF Core, Types, Writing
<1>4. /\ pc'[t] = "probe"
      /\ \A u \in Threads \ {t} : pc'[u] = pc[u] /\ op'[u] = op[u] /\ pinned'[u] = pinned[u]
  BY <1>1 DEF Core, Types
<1>5. OpOK(t)'
  BY <1>2, <1>4, OpFacts DEF OpOK, Key, Home_, Reading, Writing, Making, HomeLocked
<1>6. LockOK(t)' /\ MoveOK(t)'
  BY <1>2, <1>4 DEF LockOK, MoveOK, HomeLocked, Moving, Relinked, Home_
<1>7. Quiet(t)
  BY <1>4 DEF Quiet, Owning
<1>8. \A e \in Entries : IsObj(e) => ptr[e].key # Key(t)'
  BY ScanMisses DEF Key
<1> QED
  BY <1>3, <1>5, <1>6, <1>7, <1>8, QuietStep

LEMMA StashEnds ==
  ASSUME Core, NEW t \in Threads, pc[t] = "stash",
         spin' = [e \in Entries |-> IF spin[e] = t THEN None ELSE spin[e]],
         Goto(t, IF Asking(t) THEN "stamp" ELSE "lock"),
         UNCHANGED <<bitmap, ptr, stash, races, notes, remote, op, pinned, late>>
  PROVE  Core'
<1>1. pc' = [pc EXCEPT ![t] = IF Asking(t) THEN "stamp" ELSE "lock"]
  BY DEF Goto
<1>2. Types'
  BY <1>1 DEF Core, Types, Reading, Writing
<1>3. /\ pc'[t] = IF Asking(t) THEN "stamp" ELSE "lock"
      /\ \A u \in Threads \ {t} : pc'[u] = pc[u] /\ op'[u] = op[u] /\ pinned'[u] = pinned[u]
      /\ \A b \in Entries : spin'[b] = spin[b] \/ spin[b] = t
  BY <1>1 DEF Core, Types
<1>4. OpOK(t) /\ op[t].val \in Vals \cup {None}
  BY OpFacts DEF Core
<1>5. OpOK(t)' /\ pc'[t] \notin HomeLocked
  BY <1>3, <1>4 DEF OpOK, Key, Home_, Asking, Reading, Writing, Making, HomeLocked
<1> QED
  BY <1>2, <1>3, <1>5, ReleaseCore DEF Moving, Owning

LEMMA ProbeSkips ==
  ASSUME Core, NEW t \in Threads, pc[t] = "probe", op[t].idx < kNumEntries,
         op' = [op EXCEPT ![t].idx = op[t].idx + 1],
         UNCHANGED <<bitmap, spin, ptr, stash, notes, remote, pc, pinned, late, races>>
  PROVE  Core'
<1>1. op[t].idx + 1 \in 0..kNumEntries
  BY OpFacts, Sizes
<1>2. op'[t] = [op[t] EXCEPT !.idx = op[t].idx + 1]
  BY DEF Core, Types
<1>3. op'[t] \in OpTypes
  BY <1>1, <1>2, OpFacts DEF OpTypes
<1>4. op' \in [Threads -> OpTypes] /\ \A u \in Threads \ {t} : op'[u] = op[u]
  BY <1>3 DEF Core, Types
<1>5. Types'
  BY <1>4 DEF Core, Types
<1>6. /\ op'[t].key = op[t].key /\ op'[t].home = op[t].home /\ op'[t].kind = op[t].kind
      /\ op'[t].val = op[t].val /\ op'[t].idx = op[t].idx + 1
  BY <1>2, OpFacts DEF OpTypes
<1>7. OpOK(t) /\ LockOK(t) /\ MoveOK(t)
  BY DEF Core
<1>8. OpOK(t)'
  BY <1>6, <1>7, OpFacts DEF OpOK, Key, Home_, Reading, Writing, Making, HomeLocked
<1>9. LockOK(t)' /\ MoveOK(t)'
  BY <1>6, <1>7 DEF LockOK, MoveOK, HomeLocked, Moving, Relinked, Home_
<1>10. Quiet(t)
  BY <1>4 DEF Quiet, Owning
<1>11. \A e \in Entries : IsObj(e) => ptr[e].key # Key(t)'
  BY <1>6 DEF Core, KeyOK, Making, HomeLocked, Key
<1> QED
  BY <1>5, <1>8, <1>9, <1>10, <1>11, QuietStep

\* Room, when the entry is near enough.
LEMMA RoomNear ==
  ASSUME Core, NEW t \in Threads, pc[t] = "room", op[t].idx - Home_(t) < kNeighborhood,
         Goto(t, "alloc"),
         UNCHANGED <<bitmap, spin, ptr, stash, notes, remote, op, pinned, late, races>>
  PROVE  Core'
<1>1. pc' = [pc EXCEPT ![t] = "alloc"]
  BY DEF Goto
<1>2. Types'
  BY <1>1 DEF Core, Types, Writing
<1>3. pc'[t] = "alloc" /\ \A u \in Threads \ {t} : pc'[u] = pc[u]
  BY <1>1 DEF Core, Types
<1>4. OpOK(t) /\ LockOK(t) /\ MoveOK(t)
  BY DEF Core
<1>5. OpOK(t)'
  BY <1>3, <1>4 DEF OpOK, Key, Home_, Reading, Writing, Making, HomeLocked
<1>6. LockOK(t)' /\ MoveOK(t)'
  BY <1>3, <1>4 DEF LockOK, MoveOK, HomeLocked, Moving, Relinked, Home_
<1>7. Quiet(t)
  BY <1>3 DEF Quiet, Owning
<1>8. \A e \in Entries : IsObj(e) => ptr[e].key # Key(t)'
  BY DEF Core, KeyOK, Making, HomeLocked, Key
<1> QED
  BY <1>2, <1>5, <1>6, <1>7, <1>8, QuietStep

LEMMA RoomNext ==
  ASSUME Core, NEW t \in Threads, pc[t] = "room", op[t].dist > 0,
         op' = [op EXCEPT ![t].dist = @ - 1],
         UNCHANGED <<bitmap, spin, ptr, stash, notes, remote, pc, pinned, late, races>>
  PROVE  Core'
<1>1. op[t].dist - 1 \in Offsets
  BY OpFacts, Sizes
<1>2. op'[t] = [op[t] EXCEPT !.dist = op[t].dist - 1]
  BY DEF Core, Types
<1>3. op'[t] \in OpTypes
  BY <1>1, <1>2, OpFacts DEF OpTypes
<1>4. op' \in [Threads -> OpTypes] /\ \A u \in Threads \ {t} : op'[u] = op[u]
  BY <1>3 DEF Core, Types
<1>5. Types'
  BY <1>4 DEF Core, Types
<1>6. /\ op'[t].key = op[t].key /\ op'[t].home = op[t].home /\ op'[t].kind = op[t].kind
      /\ op'[t].val = op[t].val /\ op'[t].idx = op[t].idx
  BY <1>2, OpFacts DEF OpTypes
<1>7. OpOK(t) /\ LockOK(t) /\ MoveOK(t)
  BY DEF Core
<1>8. OpOK(t)'
  BY <1>6, <1>7 DEF OpOK, Key, Home_, Reading, Writing, Making, HomeLocked
<1>9. LockOK(t)' /\ MoveOK(t)'
  BY <1>6, <1>7 DEF LockOK, MoveOK, HomeLocked, Moving, Relinked, Home_
<1>10. Quiet(t)
  BY <1>4, <1>6 DEF Quiet, Owning
<1>11. \A e \in Entries : IsObj(e) => ptr[e].key # Key(t)'
  BY <1>6 DEF Core, KeyOK, Making, HomeLocked, Key
<1> QED
  BY <1>5, <1>8, <1>9, <1>10, <1>11, QuietStep

LEMMA RoomLocks ==
  ASSUME Core, NEW t \in Threads, pc[t] = "room",
         op[t].idx - Home_(t) >= kNeighborhood, op[t].dist > 0,
         bitmap[Anchor(t)] # {}, spin[Anchor(t)] = None, From(t) < op[t].idx,
         spin' = [spin EXCEPT ![Anchor(t)] = t], Goto(t, "from"),
         UNCHANGED <<bitmap, ptr, stash, notes, remote, op, pinned, late, races>>
  PROVE  Core'
<1>1. pc' = [pc EXCEPT ![t] = "from"]
  BY DEF Goto
<1>2. Anchor(t) \in Entries
  BY OpFacts, Sizes DEF Anchor, Home_, Core, OpOK
<1>3. Types'
  BY <1>1, <1>2 DEF Core, Types, Writing
<1>4. /\ pc'[t] = "from" /\ spin'[Anchor(t)] = t
      /\ \A u \in Threads \ {t} : pc'[u] = pc[u]
      /\ \A b \in Entries : b # Anchor(t) => spin'[b] = spin[b]
  BY <1>1, <1>2 DEF Core, Types
<1>5. OpOK(t) /\ LockOK(t) /\ MoveOK(t) /\ Home_(t) \in Entries
  BY OpFacts DEF Core, Home_
<1>6. OpOK(t)'
  BY <1>4, <1>5 DEF OpOK, Key, Home_, Reading, Writing, Making, HomeLocked
<1>7. Home_(t)' = Home_(t) /\ Anchor(t)' = Anchor(t) /\ From(t)' = From(t)
  BY DEF Home_, Anchor, From
<1>8. LockOK(t)'
  BY <1>4, <1>5, <1>7 DEF LockOK, HomeLocked, Moving
<1>9. MoveOK(t)'
  BY <1>4, <1>5 DEF MoveOK, Relinked
<1>10. Quiet(t)
  BY <1>4, NoneAssumption DEF Quiet, Owning
<1>11. \A e \in Entries : IsObj(e) => ptr[e].key # Key(t)'
  BY DEF Core, KeyOK, Making, HomeLocked, Key
<1> QED
  BY <1>3, <1>6, <1>8, <1>9, <1>10, <1>11, QuietStep

LEMMA RoomCore ==
  ASSUME Core, NEW t \in Threads, Room(t)
  PROVE  Core'
<1>1. pc[t] = "room" /\ UNCHANGED <<bitmap, ptr, stash, notes, remote, pinned, late, races>>
  BY DEF Room
<1>2. CASE op[t].idx - Home_(t) < kNeighborhood /\ Goto(t, "alloc") /\ UNCHANGED <<spin, op>>
  BY <1>1, <1>2, RoomNear
<1>3. CASE op[t].dist > 0 /\ op' = [op EXCEPT ![t].dist = @ - 1] /\ UNCHANGED <<spin, pc>>
  BY <1>1, <1>3, RoomNext
<1>4. CASE /\ op[t].idx - Home_(t) >= kNeighborhood /\ op[t].dist > 0
           /\ bitmap[Anchor(t)] # {} /\ spin[Anchor(t)] = None /\ From(t) < op[t].idx
           /\ spin' = [spin EXCEPT ![Anchor(t)] = t] /\ Goto(t, "from") /\ UNCHANGED op
  BY <1>1, <1>4, RoomLocks
<1> QED
  BY <1>2, <1>3, <1>4 DEF Room, Anchor, From

LEMMA BugCore ==
  ASSUME Core, NEW t \in Threads, Bug(t)
  PROVE  Core'
<1>1. /\ pc[t] \in {"probe", "room"} /\ pc' = [pc EXCEPT ![t] = "bug"]
      /\ UNCHANGED <<bitmap, spin, ptr, stash, notes, remote, op, pinned, late, races>>
  BY DEF Bug, Goto, table
<1>2. Types'
  BY <1>1 DEF Core, Types
<1>3. pc'[t] = "bug" /\ \A u \in Threads \ {t} : pc'[u] = pc[u]
  BY <1>1 DEF Core, Types
<1>4. OpOK(t)'
  BY <1>1, <1>3 DEF Core, OpOK, Key, Home_, Reading, Writing, Making, HomeLocked
<1>5. LockOK(t)' /\ MoveOK(t)' /\ pc'[t] \notin Making
  BY <1>3, IdleLocks DEF HomeLocked, Making
<1>6. Quiet(t)
  BY <1>1, <1>3 DEF Quiet, Owning
<1> QED
  BY <1>2, <1>4, <1>5, <1>6, QuietStep

LEMMA TickCore ==
  ASSUME Core, NEW t \in Threads, Tick(t)
  PROVE  Core'
<1>1. /\ pc[t] = "tick" /\ pc' = [pc EXCEPT ![t] = "copy"]
      /\ late' \in SUBSET Threads
      /\ UNCHANGED <<bitmap, spin, ptr, stash, notes, remote, op, pinned, races>>
  BY DEF Tick, Goto, table, Core, Types
<1>2. Types'
  BY <1>1 DEF Core, Types, Writing
<1>3. pc'[t] = "copy" /\ \A u \in Threads \ {t} : pc'[u] = pc[u]
  BY <1>1 DEF Core, Types
<1>4. OpOK(t) /\ LockOK(t) /\ MoveOK(t)
  BY DEF Core
<1>5. OpOK(t)'
  BY <1>1, <1>3, <1>4 DEF OpOK, Key, Home_, Reading, Writing, Making, HomeLocked
<1>6. Home_(t)' = Home_(t) /\ Anchor(t)' = Anchor(t) /\ From(t)' = From(t)
  BY <1>1 DEF Home_, Anchor, From
<1>7. LockOK(t)'
  BY <1>1, <1>3, <1>4, <1>6 DEF LockOK, HomeLocked, Moving
<1>8. MoveOK(t)'
  BY <1>1, <1>3, <1>4, <1>6 DEF MoveOK, Relinked, IsObj
<1>9. Quiet(t)
  BY <1>1, <1>3 DEF Quiet, Owning
<1>10. \A e \in Entries : IsObj(e) => ptr[e].key # Key(t)'
  BY <1>1 DEF Core, KeyOK, Making, HomeLocked, Key
<1> QED
  BY <1>2, <1>5, <1>7, <1>8, <1>9, <1>10, QuietStep

LEMMA RemoveRemoteCore ==
  ASSUME Core, NEW t \in Threads, RemoveRemote(t)
  PROVE  Core'
<1>1. /\ pc[t] = "remote" /\ Done(t) /\ races \subseteq races'
      /\ remote' = [remote EXCEPT ![Key(t)] = None]
      /\ UNCHANGED <<bitmap, spin, ptr, stash, notes, late>>
  BY DEF RemoveRemote, Race
<1>2. Types'
  BY <1>1, DoneFacts DEF Core, Types
<1> QED
  BY <1>1, <1>2, DoneFacts, ReleaseCore DEF Moving, Owning

\* A reader's step that only changes where it is and what it has pinned.
LEMMA ReaderCore ==
  ASSUME Core, NEW t \in Threads, pc[t] \in Reading \ {"slowscan", "value"}, NEW step,
         step \in {"stamp", "bits", "look", "recheck", "slow", "forward", "stash"},
         Goto(t, step), NEW r \in OpTypes, op' = [op EXCEPT ![t] = r],
         \/ r = op[t]
         \/ \E bits \in SUBSET Offsets : r = [op[t] EXCEPT !.bits = bits]
         \/ \E n \in Nat : r = [op[t] EXCEPT !.tries = n],
         pinned' \in [Threads -> SUBSET Keys],
         \A u \in Threads \ {t} : pinned'[u] = pinned[u],
         late' \in SUBSET Threads, races \subseteq races', UNCHANGED table
  PROVE  Core'
<1>1. /\ pc' = [pc EXCEPT ![t] = step]
      /\ UNCHANGED <<bitmap, spin, ptr, stash, notes, remote>>
  BY DEF Goto, table
<1>2. Types'
  BY <1>1 DEF Core, Types, Reading, Writing
<1>3. /\ pc'[t] = step /\ op'[t] = r
      /\ \A u \in Threads \ {t} : pc'[u] = pc[u] /\ op'[u] = op[u]
  BY <1>1 DEF Core, Types
<1>4. /\ r.key = op[t].key /\ r.home = op[t].home /\ r.kind = op[t].kind
      /\ r.val = op[t].val /\ r.idx = op[t].idx
  BY OpFacts DEF OpTypes
<1>5. OpOK(t)
  BY DEF Core
<1>6. OpOK(t)' /\ pc'[t] \notin HomeLocked
  BY <1>3, <1>4, <1>5 DEF OpOK, Key, Home_, Reading, Writing, Making, HomeLocked
<1>7. \A b \in Entries : spin'[b] = spin[b]
  BY <1>1
<1>8. pc[t] \notin Moving \cup {"publish", "bug"} /\ pc[t] \notin Owning
  BY DEF Reading, Moving, Owning
<1> QED
  BY <1>1, <1>2, <1>3, <1>6, <1>7, <1>8, ReleaseCore

LEMMA ReadStampCore ==
  ASSUME Core, NEW t \in Threads, ReadStamp(t)
  PROVE  Core'
<1>1. op' = [op EXCEPT ![t] = op[t]] /\ op[t] \in OpTypes
  BY OpFacts DEF ReadStamp, Core, Types
<1>2. /\ late' \in SUBSET Threads /\ pinned' \in [Threads -> SUBSET Keys]
      /\ \A u \in Threads \ {t} : pinned'[u] = pinned[u]
  BY DEF ReadStamp, Core, Types
<1> QED
  BY <1>1, <1>2, ReaderCore DEF ReadStamp, Reading

LEMMA ReadBitsCore ==
  ASSUME Core, NEW t \in Threads, ReadBits(t)
  PROVE  Core'
<1> DEFINE r == [op[t] EXCEPT !.bits = bitmap[Home_(t)]]
<1>1. bitmap[Home_(t)] \in SUBSET Offsets
  BY OpFacts DEF Core, Types, Home_
<1>2. op' = [op EXCEPT ![t] = r]
  BY DEF ReadBits, Core, Types
<1>3. r \in OpTypes
  BY <1>1, OpFacts DEF OpTypes
<1>4. \E bits \in SUBSET Offsets : r = [op[t] EXCEPT !.bits = bits]
  BY <1>1
<1>5. /\ late' \in SUBSET Threads /\ pinned' \in [Threads -> SUBSET Keys]
      /\ \A u \in Threads \ {t} : pinned'[u] = pinned[u]
      /\ UNCHANGED table /\ races' = races /\ pc[t] = "bits" /\ Goto(t, "look")
  BY DEF ReadBits, Core, Types
<1> HIDE DEF r
<1> QED
  BY <1>2, <1>3, <1>4, <1>5, ReaderCore DEF Reading

\* An entry of the neighbourhood of the home bucket.
LEMMA HomeFacts ==
  ASSUME Core, NEW t \in Threads, pc[t] # "idle", NEW o \in Offsets
  PROVE  /\ Home_(t) \in Homes /\ Home_(t) \in Entries /\ Home_(t) \in Nat
         /\ Home_(t) = Home[Key(t)] /\ Key(t) \in Keys /\ Home_(t) + o \in Entries
<1>1. Key(t) \in Keys /\ Home_(t) = Home[Key(t)]
  BY DEF Core, OpOK
<1>2. Home_(t) \in Homes
  BY <1>1, HomeAssumption
<1> QED
  BY <1>1, <1>2, SizeAssumption DEF Homes, Offsets, Entries, kNumEntries

LEMMA LookCore ==
  ASSUME Core, NEW t \in Threads, Look(t)
  PROVE  Core'
<1> DEFINE e == Home_(t) + Min(op[t].bits)
           r == [op[t] EXCEPT !.bits = @ \ {Min(@)}]
<1>1. /\ pc[t] = "look" /\ races \subseteq races' /\ UNCHANGED table /\ late' = late
      /\ late' \in SUBSET Threads
  BY DEF Look, Race, Core, Types
<1>2. /\ r \in OpTypes /\ \E bits \in SUBSET Offsets : r = [op[t] EXCEPT !.bits = bits]
      /\ [op EXCEPT ![t].bits = @ \ {Min(@)}] = [op EXCEPT ![t] = r]
  <2>1. op[t].bits \ {Min(op[t].bits)} \in SUBSET Offsets
    BY OpFacts
  <2> QED
    BY <2>1, OpFacts DEF OpTypes
<1>3. op = [op EXCEPT ![t] = op[t]] /\ op[t] \in OpTypes /\ pc = [pc EXCEPT ![t] = pc[t]]
  BY OpFacts DEF Core, Types
<1>4. CASE Goto(t, "recheck") /\ UNCHANGED <<op, pinned>>
  BY <1>1, <1>3, <1>4, ReaderCore DEF Reading, Core, Types
<1>5. CASE Restart(t)
  BY <1>1, <1>3, <1>5, ReaderCore DEF Restart, Reading, Core, Types
<1>6. CASE op' = [op EXCEPT ![t].bits = @ \ {Min(@)}] /\ UNCHANGED <<pc, pinned>>
  <2>1. Goto(t, "look") /\ op' = [op EXCEPT ![t] = r]
    BY <1>1, <1>2, <1>3, <1>6 DEF Goto
  <2>2. pinned' \in [Threads -> SUBSET Keys] /\ \A u \in Threads \ {t} : pinned'[u] = pinned[u]
    BY <1>6 DEF Core, Types
  <2> HIDE DEF r
  <2> QED
    BY <1>1, <1>2, <2>1, <2>2, ReaderCore DEF Reading
<1>7. CASE /\ op[t].bits # {} /\ ~IsNull(e) /\ Goto(t, "value")
           /\ op' = [op EXCEPT ![t].val = ptr[e].val] /\ Pin(t, {ptr[e].key})
  <2>0. Min(op[t].bits) \in Offsets
    BY <1>7, OpFacts, MinOfOffsets
  <2>1. e \in Entries
    BY <1>1, <2>0, HomeFacts
  <2>2. ptr[e].key \in Keys /\ ptr[e].val \in Vals
    BY <1>7, <2>1, ObjFacts
  <2> HIDE DEF e
  <2>3. UNCHANGED <<bitmap, spin, ptr, stash, notes, remote>>
    BY <1>1 DEF table
  <2>4. /\ pc' = [pc EXCEPT ![t] = "value"] /\ op'[t] = [op[t] EXCEPT !.val = ptr[e].val]
        /\ pinned' = [pinned EXCEPT ![t] = @ \cup {ptr[e].key}]
    BY <1>7 DEF Goto, Pin, Core, Types
  <2>5. op'[t] \in OpTypes
    BY <2>2, <2>4, OpFacts DEF OpTypes
  <2>6. /\ op' \in [Threads -> OpTypes] /\ \A u \in Threads \ {t} : op'[u] = op[u]
        /\ pc'[t] = "value" /\ \A u \in Threads \ {t} : pc'[u] = pc[u]
        /\ pinned' \in [Threads -> SUBSET Keys]
        /\ \A u \in Threads \ {t} : pinned'[u] = pinned[u]
    BY <1>7, <2>2, <2>4, <2>5 DEF Core, Types
  <2>7. Types'
    BY <1>1, <2>3, <2>4, <2>6 DEF Core, Types, Reading
  <2>8. /\ op'[t].key = op[t].key /\ op'[t].home = op[t].home /\ op'[t].kind = op[t].kind
        /\ op'[t].idx = op[t].idx
    BY <2>4, OpFacts DEF OpTypes
  <2>9. OpOK(t)
    BY DEF Core
  <2>10. OpOK(t)' /\ pc'[t] \notin HomeLocked
    BY <1>1, <2>6, <2>8, <2>9
    DEF OpOK, Key, Home_, Reading, Writing, Making, HomeLocked
  <2> QED
    BY <1>1, <2>3, <2>6, <2>7, <2>10, ReleaseCore DEF Moving, Owning
<1>8. CASE /\ op[t].bits # {} /\ ~IsNull(e) /\ UNCHANGED pc
           /\ op' = [op EXCEPT ![t].bits = @ \ {Min(@)}] /\ Pin(t, {ptr[e].key})
  <2>1. Goto(t, "look") /\ op' = [op EXCEPT ![t] = r]
    BY <1>1, <1>2, <1>3, <1>8 DEF Goto
  <2>2. Min(op[t].bits) \in Offsets
    BY <1>8, OpFacts, MinOfOffsets
  <2>3. e \in Entries
    BY <1>1, <2>2, HomeFacts
  <2>4. ptr[e].key \in Keys
    BY <1>8, <2>3, ObjFacts
  <2>5. pinned' \in [Threads -> SUBSET Keys] /\ \A u \in Threads \ {t} : pinned'[u] = pinned[u]
    BY <1>8, <2>4 DEF Pin, Core, Types
  <2> HIDE DEF r
  <2> QED
    BY <1>1, <1>2, <2>1, <2>5, ReaderCore DEF Reading
<1> QED
  BY <1>4, <1>5, <1>6, <1>7, <1>8 DEF Look

LEMMA CopyValCore ==
  ASSUME Core, NEW t \in Threads, CopyVal(t)
  PROVE  Core'
<1>1. /\ pc[t] = "value" /\ Done(t)
      /\ UNCHANGED <<bitmap, spin, ptr, stash, notes, remote, late, races>>
  BY DEF CopyVal, table
<1>2. Types'
  BY <1>1, DoneFacts DEF Core, Types
<1> QED
  BY <1>1, <1>2, DoneFacts, ReleaseCore DEF Moving, Owning

LEMMA RecheckCore ==
  ASSUME Core, NEW t \in Threads, Recheck(t)
  PROVE  Core'
<1> DEFINE r == [op[t] EXCEPT !.tries = @ + 1]
<1>1. /\ pc[t] = "recheck" /\ races' = races /\ UNCHANGED table /\ late' \in SUBSET Threads
      /\ pinned' \in [Threads -> SUBSET Keys] /\ \A u \in Threads \ {t} : pinned'[u] = pinned[u]
  BY DEF Recheck, Core, Types
<1>2. /\ r \in OpTypes /\ \E n \in Nat : r = [op[t] EXCEPT !.tries = n]
      /\ [op EXCEPT ![t].tries = @ + 1] = [op EXCEPT ![t] = r]
  <2>1. op[t].tries + 1 \in Nat
    BY OpFacts
  <2> QED
    BY <2>1, OpFacts DEF OpTypes
<1>3. op = [op EXCEPT ![t] = op[t]] /\ op[t] \in OpTypes
  BY OpFacts DEF Core, Types
<1>4. CASE (Goto(t, "slow") \/ Goto(t, "forward")) /\ UNCHANGED op
  BY <1>1, <1>3, <1>4, ReaderCore DEF Reading
<1>5. CASE Goto(t, "stamp") /\ op' = [op EXCEPT ![t].tries = @ + 1]
  <2>1. op' = [op EXCEPT ![t] = r]
    BY <1>2, <1>5
  <2> HIDE DEF r
  <2> QED
    BY <1>1, <1>2, <1>5, <2>1, ReaderCore DEF Reading
<1> QED
  BY <1>4, <1>5 DEF Recheck

LEMMA LockSlowCore ==
  ASSUME Core, NEW t \in Threads, LockSlow(t)
  PROVE  Core'
<1>1. /\ pc[t] = "slow" /\ spin[Home_(t)] = None /\ pc' = [pc EXCEPT ![t] = "slowscan"]
      /\ spin' = [spin EXCEPT ![Home_(t)] = t]
      /\ UNCHANGED <<bitmap, ptr, stash, notes, remote, op, pinned, late, races>>
  BY DEF LockSlow, Goto
<1>2. Home_(t) \in Entries /\ OpOK(t)
  BY OpFacts DEF Home_, Core
<1>3. Types'
  BY <1>1, <1>2 DEF Core, Types, Reading
<1>4. /\ pc'[t] = "slowscan" /\ spin'[Home_(t)] = t
      /\ \A u \in Threads \ {t} : pc'[u] = pc[u]
      /\ \A b \in Entries : b # Home_(t) => spin'[b] = spin[b]
  BY <1>1, <1>2 DEF Core, Types
<1>5. OpOK(t)'
  BY <1>1, <1>2, <1>4 DEF OpOK, Key, Home_, Reading, Writing, Making, HomeLocked
<1>6. LockOK(t)' /\ MoveOK(t)'
  BY <1>1, <1>4 DEF LockOK, MoveOK, Moving, Relinked, Home_
<1>7. Quiet(t) /\ pc'[t] \notin Making
  BY <1>1, <1>4, NoneAssumption DEF Quiet, Owning, Making
<1> QED
  BY <1>3, <1>5, <1>6, <1>7, QuietStep

LEMMA ScanSlowCore ==
  ASSUME Core, NEW t \in Threads, ScanSlow(t)
  PROVE  Core'
<1>1. /\ pc[t] = "slowscan" /\ spin' = [spin EXCEPT ![Home_(t)] = None]
      /\ UNCHANGED <<bitmap, ptr, stash, notes, remote, late, races>>
  BY DEF ScanSlow
<1>2. Home_(t) \in Entries /\ spin[Home_(t)] = t /\ OpOK(t)
  BY <1>1, OpFacts DEF Home_, Core, LockOK, HomeLocked
<1>3. /\ \A b \in Entries : spin'[b] = spin[b] \/ spin[b] = t
      /\ spin' \in [Entries -> Threads \cup {None}]
  BY <1>1, <1>2 DEF Core, Types
<1>4. CASE Done(t)
  <2>1. Types'
    BY <1>1, <1>3, <1>4, DoneFacts DEF Core, Types
  <2> QED
    BY <1>1, <1>3, <1>4, <2>1, DoneFacts, ReleaseCore DEF Moving, Owning
<1>5. CASE Goto(t, "forward") /\ Pin(t, Passed(Home_(t), Key(t), TRUE)) /\ UNCHANGED op
  <2>1. /\ pc' = [pc EXCEPT ![t] = "forward"]
        /\ pinned' = [pinned EXCEPT ![t] = @ \cup Passed(Home_(t), Key(t), TRUE)]
    BY <1>5 DEF Goto, Pin
  <2>2. Types'
    BY <1>1, <1>2, <1>3, <1>5, <2>1, PassedKeys DEF Core, Types, Reading
  <2>3. /\ pc'[t] = "forward" /\ op' = op
        /\ \A u \in Threads \ {t} : pc'[u] = pc[u] /\ pinned'[u] = pinned[u]
    BY <1>5, <2>1 DEF Core, Types
  <2>4. OpOK(t)' /\ pc'[t] \notin HomeLocked
    BY <1>1, <1>2, <2>3 DEF OpOK, Key, Home_, Reading, Writing, Making, HomeLocked
  <2> QED
    BY <1>1, <1>3, <2>2, <2>3, <2>4, ReleaseCore DEF Moving, Owning
<1> QED
  BY <1>4, <1>5 DEF ScanSlow

LEMMA ForwardCore ==
  ASSUME Core, NEW t \in Threads, Forward(t)
  PROVE  Core'
<1>1. /\ pc[t] = "forward"
      /\ UNCHANGED <<bitmap, spin, ptr, stash, notes, remote, late, races>>
  BY DEF Forward, table
<1>2. CASE Done(t)
  <2>1. Types'
    BY <1>1, <1>2, DoneFacts DEF Core, Types
  <2> QED
    BY <1>1, <1>2, <2>1, DoneFacts, ReleaseCore DEF Moving, Owning
<1>3. CASE /\ remote[Key(t)] # None /\ Goto(t, "lock") /\ UNCHANGED pinned
           /\ op' = [op EXCEPT ![t].val = remote[Key(t)], ![t].bits = {}]
  <2>0. OpOK(t) /\ Key(t) \in Keys
    BY <1>1 DEF Core, OpOK
  <2>1. remote[Key(t)] \in Vals
    BY <1>3, <2>0 DEF Core, Types
  <2>2. /\ op'[t] = [op[t] EXCEPT !.val = remote[Key(t)], !.bits = {}]
        /\ pc' = [pc EXCEPT ![t] = "lock"]
    BY <1>3 DEF Goto, Core, Types
  <2>3. op'[t] \in OpTypes
    BY <2>1, <2>2, OpFacts DEF OpTypes
  <2>4. /\ op' \in [Threads -> OpTypes] /\ \A u \in Threads \ {t} : op'[u] = op[u]
        /\ pc'[t] = "lock" /\ \A u \in Threads \ {t} : pc'[u] = pc[u]
    BY <1>3, <2>2, <2>3 DEF Core, Types
  <2>5. Types'
    BY <1>1, <1>3, <2>2, <2>4 DEF Core, Types, Writing
  <2>6. /\ op'[t].key = op[t].key /\ op'[t].home = op[t].home /\ op'[t].kind = op[t].kind
        /\ op'[t].val = remote[Key(t)] /\ op'[t].idx = op[t].idx
    BY <2>2, OpFacts DEF OpTypes
  <2>7. OpOK(t)' /\ pc'[t] \notin HomeLocked
    BY <1>1, <2>0, <2>1, <2>4, <2>6
    DEF OpOK, Key, Home_, Reading, Writing, Making, HomeLocked
  <2> QED
    BY <1>1, <1>3, <2>4, <2>5, <2>7, ReleaseCore DEF Moving, Owning
<1> QED
  BY <1>2, <1>3 DEF Forward

LEMMA AllocateFails ==
  ASSUME Core, NEW t \in Threads, pc[t] = "alloc",
         spin' = [spin EXCEPT ![Home_(t)] = None], Race({"leak"}), Goto(t, "lock"),
         UNCHANGED <<bitmap, ptr, stash, notes, remote, op, pinned, late>>
  PROVE  Core'
<1>1. pc' = [pc EXCEPT ![t] = "lock"] /\ races' = races \cup {"leak"}
  BY DEF Goto, Race
<1>2. Home_(t) \in Entries /\ spin[Home_(t)] = t /\ OpOK(t)
  BY OpFacts DEF Core, LockOK, HomeLocked, Home_
<1>3. Types'
  BY <1>1, <1>2 DEF Core, Types, Writing
<1>4. /\ pc'[t] = "lock" /\ \A u \in Threads \ {t} : pc'[u] = pc[u]
      /\ \A b \in Entries : spin'[b] = spin[b] \/ spin[b] = t
  BY <1>1, <1>2 DEF Core, Types
<1>5. OpOK(t)' /\ pc'[t] \notin HomeLocked
  BY <1>2, <1>4 DEF OpOK, Key, Home_, Reading, Writing, Making, HomeLocked
<1> QED
  BY <1>1, <1>3, <1>4, <1>5, ReleaseCore DEF Moving, Owning

-----------------------------------------------------------------------------
\* The steps that change the table.

LEMMA CoreStep ==
  ASSUME Core, NEW a, Bystanders(a), Types',
         a \in Threads => OpOK(a)' /\ LockOK(a)' /\ MoveOK(a)',
         OwnOK', ObjOK', BitOK', UniqueBits', NoteOK', KeyOK', LeakOK'
  PROVE  Core'
<1>1. ASSUME NEW t \in Threads PROVE OpOK(t)' /\ LockOK(t)' /\ MoveOK(t)'
  BY OthersKeep
<1> QED
  BY <1>1 DEF Core

\* The clearing of a bit, or the decision to leave that to somebody else.
LEMMA NotifyCore ==
  ASSUME Core, NEW b \in Entries, NEW o \in Offsets, <<b, o>> \in notes \cup stash,
         Notify(<<b, o>>), notes' = notes \ {<<b, o>>}, ptr' = ptr,
         UNCHANGED <<spin, remote, pc, op, pinned, late>>, races \subseteq races'
  PROVE  Core'
<1>1. o \in bitmap[b] /\ ptr[b + o] = Null
  BY DEF Core, NoteOK
<1>2. \/ /\ spin[b] = None /\ bitmap' = [bitmap EXCEPT ![b] = @ \ {o}]
         /\ stash' = stash \ {<<b, o>>}
      \/ spin[b] # None /\ bitmap' = bitmap /\ stash' = stash \cup {<<b, o>>}
  BY <1>1 DEF Notify, Core, Types
<1>3. /\ \A c \in Entries : bitmap'[c] \subseteq bitmap[c]
      /\ \A c \in Entries : c # b => bitmap'[c] = bitmap[c]
      /\ bitmap'[b] = bitmap[b] \/ (bitmap'[b] = bitmap[b] \ {o} /\ spin[b] = None)
      /\ bitmap' \in [Entries -> SUBSET Offsets]
  BY <1>2 DEF Core, Types
<1>4. Types'
  BY <1>2, <1>3 DEF Core, Types, Metas
<1>5. Bystanders(None)
  BY <1>3, NoneAssumption DEF Bystanders
<1>6. OwnOK'
  BY <1>5, OwnStep, NoneAssumption
<1>7. ObjOK'
  <2>1. ASSUME NEW e \in Entries, IsObj(e)', Settled(e)
        PROVE  ptr[e].offset \in bitmap'[ptr[e].anchor]
    <3>1. IsObj(e)
      BY <2>1 DEF IsObj
    <3>2. ~(ptr[e].anchor = b /\ ptr[e].offset = o)
      BY <1>1, <2>1, <3>1, ObjFacts DEF Settled
    <3>3. ptr[e].anchor \in Entries
      BY <3>1, ObjFacts
    <3> QED
      BY <1>3, <2>1, <3>2, <3>3 DEF Settled
  <2> QED
    BY <1>5, <2>1, ObjStep, NoneAssumption
<1>8. BitOK'
  <2>1. ASSUME NEW c \in Entries, NEW p \in bitmap'[c]
        PROVE  LET now == \/ IsObj(c + p)' /\ ptr'[c + p].anchor = c
                          \/ <<c, p>> \in notes' \cup stash'
               IN /\ p \in bitmap[c]
                  /\ IsObj(c + p) \/ <<c, p>> \in notes \cup stash => now
    <3>1. p \in bitmap[c]
      BY <1>3, <2>1
    <3>2. IsObj(c + p) => IsObj(c + p)' /\ ptr'[c + p].anchor = c
      BY <3>1, BitFacts DEF IsObj
    <3>3. <<c, p>> \in notes \cup stash => <<c, p>> \in notes' \cup stash'
      <4>1. CASE <<c, p>> = <<b, o>>
        BY <1>2, <2>1, <4>1 DEF Core, Types
      <4>2. CASE <<c, p>> # <<b, o>>
        BY <1>2, <4>2
      <4> QED
        BY <4>1, <4>2
    <3> QED
      BY <3>1, <3>2, <3>3
  <2> QED
    BY <1>5, <2>1, BitStep, NoneAssumption
<1>9. UniqueBits'
  BY <1>3, UniqueShrink
<1>10. NoteOK'
  <2>1. notes' \cap stash' = {}
    BY <1>2 DEF Core, NoteOK
  <2>2. ASSUME NEW c \in Entries, NEW p \in Offsets, <<c, p>> \in notes' \cup stash'
        PROVE  p \in bitmap'[c] /\ ptr'[c + p] = Null
    <3>1. <<c, p>> \in notes \cup stash
      BY <1>2, <2>2
    <3>2. p \in bitmap[c] /\ ptr[c + p] = Null
      BY <3>1 DEF Core, NoteOK
    <3>3. p \in bitmap'[c]
      BY <1>2, <1>3, <2>2, <3>2 DEF Core, Types
    <3> QED
      BY <3>2, <3>3
  <2> QED
    BY <2>1, <2>2 DEF NoteOK
<1>11. KeyOK'
  <2>1. \A e \in Entries : IsObj(e)' => IsObj(e) /\ ptr'[e].key = ptr[e].key
    BY DEF IsObj
  <2> QED
    BY <1>5, <2>1, KeyStep, NoneAssumption
<1>12. LeakOK'
  BY <1>5, LeakStep, NoneAssumption
<1> QED
  BY <1>4, <1>5, <1>6, <1>7, <1>8, <1>9, <1>10, <1>11, <1>12, CoreStep, NoneAssumption

\* Nullifying the entry of a meta that has waited changes nothing.
LEMMA StillNull ==
  ASSUME Core, NEW meta \in stash
  PROVE  /\ [ptr EXCEPT ![meta[1] + meta[2]] = Null] = ptr
         /\ meta = <<meta[1], meta[2]>> /\ meta[1] \in Entries /\ meta[2] \in Offsets
         /\ notes \ {meta} = notes
<1>1. meta \in Entries \X Offsets
  BY DEF Core, Types, Metas
<1>2. meta = <<meta[1], meta[2]>> /\ meta[1] \in Entries /\ meta[2] \in Offsets
  BY <1>1
<1>3. ptr[meta[1] + meta[2]] = Null
  BY <1>2 DEF Core, NoteOK
<1>4. meta \notin notes
  BY DEF Core, NoteOK
<1> QED
  BY <1>2, <1>3, <1>4 DEF Core, Types

LEMMA NoteCore ==
  ASSUME Core, NEW meta \in notes, Note(meta)
  PROVE  Core'
<1>1. meta = <<meta[1], meta[2]>> /\ meta[1] \in Entries /\ meta[2] \in Offsets
  BY DEF Core, Types, Metas
<1> QED
  BY <1>1, NotifyCore DEF Note

LEMMA RestashCore ==
  ASSUME Core, NEW meta \in stash, Restash(meta)
  PROVE  Core'
BY StillNull, NotifyCore DEF Restash

LEMMA StashCore ==
  ASSUME Core, NEW t \in Threads, Stash(t)
  PROVE  Core'
<1>1. CASE \E meta \in stash : /\ ptr' = [ptr EXCEPT ![meta[1] + meta[2]] = Null]
                               /\ Notify(meta) /\ races \subseteq races'
                               /\ UNCHANGED <<spin, pc, notes, remote, op, pinned, late>>
  BY <1>1, StillNull, NotifyCore
<1>2. CASE ~\E meta \in stash : /\ ptr' = [ptr EXCEPT ![meta[1] + meta[2]] = Null]
                               /\ Notify(meta) /\ races \subseteq races'
                               /\ UNCHANGED <<spin, pc, notes, remote, op, pinned, late>>
  BY <1>2, StashEnds DEF Stash, Race
<1> QED
  BY <1>1, <1>2

\* The entry in which a locked scan has found the key.
FoundAt(t, e) ==
  /\ Stops(Home_(t), Key(t), FALSE) # {}
  /\ e = Home_(t) + Min(Stops(Home_(t), Key(t), FALSE)) /\ ~IsNull(e)

LEMMA Found ==
  ASSUME Core, NEW t \in Threads, pc[t] = "scan", NEW e, FoundAt(t, e)
  PROVE  /\ e \in Entries /\ IsObj(e) /\ ptr[e].key = Key(t) /\ ptr[e].anchor = Home_(t)
         /\ ptr[e].offset = e - Home_(t) /\ e - Home_(t) \in bitmap[Home_(t)]
         /\ spin[Home_(t)] = t /\ Home_(t) \in Entries /\ Home_(t) \in Nat
         /\ \A u \in Threads : ~Source(u, e) /\ ~Fresh(u, e)
         /\ \A f \in Entries : IsObj(f) /\ ptr[f].key = Key(t) => f = e
<1>1. Home_(t) \in Entries /\ Home_(t) \in Nat /\ spin[Home_(t)] = t
      /\ Home_(t) = Home[Key(t)]
  BY OpFacts DEF Core, LockOK, OpOK, HomeLocked, Home_
<1>2. e \in Entries /\ IsObj(e) /\ ptr[e].key = Key(t) /\ ptr[e].anchor = Home_(t)
  <2> DEFINE o == Min(Stops(Home_(t), Key(t), FALSE))
  <2>1. /\ Home_(t) + o \in Entries
        /\ ~IsNull(Home_(t) + o) => /\ IsObj(Home_(t) + o) /\ ptr[Home_(t) + o].key = Key(t)
                                    /\ ptr[Home_(t) + o].anchor = Home_(t)
    BY <1>1, StopFacts DEF FoundAt
  <2>2. e = Home_(t) + o /\ ~IsNull(e)
    BY DEF FoundAt
  <2> HIDE DEF o
  <2> QED
    BY <2>1, <2>2
<1>3. ASSUME NEW u \in Threads, NEW f \in Entries, IsObj(f), ptr[f].key = Key(t),
             Source(u, f) \/ Fresh(u, f)
      PROVE  FALSE
  <2>1. spin[ptr[f].anchor] = u /\ ptr[f].anchor = Home_(t)
    BY <1>1, <1>3, SourceFacts, ObjFacts
  <2>2. u = t
    BY <1>1, <2>1
  <2> QED
    BY <1>3, <2>2 DEF Source, Fresh, Relinked
<1>4. Settled(e)
  BY <1>2, <1>3 DEF Core, ObjOK
<1>5. ptr[e].offset = e - Home_(t) /\ ptr[e].offset \in bitmap[Home_(t)]
  <2>1. ptr[e].offset \in Nat /\ e \in Nat
    BY <1>2, ObjFacts, Sizes
  <2>2. Home_(t) + ptr[e].offset = e /\ ptr[e].offset \in bitmap[Home_(t)]
    BY <1>2, <1>4 DEF Settled
  <2> QED
    BY <1>1, <2>1, <2>2
<1>6. ASSUME NEW f \in Entries, IsObj(f), ptr[f].key = Key(t), f # e
      PROVE  FALSE
  <2>1. PICK u \in Threads : pc[u] = "reset" /\ {f, e} = {From(u), op[u].idx}
    BY <1>2, <1>6 DEF Core, KeyOK
  <2>2. Source(u, f) \/ Source(u, e)
    BY <2>1 DEF Source, Relinked
  <2> QED
    BY <1>2, <1>3, <1>6, <2>2
<1> QED
  BY <1>1, <1>2, <1>3, <1>5, <1>6

\* _put that has found the key is done, or copies the value.
Copies(t) ==
  \/ spin' = [spin EXCEPT ![Home_(t)] = None] /\ Done(t)
  \/ /\ Goto(t, "write") /\ Pin(t, Passed(Home_(t), Key(t), FALSE))
     /\ UNCHANGED <<spin, op>>

LEMMA CopiesFacts ==
  ASSUME Core, NEW t \in Threads, pc[t] = "scan", Copies(t)
  PROVE  /\ pc' \in [Threads -> Reading \cup Writing \cup {"idle", "bug"}]
         /\ op' \in [Threads -> OpTypes] /\ pinned' \in [Threads -> SUBSET Keys]
         /\ spin' \in [Entries -> Threads \cup {None}]
         /\ \A u \in Threads \ {t} :
              pc'[u] = pc[u] /\ op'[u] = op[u] /\ pinned'[u] = pinned[u]
         /\ \A b \in Entries : spin'[b] = spin[b] \/ spin[b] = t
         /\ pc'[t] \in {"idle", "write"} /\ OpOK(t)' /\ LockOK(t)' /\ MoveOK(t)'
<1>1. Home_(t) \in Entries /\ spin[Home_(t)] = t /\ OpOK(t)
  BY OpFacts DEF Core, LockOK, HomeLocked, Home_
<1>2. CASE spin' = [spin EXCEPT ![Home_(t)] = None] /\ Done(t)
  <2>1. /\ spin' \in [Entries -> Threads \cup {None}]
        /\ \A b \in Entries : spin'[b] = spin[b] \/ spin[b] = t
    BY <1>1, <1>2 DEF Core, Types
  <2> QED
    BY <1>2, <2>1, DoneFacts, IdleLocks
<1>3. CASE /\ Goto(t, "write") /\ Pin(t, Passed(Home_(t), Key(t), FALSE))
           /\ UNCHANGED <<spin, op>>
  <2>1. /\ pc' = [pc EXCEPT ![t] = "write"] /\ op' = op /\ spin' = spin
        /\ pinned' = [pinned EXCEPT ![t] = @ \cup Passed(Home_(t), Key(t), FALSE)]
    BY <1>3 DEF Goto, Pin
  <2>2. /\ pc' \in [Threads -> Reading \cup Writing \cup {"idle", "bug"}]
        /\ op' \in [Threads -> OpTypes] /\ pinned' \in [Threads -> SUBSET Keys]
        /\ spin' \in [Entries -> Threads \cup {None}]
    BY <1>1, <2>1, PassedKeys DEF Core, Types, Writing
  <2>3. /\ pc'[t] = "write"
        /\ \A u \in Threads \ {t} : pc'[u] = pc[u] /\ op'[u] = op[u] /\ pinned'[u] = pinned[u]
    BY <2>1 DEF Core, Types
  <2>4. OpOK(t)'
    BY <1>1, <2>1, <2>3 DEF OpOK, Key, Home_, Reading, Writing, Making, HomeLocked
  <2>5. LockOK(t)' /\ MoveOK(t)'
    BY <1>1, <2>1, <2>3 DEF LockOK, MoveOK, Moving, Relinked, Home_
  <2> QED
    BY <2>1, <2>2, <2>3, <2>4, <2>5
<1> QED
  BY <1>2, <1>3 DEF Copies

LEMMA WriteValCore ==
  ASSUME Core, NEW t \in Threads, WriteVal(t)
  PROVE  Core'
<1>1. /\ pc[t] = "write" /\ Done(t) /\ spin' = [spin EXCEPT ![Home_(t)] = None]
      /\ UNCHANGED <<bitmap, ptr, stash, notes, remote, late, races>>
  BY DEF WriteVal
<1>2. Home_(t) \in Entries /\ spin[Home_(t)] = t
  BY <1>1, OpFacts DEF Core, LockOK, HomeLocked, Home_
<1>3. /\ \A b \in Entries : spin'[b] = spin[b] \/ spin[b] = t
      /\ spin' \in [Entries -> Threads \cup {None}]
  BY <1>1, <1>2 DEF Core, Types
<1>4. Types'
  BY <1>1, <1>3, DoneFacts DEF Core, Types
<1> QED
  BY <1>1, <1>3, <1>4, DoneFacts, ReleaseCore DEF Moving, Owning

\* _put finds the key and writes the value.
LEMMA ScanWrites ==
  ASSUME Core, NEW t \in Threads, pc[t] = "scan", NEW e, FoundAt(t, e),
         op[t].kind # "remove",
         ptr' = [ptr EXCEPT ![e].val = op[t].val, ![e].dirty = @ \/ ~Swap(t)],
         races \subseteq races', Copies(t),
         UNCHANGED <<bitmap, stash, notes, remote, late>>
  PROVE  Core'
<1>1. /\ e \in Entries /\ IsObj(e) /\ ptr[e].key = Key(t) /\ ptr[e].anchor = Home_(t)
      /\ spin[Home_(t)] = t /\ Home_(t) \in Entries
      /\ \A u \in Threads : ~Source(u, e) /\ ~Fresh(u, e)
  BY Found
<1>2. op[t].val \in Vals
  BY OpFacts DEF Core, OpOK, Writing
<1>3. /\ ptr'[e] = [ptr[e] EXCEPT !.val = op[t].val, !.dirty = ptr[e].dirty \/ ~Swap(t)]
      /\ \A f \in Entries : f # e => ptr'[f] = ptr[f]
      /\ DOMAIN ptr' = Entries
  BY <1>1 DEF Core, Types
<1>4. (ptr[e].dirty \/ ~Swap(t)) \in BOOLEAN
  OBVIOUS
<1>5. /\ ptr'[e] \in Objects /\ ptr'[e].key = ptr[e].key /\ ptr'[e].anchor = ptr[e].anchor
      /\ ptr'[e].offset = ptr[e].offset
  BY <1>1, <1>2, <1>3, <1>4 DEF IsObj, Objects
<1>6. ptr' \in [Entries -> Objects \cup {Null, kBusyPtr}]
  <2>1. ptr' = [f \in Entries |-> ptr'[f]]
    BY DEF Core, Types
  <2>2. \A f \in Entries : ptr'[f] \in Objects \cup {Null, kBusyPtr}
    BY <1>3, <1>5 DEF Core, Types
  <2> QED
    BY <2>1, <2>2
<1>7. Types'
  BY <1>6, CopiesFacts DEF Core, Types
<1>8. \A f \in Entries : /\ IsObj(f)' <=> IsObj(f)
                         /\ IsObj(f) => /\ ptr'[f].key = ptr[f].key
                                        /\ ptr'[f].anchor = ptr[f].anchor
                                        /\ ptr'[f].offset = ptr[f].offset
                         /\ ~IsObj(f) => ptr'[f] = ptr[f]
  BY <1>1, <1>3, <1>5 DEF IsObj
<1>9. Bystanders(t)
  <2>1. \A b \in Entries : spin[b] \in Threads \ {t} => spin'[b] = spin[b]
    BY CopiesFacts
  <2>2. \A f \in Entries : ptr'[f] = ptr[f] \/ (IsObj(f) /\ spin[ptr[f].anchor] = t)
    BY <1>1, <1>3
  <2>3. \A u \in Threads \ {t} :
          pc'[u] = pc[u] /\ op'[u] = op[u] /\ pinned'[u] = pinned[u]
    BY CopiesFacts
  <2> QED
    BY <2>1, <2>2, <2>3 DEF Bystanders
<1>10. /\ OpOK(t)' /\ LockOK(t)' /\ MoveOK(t)'
       /\ pc'[t] \notin Owning /\ pc'[t] \notin Making
  BY CopiesFacts DEF Owning, HomeLocked, Making
<1>11. OwnOK'
  BY <1>9, <1>10, OwnStep
<1>12. ObjOK'
  <2>1. ASSUME NEW f \in Entries, IsObj(f)'
        PROVE  \/ ptr'[f].anchor = Home[ptr'[f].key] /\ Settled(f)'
               \/ /\ ptr'[f] = ptr[f]
                  /\ Settled(f) => ptr[f].offset \in bitmap'[ptr[f].anchor]
                  /\ ~Source(t, f) /\ ~Fresh(t, f)
    <3>1. CASE f = e
      <4>1. Settled(e)
        BY <1>1 DEF Core, ObjOK
      <4> QED
        BY <1>1, <1>5, <3>1, <4>1, ObjFacts DEF Settled
    <3>2. CASE f # e
      BY <1>3, <3>2 DEF Source, Fresh, Relinked, Settled
    <3> QED
      BY <3>1, <3>2
  <2> QED
    BY <1>9, <2>1, ObjStep
<1>13. BitOK'
  <2>1. ASSUME NEW c \in Entries, NEW p \in bitmap'[c]
        PROVE  LET now == \/ IsObj(c + p)' /\ ptr'[c + p].anchor = c
                          \/ <<c, p>> \in notes' \cup stash'
               IN /\ p \in bitmap[c]
                  /\ IsObj(c + p) \/ <<c, p>> \in notes \cup stash => now
                  /\ ~Target(t, c, p) /\ ~Emptied(t, c, p)
    <3>1. p \in bitmap[c] /\ c + p \in Entries
      BY <2>1, BitFacts
    <3>2. IsObj(c + p) => IsObj(c + p)' /\ ptr'[c + p].anchor = c
      BY <1>8, <3>1, BitFacts
    <3> QED
      BY <3>1, <3>2 DEF Target, Emptied
  <2> QED
    BY <1>9, <2>1, BitStep
<1>14. UniqueBits'
  BY UniqueShrink
<1>15. NoteOK'
  <2>1. ASSUME NEW c \in Entries, NEW p \in Offsets, <<c, p>> \in notes \cup stash
        PROVE  p \in bitmap[c] /\ ptr'[c + p] = Null
    <3>1. p \in bitmap[c] /\ ptr[c + p] = Null
      BY <2>1 DEF Core, NoteOK
    <3>2. c + p \in Entries /\ ~IsObj(c + p)
      BY <3>1, BitFacts, ObjFacts
    <3> QED
      BY <1>8, <3>1, <3>2
  <2> QED
    BY <2>1 DEF NoteOK, Core
<1>16. KeyOK'
  BY <1>8, <1>9, <1>10, KeyStep
<1>17. LeakOK'
  <2>1. ASSUME NEW f \in Entries, ptr'[f] = kBusyPtr
        PROVE  ptr[f] = kBusyPtr /\ pc[t] \notin Owning
    BY <1>3, <1>5, <2>1, NullAssumption DEF Owning
  <2> QED
    BY <1>9, <2>1, LeakStep
<1> QED
  BY <1>7, <1>9, <1>10, <1>11, <1>12, <1>13, <1>14, <1>15, <1>16, <1>17, CoreStep

\* _remove finds the key and takes it out.
LEMMA ScanRemoves ==
  ASSUME Core, NEW t \in Threads, pc[t] = "scan", NEW e, FoundAt(t, e),
         op[t].kind = "remove",
         bitmap' = [bitmap EXCEPT ![Home_(t)] = @ \ {e - Home_(t)}],
         ptr' = [ptr EXCEPT ![e] = Null],
         pinned' = [u \in Threads |-> pinned[u] \ {Key(t)}],
         spin' = [spin EXCEPT ![Home_(t)] = None], Goto(t, "remote"),
         UNCHANGED <<op, races, stash, notes, remote, late>>
  PROVE  Core'
<1>1. /\ e \in Entries /\ IsObj(e) /\ ptr[e].key = Key(t) /\ ptr[e].anchor = Home_(t)
      /\ ptr[e].offset = e - Home_(t) /\ e - Home_(t) \in bitmap[Home_(t)]
      /\ spin[Home_(t)] = t /\ Home_(t) \in Entries /\ Home_(t) \in Nat
  BY Found
<1>2. /\ ptr'[e] = Null /\ \A f \in Entries : f # e => ptr'[f] = ptr[f]
      /\ ptr' \in [Entries -> Objects \cup {Null, kBusyPtr}]
  BY <1>1 DEF Core, Types
<1>3. /\ bitmap'[Home_(t)] = bitmap[Home_(t)] \ {e - Home_(t)}
      /\ \A c \in Entries : c # Home_(t) => bitmap'[c] = bitmap[c]
      /\ \A c \in Entries : bitmap'[c] \subseteq bitmap[c]
      /\ bitmap' \in [Entries -> SUBSET Offsets]
  BY <1>1 DEF Core, Types
<1>4. /\ pc' = [pc EXCEPT ![t] = "remote"] /\ pc'[t] = "remote"
      /\ \A u \in Threads \ {t} : pc'[u] = pc[u]
  BY DEF Goto, Core, Types
<1>5. Types'
  BY <1>1, <1>2, <1>3, <1>4 DEF Core, Types, Writing
<1>6. Bystanders(t)
  <2>1. \A c \in Entries : spin[c] \in Threads \ {t} =>
          spin'[c] = spin[c] /\ bitmap'[c] = bitmap[c]
    BY <1>1, <1>3 DEF Core, Types
  <2>2. \A f \in Entries : ptr'[f] = ptr[f] \/ (IsObj(f) /\ spin[ptr[f].anchor] = t)
    BY <1>1, <1>2
  <2>3. \A u \in Threads : \A k \in pinned[u] : k \in pinned'[u] \/ spin[Home[k]] = t
    BY <1>1, ObjFacts
  <2> QED
    BY <1>3, <1>4, <2>1, <2>2, <2>3 DEF Bystanders
<1>7. OpOK(t)'
  BY <1>4 DEF Core, OpOK, Key, Home_, Reading, Writing, Making, HomeLocked
<1>8. /\ LockOK(t)' /\ MoveOK(t)' /\ pc'[t] \notin Owning /\ pc'[t] \notin Making
  BY <1>4, IdleLocks DEF Owning, HomeLocked, Making
<1>9. OwnOK'
  BY <1>6, <1>8, OwnStep
<1>10. \A f \in Entries : IsObj(f)' => f # e /\ ptr'[f] = ptr[f] /\ IsObj(f)
  BY <1>2, NullAssumption DEF IsObj
<1>11. ObjOK'
  <2>1. ASSUME NEW f \in Entries, IsObj(f)'
        PROVE  /\ ptr'[f] = ptr[f]
               /\ Settled(f) => ptr[f].offset \in bitmap'[ptr[f].anchor]
               /\ ~Source(t, f) /\ ~Fresh(t, f)
    <3>1. f # e /\ ptr'[f] = ptr[f] /\ IsObj(f)
      BY <1>10, <2>1
    <3>2. ptr[f].anchor \in Entries /\ ptr[f].offset \in Nat /\ f \in Nat /\ e \in Nat
      BY <1>1, <3>1, ObjFacts, Sizes
    <3>3. Settled(f) => ptr[f].offset \in bitmap'[ptr[f].anchor]
      <4> SUFFICES ASSUME Settled(f), ptr[f].offset \notin bitmap'[ptr[f].anchor] PROVE FALSE
        OBVIOUS
      <4>1. ptr[f].anchor = Home_(t) /\ ptr[f].offset = e - Home_(t)
        BY <1>3, <3>2 DEF Settled
      <4> QED
        BY <1>1, <3>1, <3>2, <4>1 DEF Settled
    <3> QED
      BY <3>1, <3>3 DEF Source, Fresh, Relinked
  <2> QED
    BY <1>6, <2>1, ObjStep
<1>12. ASSUME NEW c \in Entries, NEW p \in bitmap'[c]
       PROVE  p \in bitmap[c] /\ c + p \in Entries /\ c + p # e
  <2>1. p \in bitmap[c] /\ c + p \in Entries /\ p \in Nat /\ c \in Nat /\ e \in Nat
    BY <1>1, <1>3, <1>12, BitFacts, Sizes
  <2> SUFFICES ASSUME c + p = e PROVE FALSE
    BY <2>1
  <2>2. c = Home_(t)
    BY <1>1, <2>1, BitFacts
  <2>3. p = e - Home_(t)
    BY <1>1, <2>1, <2>2
  <2> QED
    BY <1>3, <1>12, <2>2, <2>3
<1>13. BitOK'
  <2>1. ASSUME NEW c \in Entries, NEW p \in bitmap'[c]
        PROVE  LET now == \/ IsObj(c + p)' /\ ptr'[c + p].anchor = c
                          \/ <<c, p>> \in notes' \cup stash'
               IN /\ p \in bitmap[c]
                  /\ IsObj(c + p) \/ <<c, p>> \in notes \cup stash => now
                  /\ ~Target(t, c, p) /\ ~Emptied(t, c, p)
    <3>1. p \in bitmap[c] /\ c + p \in Entries /\ ptr'[c + p] = ptr[c + p]
      BY <1>2, <1>12
    <3>2. IsObj(c + p) => IsObj(c + p)' /\ ptr'[c + p].anchor = c
      BY <3>1, BitFacts DEF IsObj
    <3> QED
      BY <3>1, <3>2 DEF Target, Emptied
  <2> QED
    BY <1>6, <2>1, BitStep
<1>14. UniqueBits'
  BY <1>3, UniqueShrink
<1>15. NoteOK'
  <2>1. ASSUME NEW c \in Entries, NEW p \in Offsets, <<c, p>> \in notes \cup stash
        PROVE  p \in bitmap'[c] /\ ptr'[c + p] = Null
    <3>1. p \in bitmap[c] /\ ptr[c + p] = Null
      BY <2>1 DEF Core, NoteOK
    <3>2. c + p \in Entries /\ ~IsObj(c + p)
      BY <3>1, BitFacts, ObjFacts
    <3>3. ~(c = Home_(t) /\ p = e - Home_(t))
      <4> SUFFICES ASSUME c = Home_(t), p = e - Home_(t) PROVE FALSE
        OBVIOUS
      <4>1. c + p = e
        BY <1>1, Sizes
      <4> QED
        BY <1>1, <3>2, <4>1
    <3> QED
      BY <1>1, <1>2, <1>3, <3>1, <3>2, <3>3
  <2> QED
    BY <2>1 DEF NoteOK, Core
<1>16. KeyOK'
  BY <1>6, <1>8, <1>10, KeyStep
<1>17. LeakOK'
  <2>1. ASSUME NEW f \in Entries, ptr'[f] = kBusyPtr
        PROVE  ptr[f] = kBusyPtr /\ pc[t] \notin Owning
    BY <1>2, <2>1, NullAssumption DEF Owning
  <2> QED
    BY <1>6, <2>1, LeakStep
<1> QED
  BY <1>5, <1>6, <1>7, <1>8, <1>9, <1>11, <1>13, <1>14, <1>15, <1>16, <1>17, CoreStep

LEMMA ScanCore ==
  ASSUME Core, NEW t \in Threads, Scan(t)
  PROVE  Core'
<1> DEFINE b == Home_(t)
           stop == Stops(b, Key(t), FALSE)
           e == b + Min(stop)
<1>1. pc[t] = "scan" /\ UNCHANGED <<stash, notes, remote, late>>
  BY DEF Scan
<1>2. CASE /\ stop # {} /\ IsNull(e)
           /\ Goto(t, "stash") /\ Pin(t, Passed(b, Key(t), FALSE))
           /\ spin' = [spin EXCEPT ![b] = None]
           /\ UNCHANGED <<bitmap, ptr, op, races>>
  BY <1>1, <1>2, ScanGivesUp
<1>3. CASE /\ FoundAt(t, e) /\ op[t].kind # "remove"
           /\ ptr' = [ptr EXCEPT ![e].val = op[t].val, ![e].dirty = @ \/ ~Swap(t)]
           /\ races \subseteq races' /\ Copies(t) /\ UNCHANGED bitmap
  <2> HIDE DEF e
  <2> QED
    BY <1>1, <1>3, ScanWrites
<1>4. CASE /\ FoundAt(t, e) /\ op[t].kind = "remove"
           /\ bitmap' = [bitmap EXCEPT ![b] = @ \ {e - b}]
           /\ ptr' = [ptr EXCEPT ![e] = Null]
           /\ pinned' = [u \in Threads |-> pinned[u] \ {Key(t)}]
           /\ spin' = [spin EXCEPT ![b] = None]
           /\ Goto(t, "remote")
           /\ UNCHANGED <<op, races>>
  <2> HIDE DEF e
  <2> QED
    BY <1>1, <1>4, ScanRemoves
<1>5. CASE /\ stop = {} /\ op[t].kind = "remove"
           /\ spin' = [spin EXCEPT ![b] = None]
           /\ Goto(t, "remote") /\ Pin(t, Passed(b, Key(t), FALSE))
           /\ UNCHANGED <<bitmap, ptr, op, races>>
  BY <1>1, <1>5, ScanGivesUp
<1>6. CASE /\ stop = {} /\ op[t].kind # "remove"
           /\ Goto(t, "probe") /\ Pin(t, Passed(b, Key(t), FALSE))
           /\ UNCHANGED <<bitmap, spin, ptr, op, races>>
  BY <1>1, <1>6, ScanGoesOn
<1> QED
  BY <1>2, <1>3, <1>4, <1>5, <1>6 DEF Scan, FoundAt, Race, Copies

\* The entry a thread has reserved is not empty.
LEMMA MineFacts ==
  ASSUME Core, NEW t \in Threads, pc[t] \in Owning
  PROVE  /\ Mine(t) \in Entries /\ ptr[Mine(t)] # Null
         /\ pc[t] # "publish" => ptr[Mine(t)] = kBusyPtr
         /\ pc[t] = "publish" => IsObj(Mine(t))
<1>1. CASE pc[t] = "clear"
  BY <1>1, MoveFacts, NullAssumption DEF Mine, Moving, Core, MoveOK
<1>2. CASE pc[t] = "publish"
  <2>1. op[t].idx \in Entries /\ Mine(t) = op[t].idx
    BY <1>2 DEF Core, OpOK, Mine
  <2>2. IsObj(op[t].idx)
    BY <1>2, <2>1, SourceFacts DEF Fresh
  <2> QED
    BY <1>2, <2>1, <2>2, ObjFacts
<1>3. CASE pc[t] \in Owning \ {"clear", "publish"}
  BY <1>3, NullAssumption DEF Mine, Owning, Core, MoveOK, OpOK
<1> QED
  BY <1>1, <1>2, <1>3

LEMMA ProbeTakes ==
  ASSUME Core, NEW t \in Threads, pc[t] = "probe", op[t].idx < kNumEntries,
         ptr[op[t].idx] = Null, ptr' = [ptr EXCEPT ![op[t].idx] = kBusyPtr],
         \A b \in Entries : op[t].idx \notin Slots(b), races \subseteq races',
         op' = [op EXCEPT ![t].dist = kNeighborhood - 1], Goto(t, "room"),
         UNCHANGED <<bitmap, spin, stash, notes, remote, pinned, late>>
  PROVE  Core'
<1> DEFINE i == op[t].idx
<1>1. i \in Entries /\ i \in Nat
  BY OpFacts, Sizes
<1>2. /\ ptr'[i] = kBusyPtr /\ \A f \in Entries : f # i => ptr'[f] = ptr[f]
      /\ ptr' \in [Entries -> Objects \cup {Null, kBusyPtr}]
  BY <1>1 DEF Core, Types
<1>3. op'[t] = [op[t] EXCEPT !.dist = kNeighborhood - 1]
  BY DEF Core, Types
<1>4. op'[t] \in OpTypes
  <2>1. kNeighborhood - 1 \in Offsets
    BY SizeAssumption DEF Offsets
  <2> QED
    BY <1>3, <2>1, OpFacts DEF OpTypes
<1>5. /\ op' \in [Threads -> OpTypes] /\ \A u \in Threads \ {t} : op'[u] = op[u]
      /\ pc' = [pc EXCEPT ![t] = "room"] /\ pc'[t] = "room"
      /\ \A u \in Threads \ {t} : pc'[u] = pc[u]
  BY <1>4 DEF Goto, Core, Types
<1>6. Types'
  BY <1>2, <1>5 DEF Core, Types, Writing
<1>7. /\ op'[t].key = op[t].key /\ op'[t].home = op[t].home /\ op'[t].kind = op[t].kind
      /\ op'[t].val = op[t].val /\ op'[t].idx = i
  BY <1>3, OpFacts DEF OpTypes
<1>8. \A b \in Entries : \A o \in bitmap[b] : i # b + o
  BY DEF Slots
<1> HIDE DEF i
<1>9. OpOK(t)' /\ LockOK(t)' /\ MoveOK(t)'
  <2>1. OpOK(t) /\ LockOK(t) /\ Home_(t) <= i
    BY DEF Core, OpOK, Making, HomeLocked, i
  <2>2. OpOK(t)'
    BY <1>1, <1>5, <1>7, <2>1 DEF OpOK, Key, Home_, Reading, Writing, Making, HomeLocked
  <2>3. LockOK(t)' /\ MoveOK(t)'
    BY <1>2, <1>5, <1>7, <1>8, <2>1 DEF LockOK, MoveOK, HomeLocked, Moving, Relinked, Home_
  <2> QED
    BY <2>2, <2>3
<1>10. Bystanders(t)
  BY <1>2, <1>5 DEF Bystanders, i
<1>11. Mine(t)' = i
  BY <1>5, <1>7 DEF Mine
<1>12. OwnOK'
  <2>1. ASSUME NEW u \in Threads \ {t}, pc[u] \in Owning PROVE Mine(t)' # Mine(u)
    BY <1>11, <2>1, MineFacts DEF i
  <2> QED
    BY <1>10, <2>1, OwnStep
<1>13. ~IsObj(i) /\ \A f \in Entries : IsObj(f)' => f # i /\ ptr'[f] = ptr[f] /\ IsObj(f)
  BY <1>1, <1>2, NullAssumption DEF IsObj, i
<1>14. ObjOK'
  <2>1. ASSUME NEW f \in Entries, IsObj(f)'
        PROVE  /\ ptr'[f] = ptr[f]
               /\ Settled(f) => ptr[f].offset \in bitmap'[ptr[f].anchor]
               /\ ~Source(t, f) /\ ~Fresh(t, f)
    BY <1>13, <2>1 DEF Settled, Source, Fresh, Relinked
  <2> QED
    BY <1>10, <2>1, ObjStep
<1>15. BitOK'
  <2>1. ASSUME NEW c \in Entries, NEW p \in bitmap'[c]
        PROVE  LET now == \/ IsObj(c + p)' /\ ptr'[c + p].anchor = c
                          \/ <<c, p>> \in notes' \cup stash'
               IN /\ p \in bitmap[c]
                  /\ IsObj(c + p) \/ <<c, p>> \in notes \cup stash => now
                  /\ ~Target(t, c, p) /\ ~Emptied(t, c, p)
    <3>1. p \in bitmap[c] /\ c + p \in Entries /\ ptr'[c + p] = ptr[c + p]
      BY <1>2, <1>8, <2>1, BitFacts
    <3>2. IsObj(c + p) => IsObj(c + p)' /\ ptr'[c + p].anchor = c
      BY <3>1, BitFacts DEF IsObj
    <3> QED
      BY <3>1, <3>2 DEF Target, Emptied
  <2> QED
    BY <1>10, <2>1, BitStep
<1>16. UniqueBits'
  BY UniqueShrink
<1>17. NoteOK'
  <2>1. ASSUME NEW c \in Entries, NEW p \in Offsets, <<c, p>> \in notes \cup stash
        PROVE  p \in bitmap[c] /\ ptr'[c + p] = Null
    <3>1. p \in bitmap[c] /\ ptr[c + p] = Null
      BY <2>1 DEF Core, NoteOK
    <3>2. c + p \in Entries /\ c + p # i
      BY <1>8, <3>1, BitFacts
    <3> QED
      BY <1>2, <3>1, <3>2
  <2> QED
    BY <2>1 DEF NoteOK, Core
<1>18. KeyOK'
  <2>1. \A f \in Entries : IsObj(f)' => ptr'[f].key # Key(t)'
    BY <1>7, <1>13 DEF Core, KeyOK, Making, HomeLocked, Key
  <2> QED
    BY <1>10, <1>13, <2>1, KeyStep
<1>19. LeakOK'
  <2>1. ASSUME NEW f \in Entries, ptr'[f] = kBusyPtr
        PROVE  \/ pc'[t] \in Owning \ {"publish"} /\ Mine(t)' = f
               \/ ptr[f] = kBusyPtr /\ pc[t] \notin Owning
    BY <1>2, <1>5, <1>11, <2>1 DEF Owning
  <2> QED
    BY <1>10, <2>1, LeakStep
<1> QED
  BY <1>6, <1>9, <1>10, <1>12, <1>14, <1>15, <1>16, <1>17, <1>18, <1>19, CoreStep

LEMMA ProbeCore ==
  ASSUME Core, NEW t \in Threads, Probe(t), Sound'
  PROVE  Core'
<1>1. CASE op[t].idx < kNumEntries /\ ptr[op[t].idx] = Null
  <2>1. \A b \in Entries : op[t].idx \notin Slots(b)
    BY <1>1 DEF Probe, Race, Sound
  <2>2. races \subseteq races'
    BY <1>1 DEF Probe, Race
  <2> QED
    BY <1>1, <2>1, <2>2, ProbeTakes DEF Probe
<1>2. CASE op[t].idx < kNumEntries /\ ptr[op[t].idx] # Null
  BY <1>2, ProbeSkips DEF Probe
<1> QED
  BY <1>1, <1>2 DEF Probe

LEMMA MinUnique ==
  ASSUME NEW S \in SUBSET Offsets, NEW m \in S, \A x \in S : m <= x
  PROVE  Min(S) = m
<1>1. Min(S) \in S /\ Min(S) \in Nat /\ Min(S) <= m
  BY MinOfOffsets
<1>2. m \in Nat /\ m <= Min(S)
  BY <1>1, Sizes
<1> QED
  BY <1>1, <1>2

\* The key to move is gone: the entry is given back.
LEMMA DislodgeGivesUp ==
  ASSUME Core, NEW t \in Threads, pc[t] = "from",
         spin' = [spin EXCEPT ![Home_(t)] = None],
         ptr' = [ptr EXCEPT ![op[t].idx] = Null], Restart(t),
         UNCHANGED <<bitmap, stash, notes, remote, late, races>>
  PROVE  Core'
<1> DEFINE i == op[t].idx
<1>1. /\ i \in Entries /\ ptr[i] = kBusyPtr /\ Mine(t) = i /\ pc[t] \in Owning
      /\ Home_(t) \in Entries /\ spin[Home_(t)] = t /\ OpOK(t)
      /\ \A b \in Entries : \A o \in bitmap[b] : i # b + o
  BY OpFacts DEF Core, OpOK, LockOK, MoveOK, Mine, Owning, HomeLocked, Home_
<1>2. /\ ptr'[i] = Null /\ \A f \in Entries : f # i => ptr'[f] = ptr[f]
      /\ ptr' \in [Entries -> Objects \cup {Null, kBusyPtr}]
  BY <1>1 DEF Core, Types
<1>3. /\ pc' = [pc EXCEPT ![t] = "stash"] /\ pc'[t] = "stash" /\ op' = op /\ pinned' = pinned
      /\ \A u \in Threads \ {t} : pc'[u] = pc[u]
  BY DEF Restart, Goto, Core, Types
<1>4. Types'
  BY <1>1, <1>2, <1>3 DEF Core, Types, Writing
<1>5. OpOK(t)'
  BY <1>1, <1>3 DEF OpOK, Key, Home_, Reading, Writing, Making, HomeLocked
<1>6. LockOK(t)' /\ MoveOK(t)' /\ pc'[t] \notin Owning /\ pc'[t] \notin Making
  BY <1>3, IdleLocks DEF HomeLocked, Owning, Making
<1> HIDE DEF i
<1>7. Bystanders(t)
  <2>1. \A c \in Entries : spin[c] \in Threads \ {t} => spin'[c] = spin[c]
    BY <1>1 DEF Core, Types
  <2> QED
    BY <1>1, <1>2, <1>3, <2>1 DEF Bystanders
<1>8. OwnOK'
  BY <1>6, <1>7, OwnStep
<1>9. \A f \in Entries : IsObj(f)' => f # i /\ ptr'[f] = ptr[f] /\ IsObj(f)
  BY <1>2, NullAssumption DEF IsObj
<1>10. ObjOK'
  <2>1. ASSUME NEW f \in Entries, IsObj(f)'
        PROVE  /\ ptr'[f] = ptr[f]
               /\ Settled(f) => ptr[f].offset \in bitmap'[ptr[f].anchor]
               /\ ~Source(t, f) /\ ~Fresh(t, f)
    BY <1>9, <2>1 DEF Settled, Source, Fresh, Relinked
  <2> QED
    BY <1>7, <2>1, ObjStep
<1>11. BitOK'
  <2>1. ASSUME NEW c \in Entries, NEW p \in bitmap'[c]
        PROVE  LET now == \/ IsObj(c + p)' /\ ptr'[c + p].anchor = c
                          \/ <<c, p>> \in notes' \cup stash'
               IN /\ p \in bitmap[c]
                  /\ IsObj(c + p) \/ <<c, p>> \in notes \cup stash => now
                  /\ ~Target(t, c, p) /\ ~Emptied(t, c, p)
    <3>1. p \in bitmap[c] /\ c + p \in Entries /\ ptr'[c + p] = ptr[c + p]
      BY <1>1, <1>2, <2>1, BitFacts
    <3>2. IsObj(c + p) => IsObj(c + p)' /\ ptr'[c + p].anchor = c
      BY <3>1, BitFacts DEF IsObj
    <3> QED
      BY <3>1, <3>2 DEF Target, Emptied
  <2> QED
    BY <1>7, <2>1, BitStep
<1>12. UniqueBits'
  BY UniqueShrink
<1>13. NoteOK'
  <2>1. ASSUME NEW c \in Entries, NEW p \in Offsets, <<c, p>> \in notes \cup stash
        PROVE  p \in bitmap[c] /\ ptr'[c + p] = Null
    <3>1. p \in bitmap[c] /\ ptr[c + p] = Null
      BY <2>1 DEF Core, NoteOK
    <3>2. c + p \in Entries /\ c + p # i
      BY <1>1, <3>1, BitFacts
    <3> QED
      BY <1>2, <3>1, <3>2
  <2> QED
    BY <2>1 DEF NoteOK, Core
<1>14. KeyOK'
  BY <1>6, <1>7, <1>9, KeyStep
<1>15. LeakOK'
  <2>1. ASSUME NEW f \in Entries, ptr'[f] = kBusyPtr
        PROVE  ptr[f] = kBusyPtr /\ Mine(t) # f
    BY <1>1, <1>2, <2>1, NullAssumption
  <2> QED
    BY <1>7, <2>1, LeakStep
<1> QED
  BY <1>4, <1>5, <1>6, <1>7, <1>8, <1>10, <1>11, <1>12, <1>13, <1>14, <1>15, CoreStep

\* The entry a put wants to empty holds an object of the bucket it has locked.
LEMMA FromObj ==
  ASSUME Core, NEW t \in Threads, pc[t] \in Moving, ~IsNull(From(t))
  PROVE  IsObj(From(t)) /\ ptr[From(t)].anchor = Anchor(t)
<1>1. /\ Anchor(t) \in Entries /\ From(t) \in Entries
      /\ From(t) = Anchor(t) + Min(bitmap[Anchor(t)])
      /\ Min(bitmap[Anchor(t)]) \in bitmap[Anchor(t)]
  BY MoveFacts
<1>2. IsObj(From(t))
  BY <1>1, ObjFacts
<1> QED
  BY <1>1, <1>2, BitFacts

LEMMA DislodgeMoves ==
  ASSUME Core, NEW t \in Threads, pc[t] = "from", ~IsNull(From(t)),
         Pin(t, {ptr[From(t)].key}),
         ptr' = [ptr EXCEPT ![From(t)].offset = op[t].dist],
         bitmap' = [bitmap EXCEPT ![Anchor(t)] = @ \cup {op[t].dist}],
         Goto(t, "tick"),
         UNCHANGED <<spin, op, stash, notes, remote, late, races>>
  PROVE  Core'
<1>0. pc[t] \in Moving /\ pc[t] \in Owning
  BY DEF Moving, Owning
<1> DEFINE A == Anchor(t)
           f == From(t)
           d == op[t].dist
           i == op[t].idx
           m == Min(bitmap[A])
<1>1. /\ A \in Entries /\ A \in Nat /\ i \in Entries /\ i = A + d /\ f \in Entries
      /\ f = A + m /\ f # i /\ m \in bitmap[A] /\ m \in Nat /\ m < d /\ spin[A] = t
      /\ d \in Offsets /\ d \in Nat /\ bitmap[A] # {}
  BY <1>0, MoveFacts, OpFacts
<1>2. IsObj(f) /\ ptr[f].anchor = A /\ ptr[f].key \in Keys
  BY <1>0, <1>1, FromObj, ObjFacts
<1>3. \A b \in Entries : \A o \in bitmap[b] : i # b + o
  BY DEF Core, MoveOK
<1>4. /\ ptr'[f] = [ptr[f] EXCEPT !.offset = d]
      /\ \A g \in Entries : g # f => ptr'[g] = ptr[g]
      /\ DOMAIN ptr' = Entries /\ ptr' = [g \in Entries |-> ptr'[g]]
  BY <1>1 DEF Core, Types
<1>5. /\ bitmap'[A] = bitmap[A] \cup {d}
      /\ \A c \in Entries : c # A => bitmap'[c] = bitmap[c]
      /\ bitmap' \in [Entries -> SUBSET Offsets]
  BY <1>1 DEF Core, Types
<1>6. /\ pinned' = [pinned EXCEPT ![t] = @ \cup {ptr[f].key}]
      /\ pc' = [pc EXCEPT ![t] = "tick"] /\ pc'[t] = "tick"
      /\ \A u \in Threads \ {t} : pc'[u] = pc[u] /\ pinned'[u] = pinned[u]
      /\ ptr[f].key \in pinned'[t] /\ op' = op
  BY DEF Pin, Goto, Core, Types
<1>7. OpOK(t) /\ LockOK(t) /\ MoveOK(t)
  BY DEF Core
<1>8. Home_(t)' = Home_(t) /\ Anchor(t)' = A
  BY <1>6 DEF Home_, Anchor
<1>9. Min(bitmap'[A]) = m
  <2>1. bitmap'[A] \in SUBSET Offsets /\ m \in bitmap'[A]
    BY <1>1, <1>5
  <2>2. bitmap[A] \in SUBSET Offsets
    BY <1>1 DEF Core, Types
  <2>3. \A x \in bitmap[A] : m <= x
    BY <1>1, <2>2, MinOfOffsets
  <2>4. \A x \in bitmap'[A] : m <= x
    BY <1>1, <1>5, <2>3
  <2> HIDE DEF m, A, d
  <2> QED
    BY <2>1, <2>4, MinUnique
<1>10. From(t)' = f
  BY <1>1, <1>8, <1>9 DEF From
<1> HIDE DEF A, f, d, i, m
<1>11. /\ ptr'[f] \in Objects /\ ptr'[f].key = ptr[f].key /\ ptr'[f].anchor = A
       /\ ptr'[f].offset = d
  BY <1>1, <1>2, <1>4 DEF IsObj, Objects
<1>12. ptr' \in [Entries -> Objects \cup {Null, kBusyPtr}]
  <2>1. \A g \in Entries : ptr'[g] \in Objects \cup {Null, kBusyPtr}
    BY <1>4, <1>11 DEF Core, Types
  <2> QED
    BY <1>4, <2>1
<1>13. Types'
  BY <1>2, <1>5, <1>6, <1>12 DEF Core, Types, Writing
<1>14. OpOK(t)'
  BY <1>6, <1>7 DEF OpOK, Key, Home_, Reading, Writing, Making, HomeLocked
<1>15. LockOK(t)'
  <2>1. f < i /\ op[t].idx = i
    BY <1>0, MoveFacts DEF f, i
  <2> QED
    BY <1>1, <1>5, <1>6, <1>7, <1>8, <1>10, <2>1 DEF LockOK, HomeLocked, Moving
<1>16. MoveOK(t)'
  <2>1. ptr'[op'[t].idx] = kBusyPtr
    BY <1>1, <1>4, <1>6, <1>7 DEF MoveOK, i
  <2>2. op'[t].dist = d
    BY <1>6 DEF d
  <2> QED
    BY <1>5, <1>6, <1>8, <1>10, <1>11, <2>1, <2>2 DEF MoveOK, IsObj
<1>17. Mine(t) = i /\ Mine(t)' = i
  BY <1>6 DEF Mine, i
<1>18. Bystanders(t)
  <2>1. \A c \in Entries : spin[c] \in Threads \ {t} => bitmap'[c] = bitmap[c]
    BY <1>1, <1>5
  <2>2. \A g \in Entries : ptr'[g] = ptr[g] \/ (IsObj(g) /\ spin[ptr[g].anchor] = t)
    BY <1>1, <1>2, <1>4
  <2>3. \A c \in Entries : \A o \in bitmap'[c] : o \in bitmap[c] \/ c + o = Mine(t)
    BY <1>1, <1>5, <1>17
  <2> QED
    BY <1>0, <1>6, <2>1, <2>2, <2>3 DEF Bystanders
<1>19. OwnOK'
  <2>1. ASSUME NEW u \in Threads \ {t}, pc[u] \in Owning PROVE Mine(t)' # Mine(u)
    BY <1>0, <1>17, <2>1 DEF Core, OwnOK
  <2> QED
    BY <1>18, <2>1, OwnStep
<1>20. \A g \in Entries : /\ IsObj(g)' <=> IsObj(g)
                          /\ IsObj(g) => /\ ptr'[g].key = ptr[g].key
                                         /\ ptr'[g].anchor = ptr[g].anchor
                          /\ ~IsObj(g) => ptr'[g] = ptr[g]
  BY <1>2, <1>4, <1>11 DEF IsObj
<1>21. ObjOK'
  <2>1. ASSUME NEW g \in Entries, IsObj(g)'
        PROVE  \/ ptr'[g].anchor = Home[ptr'[g].key] /\ Source(t, g)'
               \/ /\ ptr'[g] = ptr[g]
                  /\ Settled(g) => ptr[g].offset \in bitmap'[ptr[g].anchor]
                  /\ ~Source(t, g) /\ ~Fresh(t, g)
    <3>1. CASE g = f
      BY <1>1, <1>2, <1>6, <1>10, <1>11, <3>1, ObjFacts DEF Source, Relinked
    <3>2. CASE g # f
      <4>1. ptr'[g] = ptr[g] /\ IsObj(g)
        BY <1>4, <1>20, <2>1, <3>2
      <4>2. ptr[g].anchor \in Entries
        BY <4>1, ObjFacts
      <4> QED
        BY <1>5, <4>1, <4>2 DEF Settled, Source, Fresh, Relinked
    <3> QED
      BY <3>1, <3>2
  <2> QED
    BY <1>18, <2>1, ObjStep
<1>22. BitOK'
  <2>1. ASSUME NEW c \in Entries, NEW p \in bitmap'[c]
        PROVE  LET now == \/ IsObj(c + p)' /\ ptr'[c + p].anchor = c
                          \/ <<c, p>> \in notes' \cup stash'
                          \/ Target(t, c, p)' \/ Emptied(t, c, p)'
               IN \/ c + p \in Entries /\ now
                  \/ /\ p \in bitmap[c]
                     /\ IsObj(c + p) \/ <<c, p>> \in notes \cup stash => now
                     /\ ~Target(t, c, p) /\ ~Emptied(t, c, p)
    <3>1. CASE p \in bitmap[c]
      <4>1. c + p \in Entries
        BY <3>1, BitFacts
      <4>2. IsObj(c + p) => IsObj(c + p)' /\ ptr'[c + p].anchor = c
        BY <1>20, <3>1, <4>1, BitFacts
      <4> QED
        BY <3>1, <4>2 DEF Target, Emptied
    <3>2. CASE c = A /\ p = d
      <4>1. Target(t, c, p)'
        BY <1>6, <1>8, <3>2 DEF Target, d
      <4> QED
        BY <1>1, <3>2, <4>1
    <3> QED
      BY <1>5, <2>1, <3>1, <3>2
  <2> QED
    BY <1>18, <2>1, BitStep
<1>23. UniqueBits'
  <2>1. \A c \in Entries : \A o \in bitmap'[c] : o \in bitmap[c] \/ (c = A /\ o = d)
    BY <1>5
  <2>2. \A c \in Entries : \A o \in bitmap[c] : c + o # A + d
    BY <1>1, <1>3
  <2> QED
    BY <1>1, <2>1, <2>2, UniqueGrow
<1>24. NoteOK'
  <2>1. ASSUME NEW c \in Entries, NEW p \in Offsets, <<c, p>> \in notes \cup stash
        PROVE  p \in bitmap'[c] /\ ptr'[c + p] = Null
    <3>1. p \in bitmap[c] /\ ptr[c + p] = Null
      BY <2>1 DEF Core, NoteOK
    <3>2. c + p \in Entries /\ ~IsObj(c + p)
      BY <3>1, BitFacts, ObjFacts
    <3> QED
      BY <1>5, <1>20, <3>1, <3>2
  <2> QED
    BY <2>1 DEF NoteOK, Core
<1>25. KeyOK'
  <2>1. \A g \in Entries : IsObj(g)' => ptr'[g].key # Key(t)'
    BY <1>6, <1>20 DEF Core, KeyOK, Making, HomeLocked, Key
  <2> QED
    BY <1>18, <1>20, <2>1, KeyStep
<1>26. LeakOK'
  <2>1. ASSUME NEW g \in Entries, ptr'[g] = kBusyPtr
        PROVE  \/ pc'[t] \in Owning \ {"publish"} /\ Mine(t)' = g
               \/ ptr[g] = kBusyPtr /\ Mine(t) # g
    BY <1>4, <1>6, <1>11, <1>17, <2>1, NullAssumption DEF Owning
  <2> QED
    BY <1>18, <2>1, LeakStep
<1> QED
  BY <1>13, <1>14, <1>15, <1>16, <1>18, <1>19, <1>21, <1>22, <1>23, <1>24, <1>25, <1>26,
     CoreStep

LEMMA DislodgeCore ==
  ASSUME Core, NEW t \in Threads, Dislodge(t)
  PROVE  Core'
<1>1. CASE IsNull(From(t))
  BY <1>1, DislodgeGivesUp DEF Dislodge
<1>2. CASE ~IsNull(From(t))
  BY <1>2, DislodgeMoves DEF Dislodge
<1> QED
  BY <1>1, <1>2

\* Two objects of one key are being moved, and the mover has their bucket locked.
LEMMA PairLocked ==
  ASSUME Core, NEW e \in Entries, NEW f \in Entries, IsObj(e), IsObj(f),
         ptr[e].key = ptr[f].key, e # f
  PROVE  \E u \in Threads : /\ pc[u] = "reset" /\ {e, f} = {From(u), op[u].idx}
                            /\ spin[ptr[e].anchor] = u
<1>1. PICK u \in Threads : pc[u] = "reset" /\ {e, f} = {From(u), op[u].idx}
  BY DEF Core, KeyOK
<1>2. e \in Held(u)
  BY <1>1 DEF Held
<1>3. spin[ptr[e].anchor] = u
  BY <1>2, HeldFacts, ObjFacts
<1> QED
  BY <1>1, <1>3

LEMMA CopyPtrCore ==
  ASSUME Core, NEW t \in Threads, CopyPtr(t)
  PROVE  Core'
<1>0. /\ pc[t] = "copy" /\ ptr' = [ptr EXCEPT ![op[t].idx] = ptr[From(t)]]
      /\ pc' = [pc EXCEPT ![t] = "reset"]
      /\ UNCHANGED <<bitmap, spin, stash, notes, remote, op, pinned, late, races>>
  BY DEF CopyPtr, Goto
<1>a. pc[t] \in Moving /\ pc[t] \in Owning
  BY <1>0 DEF Moving, Owning
<1> DEFINE A == Anchor(t)
           f == From(t)
           d == op[t].dist
           i == op[t].idx
<1>1. /\ A \in Entries /\ A \in Nat /\ i \in Entries /\ i = A + d /\ f \in Entries
      /\ f # i /\ spin[A] = t /\ d \in Offsets /\ d \in Nat
  BY <1>a, MoveFacts, OpFacts
<1>2. /\ IsObj(f) /\ ptr[f].anchor = A /\ ptr[f].offset = d /\ ptr[f].key \in pinned[t]
      /\ ptr[i] = kBusyPtr /\ d \in bitmap[A]
  BY <1>0 DEF Core, MoveOK, Relinked
<1>3. ptr[f].anchor = Home[ptr[f].key] /\ ~IsObj(i)
  BY <1>1, <1>2, ObjFacts
<1>4. /\ ptr'[i] = ptr[f] /\ \A g \in Entries : g # i => ptr'[g] = ptr[g]
      /\ ptr' \in [Entries -> Objects \cup {Null, kBusyPtr}]
  BY <1>0, <1>1 DEF Core, Types
<1>5. pc'[t] = "reset" /\ \A u \in Threads \ {t} : pc'[u] = pc[u]
  BY <1>0 DEF Core, Types
<1>6. Types'
  BY <1>0, <1>4 DEF Core, Types, Writing
<1>7. Anchor(t)' = A /\ From(t)' = f /\ op'[t].idx = i
  BY <1>0 DEF Anchor, From
<1> HIDE DEF A, f, d, i
<1>8. OpOK(t) /\ LockOK(t)
  BY DEF Core
<1>9. OpOK(t)'
  BY <1>0, <1>5, <1>8 DEF OpOK, Key, Home_, Reading, Writing, Making, HomeLocked
<1>10. LockOK(t)'
  BY <1>0, <1>5, <1>7, <1>8 DEF LockOK, HomeLocked, Moving, Home_, A, f
<1>11. MoveOK(t)'
  <2>1. op'[t].dist = d
    BY <1>0 DEF d
  <2> QED
    BY <1>0, <1>1, <1>2, <1>4, <1>5, <1>7, <2>1 DEF MoveOK, IsObj
<1>12. Mine(t) = i
  BY <1>0 DEF Mine, i
<1>13. Bystanders(t)
  BY <1>0, <1>a, <1>4, <1>5, <1>12 DEF Bystanders
<1>14. OwnOK'
  BY <1>5, <1>13, OwnStep DEF Owning
<1>15. \A g \in Entries : g # i => (IsObj(g)' <=> IsObj(g))
  BY <1>4 DEF IsObj
<1>16. ObjOK'
  <2>1. ASSUME NEW g \in Entries, IsObj(g)'
        PROVE  \/ /\ ptr'[g].anchor = Home[ptr'[g].key]
                  /\ Settled(g)' \/ Source(t, g)'
               \/ /\ ptr'[g] = ptr[g]
                  /\ Settled(g) => ptr[g].offset \in bitmap'[ptr[g].anchor]
                  /\ ~Source(t, g) /\ ~Fresh(t, g)
    <3>1. CASE g = i
      BY <1>0, <1>1, <1>2, <1>3, <1>4, <3>1 DEF Settled
    <3>2. CASE g = f
      BY <1>1, <1>3, <1>4, <1>5, <1>7, <3>2 DEF Source, Relinked
    <3>3. CASE g # f /\ g # i
      BY <1>0, <1>4, <3>3 DEF Settled, Source, Fresh, f
    <3> QED
      BY <3>1, <3>2, <3>3
  <2> QED
    BY <1>13, <2>1, ObjStep
<1>17. BitOK'
  <2>1. ASSUME NEW c \in Entries, NEW p \in bitmap'[c]
        PROVE  LET now == \/ IsObj(c + p)' /\ ptr'[c + p].anchor = c
                          \/ <<c, p>> \in notes' \cup stash'
               IN \/ c + p \in Entries /\ now
                  \/ /\ p \in bitmap[c]
                     /\ IsObj(c + p) \/ <<c, p>> \in notes \cup stash => now
                     /\ ~Target(t, c, p) /\ ~Emptied(t, c, p)
    <3>1. p \in bitmap[c] /\ c + p \in Entries
      BY <1>0, <2>1, BitFacts
    <3>2. CASE c + p = i
      <4>1. c = A
        BY <1>1, <1>2, <3>1, <3>2 DEF Core, UniqueBits
      <4> QED
        BY <1>2, <1>4, <3>1, <3>2, <4>1 DEF IsObj
    <3>3. CASE c + p # i
      <4>1. IsObj(c + p) => IsObj(c + p)' /\ ptr'[c + p].anchor = c
        BY <1>4, <1>15, <3>1, <3>3, BitFacts
      <4>2. ~Target(t, c, p) /\ ~Emptied(t, c, p)
        BY <1>0, <1>1, <3>3 DEF Target, Emptied, A, d
      <4> QED
        BY <1>0, <3>1, <4>1, <4>2
    <3> QED
      BY <3>2, <3>3
  <2> QED
    BY <1>13, <2>1, BitStep
<1>18. UniqueBits'
  BY <1>0, UniqueShrink
<1>19. NoteOK'
  <2>1. ASSUME NEW c \in Entries, NEW p \in Offsets, <<c, p>> \in notes \cup stash
        PROVE  p \in bitmap'[c] /\ ptr'[c + p] = Null
    <3>1. p \in bitmap[c] /\ ptr[c + p] = Null
      BY <2>1 DEF Core, NoteOK
    <3>2. c + p \in Entries /\ c + p # i
      BY <1>2, <3>1, BitFacts, NullAssumption
    <3> QED
      BY <1>0, <1>4, <3>1, <3>2
  <2> QED
    BY <1>0, <2>1 DEF NoteOK, Core
<1>20. KeyOK'
  <2>1. ASSUME NEW g \in Entries, NEW h \in Entries, IsObj(g)', IsObj(h)',
               ptr'[g].key = ptr'[h].key, g # h
        PROVE  \E u \in Threads : pc'[u] = "reset" /\ {g, h} = {From(u)', op'[u].idx}
    <3>1. CASE g # i /\ h # i
      <4>1. IsObj(g) /\ IsObj(h) /\ ptr[g].key = ptr[h].key
        BY <1>4, <1>15, <2>1, <3>1
      <4>2. PICK u \in Threads : pc[u] = "reset" /\ {g, h} = {From(u), op[u].idx}
        BY <2>1, <4>1, PairLocked
      <4>3. u # t
        BY <1>0, <4>2
      <4> QED
        BY <1>13, <4>2, <4>3, OthersKeep
    <3>2. ASSUME NEW x \in Entries, IsObj(x)', x # i, ptr'[x].key = ptr'[i].key
          PROVE  x = f
      <4> SUFFICES ASSUME x # f PROVE FALSE
        OBVIOUS
      <4>1. IsObj(x) /\ ptr[x].key = ptr[f].key
        BY <1>4, <1>15, <3>2
      <4>2. PICK u \in Threads : pc[u] = "reset" /\ spin[ptr[f].anchor] = u
        BY <1>1, <1>2, <3>2, <4>1, PairLocked
      <4> QED
        BY <1>0, <1>1, <1>2, <4>2
    <3>3. CASE g = i \/ h = i
      <4>1. {g, h} = {f, i}
        BY <2>1, <3>2, <3>3
      <4> QED
        BY <1>5, <1>7, <4>1
    <3> QED
      BY <3>1, <3>3
  <2>2. ASSUME NEW u \in Threads, pc'[u] \in Making \ {"publish"}, NEW e \in Entries, IsObj(e)'
        PROVE  ptr'[e].key # Key(u)'
    <3>1. pc[u] \in Making \ {"publish"} /\ Key(u)' = Key(u)
      BY <1>0, <1>5, <2>2 DEF Making, HomeLocked, Key
    <3>2. \E x \in Entries : IsObj(x) /\ ptr[x].key = ptr'[e].key
      BY <1>1, <1>2, <1>4, <1>15, <2>2
    <3> QED
      BY <3>1, <3>2 DEF Core, KeyOK
  <2> QED
    BY <2>1, <2>2 DEF KeyOK
<1>21. LeakOK'
  <2>1. ASSUME NEW g \in Entries, ptr'[g] = kBusyPtr
        PROVE  ptr[g] = kBusyPtr /\ Mine(t) # g
    BY <1>1, <1>2, <1>4, <1>12, <2>1, ObjFacts
  <2> QED
    BY <1>0, <1>13, <2>1, LeakStep
<1> QED
  BY <1>6, <1>9, <1>10, <1>11, <1>13, <1>14, <1>16, <1>17, <1>18, <1>19, <1>20, <1>21,
     CoreStep

LEMMA ResetPtrCore ==
  ASSUME Core, NEW t \in Threads, ResetPtr(t)
  PROVE  Core'
<1>0. /\ pc[t] = "reset" /\ ptr' = [ptr EXCEPT ![From(t)] = kBusyPtr]
      /\ pc' = [pc EXCEPT ![t] = "clear"]
      /\ UNCHANGED <<bitmap, spin, stash, notes, remote, op, pinned, late, races>>
  BY DEF ResetPtr, Goto
<1>a. pc[t] \in Moving /\ pc[t] \notin Owning
  BY <1>0 DEF Moving, Owning
<1> DEFINE A == Anchor(t)
           f == From(t)
           i == op[t].idx
           m == Min(bitmap[A])
<1>1. /\ A \in Entries /\ A \in Nat /\ f \in Entries /\ spin[A] = t
      /\ f = A + m /\ m \in bitmap[A] /\ op[t].dist \in bitmap[A]
  BY <1>0, <1>a, MoveFacts DEF Core, MoveOK
<1>2. IsObj(f) /\ ptr[f].anchor = A
  BY <1>0 DEF Core, MoveOK, Relinked
<1>3. /\ ptr'[f] = kBusyPtr /\ \A g \in Entries : g # f => ptr'[g] = ptr[g]
      /\ ptr' \in [Entries -> Objects \cup {Null, kBusyPtr}]
  BY <1>0, <1>1 DEF Core, Types
<1>4. pc'[t] = "clear" /\ \A u \in Threads \ {t} : pc'[u] = pc[u]
  BY <1>0 DEF Core, Types
<1>5. Types'
  BY <1>0, <1>3 DEF Core, Types, Writing
<1>6. Anchor(t)' = A /\ From(t)' = f /\ op'[t].idx = i /\ Mine(t)' = f
  BY <1>0, <1>4 DEF Anchor, From, Mine
<1> HIDE DEF A, f, i, m
<1>7. OpOK(t) /\ LockOK(t)
  BY DEF Core
<1>8. OpOK(t)'
  BY <1>0, <1>4, <1>7 DEF OpOK, Key, Home_, Reading, Writing, Making, HomeLocked
<1>9. LockOK(t)'
  BY <1>0, <1>4, <1>6, <1>7 DEF LockOK, HomeLocked, Moving, Home_, A, f
<1>10. MoveOK(t)'
  BY <1>0, <1>1, <1>3, <1>4, <1>6 DEF MoveOK, Relinked
<1>11. Bystanders(t)
  BY <1>0, <1>1, <1>2, <1>3, <1>4 DEF Bystanders
<1>12. OwnOK'
  <2>1. ASSUME NEW u \in Threads \ {t}, pc[u] \in Owning PROVE f # Mine(u)
    <3>1. CASE pc[u] # "publish"
      BY <1>1, <1>2, <2>1, <3>1, MineFacts, ObjFacts
    <3>2. CASE pc[u] = "publish"
      <4> SUFFICES ASSUME f = Mine(u) PROVE FALSE
        OBVIOUS
      <4>1. Fresh(u, f)
        BY <3>2 DEF Fresh, Mine
      <4> QED
        BY <1>1, <1>2, <2>1, <4>1, SourceFacts
    <3> QED
      BY <3>1, <3>2
  <2> QED
    BY <1>6, <1>11, <2>1, OwnStep
<1>13. \A g \in Entries : IsObj(g)' => g # f /\ ptr'[g] = ptr[g] /\ IsObj(g)
  BY <1>3, NullAssumption DEF IsObj
<1>14. ObjOK'
  <2>1. ASSUME NEW g \in Entries, IsObj(g)'
        PROVE  /\ ptr'[g] = ptr[g]
               /\ Settled(g) => ptr[g].offset \in bitmap'[ptr[g].anchor]
               /\ ~Source(t, g) /\ ~Fresh(t, g)
    BY <1>0, <1>13, <2>1 DEF Settled, Source, Fresh, f
  <2> QED
    BY <1>11, <2>1, ObjStep
<1>15. BitOK'
  <2>1. ASSUME NEW c \in Entries, NEW p \in bitmap'[c]
        PROVE  LET now == \/ IsObj(c + p)' /\ ptr'[c + p].anchor = c
                          \/ <<c, p>> \in notes' \cup stash'
                          \/ Target(t, c, p)' \/ Emptied(t, c, p)'
               IN \/ c + p \in Entries /\ now
                  \/ /\ p \in bitmap[c]
                     /\ IsObj(c + p) \/ <<c, p>> \in notes \cup stash => now
                     /\ ~Target(t, c, p) /\ ~Emptied(t, c, p)
    <3>1. p \in bitmap[c] /\ c + p \in Entries
      BY <1>0, <2>1, BitFacts
    <3>2. CASE c + p = f
      <4>1. c = A
        BY <1>1, <3>1, <3>2 DEF Core, UniqueBits
      <4> QED
        BY <1>4, <1>6, <3>1, <3>2, <4>1 DEF Emptied
    <3>3. CASE c + p # f
      <4>1. IsObj(c + p) => IsObj(c + p)' /\ ptr'[c + p].anchor = c
        BY <1>3, <3>1, <3>3, BitFacts DEF IsObj
      <4>2. ~Target(t, c, p) /\ ~Emptied(t, c, p)
        BY <1>0 DEF Target, Emptied
      <4> QED
        BY <1>0, <3>1, <4>1, <4>2
    <3> QED
      BY <3>2, <3>3
  <2> QED
    BY <1>11, <2>1, BitStep
<1>16. UniqueBits'
  BY <1>0, UniqueShrink
<1>17. NoteOK'
  <2>1. ASSUME NEW c \in Entries, NEW p \in Offsets, <<c, p>> \in notes \cup stash
        PROVE  p \in bitmap'[c] /\ ptr'[c + p] = Null
    <3>1. p \in bitmap[c] /\ ptr[c + p] = Null
      BY <2>1 DEF Core, NoteOK
    <3>2. c + p \in Entries /\ c + p # f
      BY <1>2, <3>1, BitFacts, ObjFacts
    <3> QED
      BY <1>0, <1>3, <3>1, <3>2
  <2> QED
    BY <1>0, <2>1 DEF NoteOK, Core
<1>18. KeyOK'
  <2>1. ASSUME NEW g \in Entries, NEW h \in Entries, IsObj(g)', IsObj(h)',
               ptr'[g].key = ptr'[h].key, g # h
        PROVE  \E u \in Threads : pc'[u] = "reset" /\ {g, h} = {From(u)', op'[u].idx}
    <3>1. PICK u \in Threads : pc[u] = "reset" /\ {g, h} = {From(u), op[u].idx}
      BY <1>13, <2>1, PairLocked
    <3>2. u # t
      BY <1>13, <2>1, <3>1 DEF f
    <3> QED
      BY <1>11, <3>1, <3>2, OthersKeep
  <2>2. ASSUME NEW u \in Threads, pc'[u] \in Making \ {"publish"}, NEW e \in Entries, IsObj(e)'
        PROVE  ptr'[e].key # Key(u)'
    <3>1. pc[u] \in Making \ {"publish"} /\ Key(u)' = Key(u)
      BY <1>0, <1>4, <2>2 DEF Making, HomeLocked, Key
    <3> QED
      BY <1>13, <2>2, <3>1 DEF Core, KeyOK
  <2> QED
    BY <2>1, <2>2 DEF KeyOK
<1>19. LeakOK'
  <2>1. ASSUME NEW g \in Entries, ptr'[g] = kBusyPtr
        PROVE  \/ pc'[t] \in Owning \ {"publish"} /\ Mine(t)' = g
               \/ ptr[g] = kBusyPtr /\ pc[t] \notin Owning
    BY <1>a, <1>3, <1>4, <1>6, <2>1 DEF Owning
  <2> QED
    BY <1>0, <1>11, <2>1, LeakStep
<1> QED
  BY <1>5, <1>8, <1>9, <1>10, <1>11, <1>12, <1>14, <1>15, <1>16, <1>17, <1>18, <1>19,
     CoreStep

LEMMA ClearBitCore ==
  ASSUME Core, NEW t \in Threads, ClearBit(t)
  PROVE  Core'
<1> DEFINE A == Anchor(t)
           f == From(t)
           m == Min(bitmap[A])
<1>0. /\ pc[t] = "clear" /\ bitmap' = [bitmap EXCEPT ![A] = @ \ {Min(@)}]
      /\ spin' = [spin EXCEPT ![A] = None] /\ pc' = [pc EXCEPT ![t] = "room"]
      /\ op' = [op EXCEPT ![t].idx = f, ![t].dist = kNeighborhood - 1]
      /\ UNCHANGED <<ptr, stash, notes, remote, pinned, late, races>>
  BY DEF ClearBit, Goto
<1>a. pc[t] \in Moving /\ pc[t] \in Owning
  BY <1>0 DEF Moving, Owning
<1>1. /\ A \in Entries /\ A \in Nat /\ f \in Entries /\ f \in Nat /\ spin[A] = t
      /\ f = A + m /\ m \in bitmap[A] /\ Home_(t) < A /\ A <= f /\ ptr[f] = kBusyPtr
      /\ m \in Nat
  BY <1>0, <1>a, MoveFacts DEF Core, MoveOK
<1>2. /\ bitmap'[A] = bitmap[A] \ {m} /\ bitmap' \in [Entries -> SUBSET Offsets]
      /\ \A c \in Entries : c # A => bitmap'[c] = bitmap[c] /\ spin'[c] = spin[c]
      /\ spin' \in [Entries -> Threads \cup {None}]
  BY <1>0, <1>1 DEF Core, Types
<1>3. /\ pc'[t] = "room" /\ \A u \in Threads \ {t} : pc'[u] = pc[u] /\ op'[u] = op[u]
      /\ op'[t] = [op[t] EXCEPT !.idx = f, !.dist = kNeighborhood - 1]
  BY <1>0 DEF Core, Types
<1>4. op'[t] \in OpTypes
  <2>1. kNeighborhood - 1 \in Offsets /\ f \in 0..kNumEntries
    BY <1>1, Sizes
  <2> QED
    BY <1>3, <2>1, OpFacts DEF OpTypes
<1>5. op' \in [Threads -> OpTypes]
  BY <1>0, <1>3, <1>4 DEF Core, Types
<1>6. /\ op'[t].key = op[t].key /\ op'[t].home = op[t].home /\ op'[t].kind = op[t].kind
      /\ op'[t].val = op[t].val /\ op'[t].idx = f
  BY <1>3, OpFacts DEF OpTypes
<1>7. Types'
  BY <1>0, <1>2, <1>5 DEF Core, Types, Writing
<1>8. Mine(t) = f /\ Mine(t)' = f
  BY <1>0, <1>3, <1>6 DEF Mine
<1> HIDE DEF A, f, m
<1>9. \A c \in Entries : \A p \in bitmap'[c] : p \in bitmap[c] /\ c + p # f
  <2> SUFFICES ASSUME NEW c \in Entries, NEW p \in bitmap'[c] PROVE p \in bitmap[c] /\ c + p # f
    OBVIOUS
  <2>1. p \in bitmap[c] /\ (c = A => p # m)
    BY <1>2
  <2>2. c + p = f => c = A
    BY <1>1, <2>1 DEF Core, UniqueBits
  <2>3. p \in Nat
    BY <2>1, BitFacts
  <2> QED
    BY <1>1, <2>1, <2>2, <2>3
<1>10. \A c \in Entries : \A p \in bitmap[c] : c + p # f => p \in bitmap'[c]
  BY <1>1, <1>2
<1>11. OpOK(t) /\ LockOK(t) /\ Home_(t) \in Entries /\ Home_(t) \in Nat
  BY OpFacts DEF Core, Home_
<1>12. OpOK(t)'
  BY <1>0, <1>1, <1>3, <1>6, <1>11 DEF OpOK, Key, Home_, Reading, Writing, Making, HomeLocked
<1>13. LockOK(t)'
  BY <1>0, <1>1, <1>2, <1>3, <1>6, <1>11 DEF LockOK, HomeLocked, Moving, Home_
<1>14. MoveOK(t)'
  BY <1>0, <1>1, <1>3, <1>6, <1>9 DEF MoveOK, Relinked
<1>15. Bystanders(t)
  BY <1>0, <1>1, <1>2, <1>3, <1>9 DEF Bystanders
<1>16. OwnOK'
  <2>1. ASSUME NEW u \in Threads \ {t}, pc[u] \in Owning PROVE Mine(t)' # Mine(u)
    BY <1>a, <1>8, <2>1 DEF Core, OwnOK
  <2> QED
    BY <1>15, <2>1, OwnStep
<1>17. ObjOK'
  <2>1. ASSUME NEW g \in Entries, IsObj(g)'
        PROVE  /\ ptr'[g] = ptr[g]
               /\ Settled(g) => ptr[g].offset \in bitmap'[ptr[g].anchor]
               /\ ~Source(t, g) /\ ~Fresh(t, g)
    <3>1. IsObj(g) /\ ptr'[g] = ptr[g] /\ g # f
      BY <1>0, <1>1, <2>1, ObjFacts DEF IsObj
    <3>2. ptr[g].anchor \in Entries
      BY <3>1, ObjFacts
    <3> QED
      BY <1>0, <1>10, <3>1, <3>2 DEF Settled, Source, Fresh, Relinked
  <2> QED
    BY <1>15, <2>1, ObjStep
<1>18. BitOK'
  <2>1. ASSUME NEW c \in Entries, NEW p \in bitmap'[c]
        PROVE  LET now == \/ IsObj(c + p)' /\ ptr'[c + p].anchor = c
                          \/ <<c, p>> \in notes' \cup stash'
               IN /\ p \in bitmap[c]
                  /\ IsObj(c + p) \/ <<c, p>> \in notes \cup stash => now
                  /\ ~Target(t, c, p) /\ ~Emptied(t, c, p)
    <3>1. p \in bitmap[c] /\ c + p # f
      BY <1>9, <2>1
    <3>2. IsObj(c + p) => IsObj(c + p)' /\ ptr'[c + p].anchor = c
      BY <1>0, <3>1, BitFacts DEF IsObj
    <3> QED
      BY <1>0, <3>1, <3>2 DEF Target, Emptied, f
  <2> QED
    BY <1>15, <2>1, BitStep
<1>19. UniqueBits'
  BY <1>9, UniqueShrink
<1>20. NoteOK'
  <2>1. ASSUME NEW c \in Entries, NEW p \in Offsets, <<c, p>> \in notes \cup stash
        PROVE  p \in bitmap'[c] /\ ptr'[c + p] = Null
    <3>1. p \in bitmap[c] /\ ptr[c + p] = Null
      BY <2>1 DEF Core, NoteOK
    <3>2. c + p # f
      BY <1>1, <3>1, NullAssumption
    <3> QED
      BY <1>0, <1>10, <3>1, <3>2
  <2> QED
    BY <1>0, <2>1 DEF NoteOK, Core
<1>21. KeyOK'
  <2>1. \A g \in Entries : IsObj(g)' => IsObj(g) /\ ptr'[g] = ptr[g] /\ ptr'[g].key # Key(t)'
    BY <1>0, <1>6 DEF Core, KeyOK, Making, HomeLocked, Key, IsObj
  <2> QED
    BY <1>0, <1>15, <2>1, KeyStep
<1>22. LeakOK'
  <2>1. ASSUME NEW g \in Entries, ptr'[g] = kBusyPtr
        PROVE  \/ pc'[t] \in Owning \ {"publish"} /\ Mine(t)' = g
               \/ ptr[g] = kBusyPtr /\ Mine(t) # g
    BY <1>0, <1>3, <1>8, <2>1 DEF Owning
  <2> QED
    BY <1>0, <1>15, <2>1, LeakStep
<1> QED
  BY <1>7, <1>12, <1>13, <1>14, <1>15, <1>16, <1>17, <1>18, <1>19, <1>20, <1>21, <1>22,
     CoreStep

LEMMA AllocateCore ==
  ASSUME Core, NEW t \in Threads, Allocate(t)
  PROVE  Core'
<1> DEFINE i == op[t].idx
           b == Home_(t)
           new == [key |-> Key(t), val |-> op[t].val, dirty |-> ~Swap(t), anchor |-> b,
                   offset |-> i - b]
<1>0. CASE left.fails > 0 /\ spin' = [spin EXCEPT ![b] = None] /\ Race({"leak"})
           /\ Goto(t, "lock") /\ UNCHANGED <<ptr, pinned>>
  BY <1>0, AllocateFails DEF Allocate
<1>1. CASE /\ ptr' = [ptr EXCEPT ![i] = new] /\ Pin(t, {Key(t)}) /\ Goto(t, "publish")
           /\ UNCHANGED <<spin, races>>
  <2>0. /\ pc[t] = "alloc" /\ pc[t] \in Owning /\ pc' = [pc EXCEPT ![t] = "publish"]
        /\ pinned' = [pinned EXCEPT ![t] = @ \cup {Key(t)}]
        /\ UNCHANGED <<bitmap, spin, stash, notes, remote, op, late, races>>
    BY <1>1 DEF Allocate, Goto, Pin, Owning
  <2>1. OpOK(t) /\ LockOK(t) /\ MoveOK(t)
    BY DEF Core
  <2>2. /\ i \in Entries /\ i \in Nat /\ b \in Nat /\ b <= i /\ i - b < kNeighborhood
        /\ Key(t) \in Keys /\ op[t].val \in Vals /\ b = Home[Key(t)] /\ b \in Homes
        /\ ptr[i] = kBusyPtr /\ spin[b] = t /\ b \in Entries
        /\ \A c \in Entries : \A o \in bitmap[c] : i # c + o
    <3>1. /\ i \in Entries /\ b <= i /\ i - b < kNeighborhood /\ Key(t) \in Keys
          /\ op[t].val \in Vals /\ b = Home[Key(t)] /\ ptr[i] = kBusyPtr /\ spin[b] = t
          /\ \A c \in Entries : \A o \in bitmap[c] : i # c + o
      BY <2>0, <2>1 DEF OpOK, LockOK, MoveOK, Making, HomeLocked, Writing
    <3>2. i \in Nat /\ b \in Nat /\ b \in Entries
      BY OpFacts DEF Home_
    <3> QED
      BY <3>1, <3>2, HomeAssumption
  <2>3. new \in Objects
    <3>1. i - b \in Offsets
      BY <2>2, Sizes
    <3> QED
      BY <2>2, <3>1 DEF Objects, Swap
  <2>4. /\ ptr'[i] = new /\ \A g \in Entries : g # i => ptr'[g] = ptr[g]
        /\ ptr' \in [Entries -> Objects \cup {Null, kBusyPtr}]
    BY <1>1, <2>2, <2>3 DEF Core, Types
  <2>5. /\ pc'[t] = "publish" /\ Key(t) \in pinned'[t]
        /\ \A u \in Threads \ {t} : pc'[u] = pc[u] /\ pinned'[u] = pinned[u]
    BY <2>0 DEF Core, Types
  <2>6. Types'
    BY <2>0, <2>2, <2>4 DEF Core, Types, Writing
  <2>7. /\ new.key = Key(t) /\ new.anchor = b
        /\ Home_(t)' = b /\ op'[t].idx = i /\ Key(t)' = Key(t)
        /\ Mine(t) = i /\ Mine(t)' = i /\ Swap(t)' = Swap(t) /\ op' = op
    BY <2>0, <2>5 DEF Home_, Key, Mine, Swap
  <2>8. OpOK(t)'
    BY <2>0, <2>1, <2>5 DEF OpOK, Key, Home_, Reading, Writing, Making, HomeLocked
  <2>9. LockOK(t)'
    BY <2>0, <2>2, <2>5, <2>7 DEF LockOK, HomeLocked, Moving
  <2>10. MoveOK(t)'
    BY <2>0, <2>2, <2>4, <2>5, <2>7 DEF MoveOK, Relinked
  <2> HIDE DEF i, b, new
  <2>11. Bystanders(t)
    BY <2>0, <2>4, <2>5, <2>7 DEF Bystanders
  <2>12. OwnOK'
    <3>1. ASSUME NEW u \in Threads \ {t}, pc[u] \in Owning PROVE Mine(t)' # Mine(u)
      BY <2>0, <2>7, <3>1 DEF Core, OwnOK
    <3> QED
      BY <2>11, <3>1, OwnStep
  <2>13. \A g \in Entries : g # i => (IsObj(g)' <=> IsObj(g))
    BY <2>4 DEF IsObj
  <2>14. ObjOK'
    <3>1. ASSUME NEW g \in Entries, IsObj(g)'
          PROVE  \/ ptr'[g].anchor = Home[ptr'[g].key] /\ Fresh(t, g)'
                 \/ /\ ptr'[g] = ptr[g]
                    /\ Settled(g) => ptr[g].offset \in bitmap'[ptr[g].anchor]
                    /\ ~Source(t, g) /\ ~Fresh(t, g)
      <4>1. CASE g = i
        BY <2>2, <2>4, <2>5, <2>7, <4>1 DEF Fresh
      <4>2. CASE g # i
        BY <2>0, <2>4, <4>2 DEF Settled, Source, Fresh, Relinked
      <4> QED
        BY <4>1, <4>2
    <3> QED
      BY <2>11, <3>1, ObjStep
  <2>15. BitOK'
    <3>1. ASSUME NEW c \in Entries, NEW p \in bitmap'[c]
          PROVE  LET now == \/ IsObj(c + p)' /\ ptr'[c + p].anchor = c
                            \/ <<c, p>> \in notes' \cup stash'
                 IN /\ p \in bitmap[c]
                    /\ IsObj(c + p) \/ <<c, p>> \in notes \cup stash => now
                    /\ ~Target(t, c, p) /\ ~Emptied(t, c, p)
      <4>1. p \in bitmap[c] /\ c + p \in Entries /\ ptr'[c + p] = ptr[c + p]
        BY <2>0, <2>2, <2>4, <3>1, BitFacts
      <4>2. IsObj(c + p) => IsObj(c + p)' /\ ptr'[c + p].anchor = c
        BY <4>1, BitFacts DEF IsObj
      <4> QED
        BY <2>0, <4>1, <4>2 DEF Target, Emptied
    <3> QED
      BY <2>11, <3>1, BitStep
  <2>16. UniqueBits'
    BY <2>0, UniqueShrink
  <2>17. NoteOK'
    <3>1. ASSUME NEW c \in Entries, NEW p \in Offsets, <<c, p>> \in notes \cup stash
          PROVE  p \in bitmap'[c] /\ ptr'[c + p] = Null
      <4>1. p \in bitmap[c] /\ ptr[c + p] = Null
        BY <3>1 DEF Core, NoteOK
      <4>2. c + p \in Entries /\ c + p # i
        BY <2>2, <4>1, BitFacts
      <4> QED
        BY <2>0, <2>4, <4>1, <4>2
    <3> QED
      BY <2>0, <3>1 DEF NoteOK, Core
  <2>18. KeyOK'
    <3>0. \A g \in Entries : IsObj(g) => ptr[g].key # Key(t)
      BY <2>0 DEF Core, KeyOK, Making, HomeLocked
    <3>1. ASSUME NEW g \in Entries, NEW h \in Entries, IsObj(g)', IsObj(h)',
                 ptr'[g].key = ptr'[h].key, g # h
          PROVE  \E u \in Threads : pc'[u] = "reset" /\ {g, h} = {From(u)', op'[u].idx}
      <4>1. g # i /\ h # i
        BY <2>4, <2>7, <2>13, <3>0, <3>1
      <4>2. IsObj(g) /\ IsObj(h) /\ ptr[g].key = ptr[h].key
        BY <2>4, <2>13, <3>1, <4>1
      <4>3. PICK u \in Threads : pc[u] = "reset" /\ {g, h} = {From(u), op[u].idx}
        BY <3>1, <4>2, PairLocked
      <4>4. u # t
        BY <2>0, <4>3
      <4> QED
        BY <2>11, <4>3, <4>4, OthersKeep
    <3>2. ASSUME NEW u \in Threads, pc'[u] \in Making \ {"publish"}, NEW e \in Entries, IsObj(e)'
          PROVE  ptr'[e].key # Key(u)'
      <4>1. u # t /\ pc[u] \in Making \ {"publish"} /\ Key(u)' = Key(u)
        BY <2>0, <2>5, <3>2 DEF Key
      <4>2. CASE e = i
        <5>1. spin[Home[Key(u)]] = u
          BY <4>1 DEF Core, OpOK, LockOK, Making, HomeLocked
        <5> QED
          BY <2>2, <2>4, <2>7, <4>1, <4>2, <5>1
      <4>3. CASE e # i
        BY <2>4, <2>13, <3>2, <4>1, <4>3 DEF Core, KeyOK
      <4> QED
        BY <4>2, <4>3
    <3> QED
      BY <3>1, <3>2 DEF KeyOK
  <2>19. LeakOK'
    <3>1. ASSUME NEW g \in Entries, ptr'[g] = kBusyPtr
          PROVE  ptr[g] = kBusyPtr /\ Mine(t) # g
      BY <2>3, <2>4, <2>7, <3>1, NullAssumption
    <3> QED
      BY <2>0, <2>11, <3>1, LeakStep
  <2> QED
    BY <2>6, <2>8, <2>9, <2>10, <2>11, <2>12, <2>14, <2>15, <2>16, <2>17, <2>18, <2>19,
       CoreStep
<1> QED
  BY <1>0, <1>1 DEF Allocate

LEMMA PublishCore ==
  ASSUME Core, NEW t \in Threads, Publish(t)
  PROVE  Core'
<1> DEFINE i == op[t].idx
           b == Home_(t)
<1>0. /\ pc[t] = "publish" /\ pc[t] \in Owning
      /\ bitmap' = [bitmap EXCEPT ![b] = @ \cup {i - b}]
      /\ spin' = [spin EXCEPT ![b] = None] /\ races \subseteq races'
      /\ UNCHANGED <<ptr, stash, notes, remote, late>>
  BY DEF Publish, Owning, Race
<1>1. OpOK(t) /\ LockOK(t) /\ MoveOK(t) /\ Fresh(t, i)
  BY <1>0 DEF Core, Fresh
<1>2. /\ i \in Entries /\ i \in Nat /\ b \in Nat /\ b \in Entries /\ i - b \in Offsets
      /\ spin[b] = t /\ IsObj(i) /\ ptr[i].anchor = b /\ ptr[i].offset = i - b
      /\ ptr[i].anchor = Home[ptr[i].key]
      /\ \A c \in Entries : \A o \in bitmap[c] : i # c + o
  <2>1. /\ i \in Entries /\ b <= i /\ i - b < kNeighborhood /\ spin[b] = t
        /\ ptr[i] = [key |-> Key(t), val |-> op[t].val, dirty |-> ~Swap(t),
                     anchor |-> Home_(t), offset |-> i - Home_(t)]
        /\ \A c \in Entries : \A o \in bitmap[c] : i # c + o
    BY <1>0, <1>1 DEF OpOK, LockOK, MoveOK, Making, HomeLocked
  <2>2. i \in Nat /\ b \in Nat /\ b \in Entries
    BY OpFacts DEF Home_
  <2>3. i - b \in Offsets
    BY <2>1, <2>2, Sizes
  <2>4. IsObj(i)
    BY <1>1, <2>1, SourceFacts
  <2> QED
    BY <2>1, <2>2, <2>3, <2>4, ObjFacts
<1>3. /\ bitmap'[b] = bitmap[b] \cup {i - b} /\ bitmap' \in [Entries -> SUBSET Offsets]
      /\ \A c \in Entries : c # b => bitmap'[c] = bitmap[c] /\ spin'[c] = spin[c]
      /\ spin' \in [Entries -> Threads \cup {None}]
  BY <1>0, <1>2 DEF Core, Types
<1>4. /\ pc' \in [Threads -> Reading \cup Writing \cup {"idle", "bug"}]
      /\ op' \in [Threads -> OpTypes] /\ pinned' \in [Threads -> SUBSET Keys]
      /\ pc'[t] \in {"idle", "remote"} /\ OpOK(t)' /\ pc'[t] \notin HomeLocked
      /\ \A u \in Threads \ {t} :
           pc'[u] = pc[u] /\ op'[u] = op[u] /\ pinned'[u] = pinned[u]
  <2>1. CASE Done(t)
    BY <2>1, DoneFacts
  <2>2. CASE ~Swap(t) /\ Goto(t, "remote") /\ UNCHANGED <<op, pinned>>
    <3>1. /\ pc' = [pc EXCEPT ![t] = "remote"] /\ pc'[t] = "remote" /\ op' = op
          /\ pc' \in [Threads -> Reading \cup Writing \cup {"idle", "bug"}]
          /\ \A u \in Threads \ {t} : pc'[u] = pc[u]
      BY <2>2 DEF Goto, Core, Types, Writing
    <3>2. op[t].kind = "put"
      BY <1>0, <1>1, <2>2 DEF OpOK, Swap, Making, HomeLocked
    <3>3. OpOK(t)'
      BY <1>0, <1>1, <3>1, <3>2 DEF OpOK, Key, Home_, Reading, Writing, Making, HomeLocked
    <3> QED
      BY <2>2, <3>1, <3>3 DEF Core, Types, HomeLocked
  <2> QED
    BY <2>1, <2>2 DEF Publish
<1>5. Types'
  BY <1>0, <1>3, <1>4 DEF Core, Types
<1>6. LockOK(t)' /\ MoveOK(t)' /\ pc'[t] \notin Owning /\ pc'[t] \notin Making
  BY <1>4, IdleLocks DEF HomeLocked, Owning, Making
<1>7. Mine(t) = i
  BY <1>0 DEF Mine
<1> HIDE DEF i, b
<1>8. \A c \in Entries : \A o \in bitmap'[c] : o \in bitmap[c] \/ (c = b /\ o = i - b)
  BY <1>3
<1>9. Bystanders(t)
  <2>0. b + (i - b) = i
    BY <1>2
  <2>1. \A c \in Entries : \A o \in bitmap'[c] : o \in bitmap[c] \/ c + o = Mine(t)
    BY <1>7, <1>8, <2>0
  <2> QED
    BY <1>0, <1>2, <1>3, <1>4, <2>1 DEF Bystanders
<1>10. OwnOK'
  BY <1>6, <1>9, OwnStep
<1>11. ObjOK'
  <2>1. ASSUME NEW g \in Entries, IsObj(g)'
        PROVE  \/ ptr'[g].anchor = Home[ptr'[g].key] /\ Settled(g)'
               \/ /\ ptr'[g] = ptr[g]
                  /\ Settled(g) => ptr[g].offset \in bitmap'[ptr[g].anchor]
                  /\ ~Source(t, g) /\ ~Fresh(t, g)
    <3>1. CASE g = i
      BY <1>0, <1>2, <1>3, <3>1 DEF Settled
    <3>2. CASE g # i
      <4>1. IsObj(g) /\ ptr'[g] = ptr[g]
        BY <1>0, <2>1 DEF IsObj
      <4>2. ptr[g].anchor \in Entries
        BY <4>1, ObjFacts
      <4> QED
        BY <1>0, <1>3, <3>2, <4>1, <4>2 DEF Settled, Source, Fresh, Relinked, i
    <3> QED
      BY <3>1, <3>2
  <2> QED
    BY <1>9, <2>1, ObjStep
<1>12. BitOK'
  <2>1. ASSUME NEW c \in Entries, NEW p \in bitmap'[c]
        PROVE  LET now == \/ IsObj(c + p)' /\ ptr'[c + p].anchor = c
                          \/ <<c, p>> \in notes' \cup stash'
               IN \/ c + p \in Entries /\ now
                  \/ /\ p \in bitmap[c]
                     /\ IsObj(c + p) \/ <<c, p>> \in notes \cup stash => now
                     /\ ~Target(t, c, p) /\ ~Emptied(t, c, p)
    <3>1. CASE p \in bitmap[c]
      <4>1. IsObj(c + p) => IsObj(c + p)' /\ ptr'[c + p].anchor = c
        BY <1>0, <3>1, BitFacts DEF IsObj
      <4> QED
        BY <1>0, <3>1, <4>1 DEF Target, Emptied
    <3>2. CASE c = b /\ p = i - b
      <4>1. c + p = i
        BY <1>2, <3>2
      <4> QED
        BY <1>0, <1>2, <3>2, <4>1 DEF IsObj
    <3> QED
      BY <1>8, <2>1, <3>1, <3>2
  <2> QED
    BY <1>9, <2>1, BitStep
<1>13. UniqueBits'
  <2>1. \A c \in Entries : \A o \in bitmap[c] : c + o # b + (i - b)
    BY <1>2
  <2> QED
    BY <1>2, <1>8, <2>1, UniqueGrow
<1>14. NoteOK'
  <2>1. ASSUME NEW c \in Entries, NEW p \in Offsets, <<c, p>> \in notes \cup stash
        PROVE  p \in bitmap'[c] /\ ptr'[c + p] = Null
    BY <1>0, <1>3, <2>1 DEF Core, NoteOK
  <2> QED
    BY <1>0, <2>1 DEF NoteOK, Core
<1>15. KeyOK'
  <2>1. \A g \in Entries : IsObj(g)' => IsObj(g) /\ ptr'[g] = ptr[g]
    BY <1>0 DEF IsObj
  <2> QED
    BY <1>0, <1>6, <1>9, <2>1, KeyStep
<1>16. LeakOK'
  BY <1>0, <1>9, LeakStep
<1> QED
  BY <1>4, <1>5, <1>6, <1>9, <1>10, <1>11, <1>12, <1>13, <1>14, <1>15, <1>16, CoreStep

\* The collector: nobody moves or inserts an object that nobody has pinned, so
\* the object's meta is right.
LEMMA Unpinned ==
  ASSUME Core, NEW e \in Entries, IsObj(e), \A t \in Threads : ptr[e].key \notin pinned[t]
  PROVE  Settled(e)
<1>1. \A t \in Threads : ~Source(t, e) /\ ~Fresh(t, e)
  BY SourceFacts
<1> QED
  BY <1>1 DEF Core, ObjOK

LEMMA EvictCore ==
  ASSUME Core, NEW e \in Entries, Evict(e)
  PROVE  Core'
<1> DEFINE A == ptr[e].anchor
           d == ptr[e].offset
<1>0. /\ ~IsNull(e) /\ \A t \in Threads : ptr[e].key \notin pinned[t]
      /\ ptr' = [ptr EXCEPT ![A + d] = Null]
      /\ stash = {} /\ notes' = notes \cup {<<A, d>>}
      /\ remote' = IF ptr[e].dirty THEN [remote EXCEPT ![ptr[e].key] = ptr[e].val] ELSE remote
      /\ UNCHANGED <<bitmap, spin, stash, pc, op, pinned, late, races>>
  BY DEF Evict
<1>1. /\ IsObj(e) /\ ptr[e].key \in Keys /\ ptr[e].val \in Vals
      /\ A \in Entries /\ A \in Nat /\ d \in Offsets /\ d \in Nat
  BY <1>0, ObjFacts
<1>2. A + d = e /\ d \in bitmap[A]
  BY <1>0, <1>1, Unpinned DEF Settled
<1> HIDE DEF A, d
<1>3. /\ ptr'[e] = Null /\ \A g \in Entries : g # e => ptr'[g] = ptr[g]
      /\ ptr' \in [Entries -> Objects \cup {Null, kBusyPtr}]
  BY <1>0, <1>2 DEF Core, Types
<1>4. remote' \in [Keys -> Vals \cup {None}]
  BY <1>0, <1>1 DEF Core, Types
<1>5. Types'
  BY <1>0, <1>1, <1>3, <1>4 DEF Core, Types, Metas
<1>6. Bystanders(None) /\ None \notin Threads
  BY <1>0, <1>1, <1>3, NoneAssumption DEF Bystanders
<1>7. OwnOK'
  BY <1>6, OwnStep
<1>8. \A g \in Entries : IsObj(g)' => g # e /\ ptr'[g] = ptr[g] /\ IsObj(g)
  BY <1>3, NullAssumption DEF IsObj
<1>9. ObjOK'
  <2>1. ASSUME NEW g \in Entries, IsObj(g)'
        PROVE  /\ ptr'[g] = ptr[g]
               /\ Settled(g) => ptr[g].offset \in bitmap'[ptr[g].anchor]
    BY <1>0, <1>8, <2>1 DEF Settled
  <2> QED
    BY <1>6, <2>1, ObjStep
<1>10. BitOK'
  <2>1. ASSUME NEW c \in Entries, NEW p \in bitmap'[c]
        PROVE  LET now == \/ IsObj(c + p)' /\ ptr'[c + p].anchor = c
                          \/ <<c, p>> \in notes' \cup stash'
               IN \/ c + p \in Entries /\ now
                  \/ /\ p \in bitmap[c]
                     /\ IsObj(c + p) \/ <<c, p>> \in notes \cup stash => now
    <3>1. p \in bitmap[c] /\ c + p \in Entries /\ p \in Nat /\ c \in Nat
      BY <1>0, <2>1, BitFacts
    <3>2. CASE c + p = e
      <4>1. c = A
        BY <1>1, <1>2, <3>1, <3>2 DEF Core, UniqueBits
      <4>2. p = d
        BY <1>1, <1>2, <3>1, <3>2, <4>1
      <4> QED
        BY <1>0, <3>1, <4>1, <4>2
    <3>3. CASE c + p # e
      <4>1. IsObj(c + p) => IsObj(c + p)' /\ ptr'[c + p].anchor = c
        BY <1>3, <3>1, <3>3, BitFacts DEF IsObj
      <4> QED
        BY <1>0, <3>1, <4>1
    <3> QED
      BY <3>2, <3>3
  <2> QED
    BY <1>6, <2>1, BitStep
<1>11. UniqueBits'
  BY <1>0, UniqueShrink
<1>12. NoteOK'
  <2>1. ASSUME NEW c \in Entries, NEW p \in Offsets, <<c, p>> \in notes' \cup stash'
        PROVE  p \in bitmap'[c] /\ ptr'[c + p] = Null
    <3>1. CASE <<c, p>> \in notes
      <4>1. p \in bitmap[c] /\ ptr[c + p] = Null
        BY <3>1 DEF Core, NoteOK
      <4>2. c + p \in Entries
        BY <4>1, BitFacts
      <4> QED
        BY <1>0, <1>3, <4>1, <4>2
    <3>2. CASE c = A /\ p = d
      BY <1>0, <1>2, <1>3, <3>2
    <3> QED
      BY <1>0, <2>1, <3>1, <3>2
  <2> QED
    BY <1>0, <2>1 DEF NoteOK
<1>13. KeyOK'
  BY <1>6, <1>8, KeyStep
<1>14. LeakOK'
  <2>1. \A g \in Entries : ptr'[g] = kBusyPtr => ptr[g] = kBusyPtr
    BY <1>3, NullAssumption
  <2> QED
    BY <1>0, <1>6, <2>1, LeakStep
<1> QED
  BY <1>5, <1>6, <1>7, <1>9, <1>10, <1>11, <1>12, <1>13, <1>14, CoreStep

-----------------------------------------------------------------------------
\* The invariant.

LEMMA InitCore == Init => Core
<1> SUFFICES ASSUME Init PROVE Core
  OBVIOUS
<1>1. PICK v \in Vals : ptr = [e \in Entries |->
        IF e \in DOMAIN Loaded
        THEN [key |-> Loaded[e], val |-> v, dirty |-> TRUE,
              anchor |-> Home[Loaded[e]], offset |-> e - Home[Loaded[e]]]
        ELSE Null]
  BY DEF Init
<1>2. /\ bitmap = [b \in Entries |-> {o \in Offsets : b + o \in DOMAIN Loaded
                                                      /\ Home[Loaded[b + o]] = b}]
      /\ spin = [e \in Entries |-> None] /\ stash = {} /\ notes = {}
      /\ remote = [k \in Keys |-> None] /\ pc = [t \in Threads |-> "idle"]
      /\ op = [t \in Threads |-> Idle] /\ pinned = [t \in Threads |-> {}] /\ late = {}
  BY DEF Init
<1>3. ASSUME NEW e \in DOMAIN Loaded
      PROVE  /\ e \in Entries /\ Loaded[e] \in Keys /\ Home[Loaded[e]] \in Homes
             /\ e - Home[Loaded[e]] \in Offsets /\ e \in Nat /\ Home[Loaded[e]] \in Nat
  BY LoadedAssumption, HomeAssumption, Sizes
<1>4. ASSUME NEW e \in DOMAIN Loaded
      PROVE  /\ ptr[e] \in Objects /\ ptr[e].key = Loaded[e]
             /\ ptr[e].anchor = Home[Loaded[e]] /\ ptr[e].offset = e - Home[Loaded[e]]
  BY <1>1, <1>3 DEF Objects
<1>5. \A e \in Entries : e \notin DOMAIN Loaded => ptr[e] = Null
  BY <1>1
<1>6. \A e \in Entries : IsObj(e) <=> e \in DOMAIN Loaded
  BY <1>4, <1>5, NullAssumption DEF IsObj
<1>7. ptr \in [Entries -> Objects \cup {Null, kBusyPtr}]
  <2>1. \A e \in Entries : ptr[e] \in Objects \cup {Null, kBusyPtr}
    BY <1>4, <1>5
  <2>2. ptr = [e \in Entries |-> ptr[e]]
    BY <1>1
  <2> QED
    BY <2>1, <2>2
<1>8. Types
  BY <1>2, <1>7, IdleType DEF Types
<1>9. ASSUME NEW t \in Threads PROVE OpOK(t) /\ LockOK(t) /\ MoveOK(t)
  <2>1. pc[t] = "idle" /\ op[t] = Idle
    BY <1>2
  <2>2. Idle.kind = "none" /\ Idle.idx \in Entries
    BY SizeAssumption DEF Idle, Entries, kNumEntries
  <2> QED
    BY <2>1, <2>2
    DEF OpOK, LockOK, MoveOK, HomeLocked, Moving, Relinked, Reading, Writing, Making
<1>10. OwnOK
  BY <1>2 DEF OwnOK, Owning
<1>11. ObjOK
  <2>1. ASSUME NEW e \in DOMAIN Loaded PROVE Settled(e) /\ ptr[e].anchor = Home[ptr[e].key]
    <3>1. Home[Loaded[e]] + (e - Home[Loaded[e]]) = e
      BY <1>3
    <3>2. Home[Loaded[e]] \in Entries
      BY <1>3, Sizes
    <3>3. e - Home[Loaded[e]] \in bitmap[Home[Loaded[e]]]
      BY <1>2, <1>3, <3>1, <3>2
    <3> QED
      BY <1>4, <3>1, <3>3 DEF Settled
  <2> QED
    BY <1>6, <2>1 DEF ObjOK
<1>12. \A b \in Entries : \A o \in bitmap[b] :
         o \in Offsets /\ b + o \in DOMAIN Loaded /\ Home[Loaded[b + o]] = b
  BY <1>2
<1>13. BitOK
  <2>1. ASSUME NEW b \in Entries, NEW o \in bitmap[b]
        PROVE  b + o \in Entries /\ IsObj(b + o) /\ ptr[b + o].anchor = b
    BY <1>3, <1>4, <1>6, <1>12
  <2> QED
    BY <2>1 DEF BitOK
<1>14. UniqueBits
  BY <1>12 DEF UniqueBits
<1>15. NoteOK
  BY <1>2 DEF NoteOK
<1>16. KeyOK
  <2>1. ASSUME NEW e \in Entries, NEW f \in Entries, IsObj(e), IsObj(f),
               ptr[e].key = ptr[f].key
        PROVE  e = f
    BY <1>4, <1>6, <2>1, LoadedAssumption DEF IsInjective
  <2> QED
    BY <1>2, <2>1 DEF KeyOK, Making, HomeLocked
<1>17. LeakOK
  BY <1>4, <1>5, NullAssumption DEF LeakOK
<1> QED
  BY <1>8, <1>9, <1>10, <1>11, <1>13, <1>14, <1>15, <1>16, <1>17 DEF Core

LEMMA PutStepCore ==
  ASSUME Core, NEW t \in Threads, PutStep(t), Sound'
  PROVE  Core'
BY LockBucketCore, ScanCore, WriteValCore, StashCore, ProbeCore, RoomCore, BugCore, DislodgeCore,
   TickCore, CopyPtrCore, ResetPtrCore, ClearBitCore, AllocateCore, PublishCore,
   RemoveRemoteCore
DEF PutStep

LEMMA GetStepCore ==
  ASSUME Core, NEW t \in Threads, GetStep(t)
  PROVE  Core'
BY ReadStampCore, ReadBitsCore, LookCore, CopyValCore, RecheckCore, LockSlowCore,
   ScanSlowCore, ForwardCore
DEF GetStep

LEMMA UnmoveRaces ==
  ASSUME NEW t \in Threads, Unmove(t)
  PROVE  ~Sound'
BY DEF Unmove, Race, Sound

LEMMA CollectorCore ==
  ASSUME Core, Collector, Sound'
  PROVE  Core'
BY EvictCore, NoteCore, RestashCore, UnmoveRaces DEF Collector

LEMMA StepCore ==
  ASSUME Core, Step, Sound'
  PROVE  Core'
<1>1. ASSUME NEW t \in Threads, Begin(t) PROVE Core'
  BY <1>1, StartCore
<1>2. ASSUME NEW t \in Threads, PutStep(t) PROVE Core'
  BY <1>2, PutStepCore
<1>3. ASSUME NEW t \in Threads, GetStep(t) PROVE Core'
  BY <1>3, GetStepCore
<1> QED
  BY <1>1, <1>2, <1>3, CollectorCore DEF Step

\* What has happened stays happened.
LEMMA RacesGrow ==
  ASSUME Step
  PROVE  races \subseteq races'
<1>1. ASSUME NEW t \in Threads, Begin(t) PROVE races \subseteq races'
  BY <1>1 DEF Begin, Start
<1>2. ASSUME NEW t \in Threads, PutStep(t) PROVE races \subseteq races'
  BY <1>2 DEF PutStep, LockBucket, Scan, WriteVal, Stash, Probe, Room, Bug, Dislodge, Tick,
              CopyPtr, ResetPtr, ClearBit, Allocate, Publish, RemoveRemote, Race
<1>3. ASSUME NEW t \in Threads, GetStep(t) PROVE races \subseteq races'
  BY <1>3 DEF GetStep, ReadStamp, ReadBits, Look, CopyVal, Recheck, LockSlow, ScanSlow,
              Forward, Race
<1>4. Collector => races \subseteq races'
  BY DEF Collector, Evict, Note, Restash, Unmove, Race
<1> QED
  BY <1>1, <1>2, <1>3, <1>4 DEF Step

LEMMA SoundBefore ==
  ASSUME Step, Sound'
  PROVE  Sound
BY RacesGrow DEF Sound

LEMMA CoreStutters ==
  ASSUME Core, UNCHANGED vars
  PROVE  Core'
<1>0. UNCHANGED <<bitmap, spin, ptr, stash, notes, remote, pc, op, pinned, late, races>>
  BY DEF vars, table
<1>1. Types'
  BY <1>0 DEF Core, Types
<1>2. Bystanders(None) /\ None \notin Threads
  BY <1>0, NoneAssumption DEF Bystanders
<1>3. OwnOK'
  BY <1>2, OwnStep
<1>4. ObjOK'
  <2>1. ASSUME NEW g \in Entries
        PROVE  ptr'[g] = ptr[g] /\ (Settled(g) => ptr[g].offset \in bitmap'[ptr[g].anchor])
    BY <1>0 DEF Settled
  <2> QED
    BY <1>2, <2>1, ObjStep
<1>5. BitOK' /\ UniqueBits' /\ NoteOK'
  <2>1. BitOK'
    <3>1. ASSUME NEW c \in Entries, NEW p \in bitmap'[c]
          PROVE  LET now == \/ IsObj(c + p)' /\ ptr'[c + p].anchor = c
                            \/ <<c, p>> \in notes' \cup stash'
                 IN /\ p \in bitmap[c]
                    /\ IsObj(c + p) \/ <<c, p>> \in notes \cup stash => now
      BY <1>0, BitFacts DEF IsObj
    <3> QED
      BY <1>2, <3>1, BitStep
  <2> QED
    BY <1>0, <2>1 DEF Core, UniqueBits, NoteOK
<1>6. KeyOK'
  <2>1. \A e \in Entries : IsObj(e)' => IsObj(e) /\ ptr'[e].key = ptr[e].key
    BY <1>0 DEF IsObj
  <2> QED
    BY <1>2, <2>1, KeyStep
<1>7. LeakOK'
  BY <1>0, <1>2, LeakStep
<1> QED
  BY <1>1, <1>2, <1>3, <1>4, <1>5, <1>6, <1>7, CoreStep

\* As long as none of the races that Sound names has happened, the table is as
\* described by Core: the inductive invariant.
THEOREM CoreHolds == Spec => [](Sound => Core)
<1>1. Init => (Sound => Core)
  BY InitCore
<1>2. (Sound => Core) /\ [Next]_vars => (Sound => Core)'
  <2> SUFFICES ASSUME Sound => Core, [Next]_vars, Sound'
               PROVE  Core'
    OBVIOUS
  <2>1. CASE Step
    BY <2>1, SoundBefore, StepCore
  <2>2. CASE UNCHANGED vars
    <3>1. Sound
      BY <2>2 DEF vars, Sound
    <3> QED
      BY <2>2, <3>1, CoreStutters
  <2> QED
    BY <2>1, <2>2 DEF Next, Finished
<1> QED
  BY <1>1, <1>2, PTL DEF Spec

LEMMA TornHolds == Spec => [](torn \subseteq Threads)
<1>1. Init => torn \subseteq Threads
  BY DEF Init
<1>2. torn \subseteq Threads /\ [Next]_vars => (torn \subseteq Threads)'
  BY DEF Next, Tear, Finished, vars
<1> QED
  BY <1>1, <1>2, PTL DEF Spec

LEMMA CoreTypes ==
  ASSUME Core, torn \subseteq Threads
  PROVE  TypeOK
<1>1. /\ bitmap \in [Entries -> SUBSET Offsets]
      /\ spin \in [Entries -> Threads \cup {None}]
      /\ stash \subseteq Metas /\ notes \subseteq Metas
      /\ remote \in [Keys -> Vals \cup {None}]
      /\ pc \in [Threads -> Reading \cup Writing \cup {"idle", "bug"}]
      /\ pinned \in [Threads -> SUBSET Keys] /\ late \subseteq Threads
  BY DEF Core, Types
<1>2. \A e \in Entries : IsNull(e) \/ ptr[e] \in Objects
  BY ObjFacts DEF IsObj
<1>3. ASSUME NEW t \in Threads
      PROVE  /\ op[t].key \in (IF pc[t] = "idle" THEN {None} ELSE Keys)
             /\ op[t].idx \in 0..kNumEntries /\ op[t].home \in 0..kNumEntries
             /\ op[t].dist \in Offsets /\ op[t].bits \subseteq Offsets
  <2>1. op[t].idx \in 0..kNumEntries /\ op[t].home \in 0..kNumEntries
    BY OpFacts, Sizes
  <2>2. pc[t] = "idle" => op[t].key = None
    BY DEF Core, OpOK, Idle
  <2>3. pc[t] # "idle" => op[t].key \in Keys
    BY DEF Core, OpOK, Key
  <2> QED
    BY <2>1, <2>2, <2>3, OpFacts
<1> QED
  BY <1>1, <1>2, <1>3 DEF TypeOK

\* Until one of those races happens, every variable keeps its type: an index
\* stays within the table, an object's anchor is a home bucket, a bit an offset.
THEOREM TypeCorrect == Spec => [](Sound => TypeOK)
<1>1. (Sound => Core) /\ torn \subseteq Threads => (Sound => TypeOK)
  BY CoreTypes
<1> QED
  BY <1>1, CoreHolds, TornHolds, PTL

\* A busy entry is reserved by an insertion in progress: _put and its retries
\* give back what they took, unless memory ran out.
THEOREM NothingLeaksHolds == Spec => []NothingLeaks
<1>1. (Sound => Core) => NothingLeaks
  <2> SUFFICES ASSUME Core, Alive, "leak" \notin races, NEW e \in Entries, ptr[e] = kBusyPtr
               PROVE  \E t \in Threads :
                        \/ op[t].idx = e /\ pc[t] \in {"room", "from", "tick", "copy", "alloc"}
                        \/ pc[t] = "clear" /\ From(t) = e
    BY DEF NothingLeaks
  <2>1. PICK t \in Threads : pc[t] \in Owning \ {"publish"} /\ Mine(t) = e
    BY DEF Core, LeakOK
  <2> QED
    BY <2>1 DEF Mine, Owning
<1> QED
  BY <1>1, CoreHolds, PTL

-----------------------------------------------------------------------------
\* The table as a map.  What it shows of its objects: all of them but those that
\* are being inserted, each once even while it is moved.

Shown == {e \in Entries : IsObj(e) /\ \A t \in Threads : ~Fresh(t, e)}
Content(o) == <<o.key, o.val, o.dirty>>
Cached == {Content(ptr[e]) : e \in Shown}

LEMMA MinOfNats ==
  ASSUME NEW S \in SUBSET Nat, S # {}
  PROVE  Min(S) \in S
<1>1. \E n \in S : \A m \in S : n <= m
  BY LeastNat
<1> QED
  BY <1>1 DEF Min

LEMMA ContentIs ==
  ASSUME NEW o \in Objects, NEW p \in Objects
  PROVE  Content(o) = Content(p) <=> o.key = p.key /\ o.val = p.val /\ o.dirty = p.dirty
BY DEF Content

\* A bit leads to no object that is being inserted.
LEMMA LinkedShown ==
  ASSUME Core, NEW b \in Entries, NEW o \in bitmap[b], IsObj(b + o)
  PROVE  b + o \in Shown /\ b = Home[ptr[b + o].key]
<1>1. b + o \in Entries /\ ptr[b + o].anchor = b
  BY BitFacts
<1>2. b = Home[ptr[b + o].key]
  BY <1>1, ObjFacts
<1>3. \A t \in Threads : ~Fresh(t, b + o)
  BY DEF Core, MoveOK, Fresh
<1> QED
  BY <1>1, <1>2, <1>3 DEF Shown

\* A bit of its home bucket leads to every other object.
LEMMA ShownLinked ==
  ASSUME Core, NEW e \in Shown
  PROVE  /\ e \in Entries /\ IsObj(e) /\ ptr[e].key \in Keys
         /\ Home[ptr[e].key] \in Entries
         /\ \E o \in bitmap[Home[ptr[e].key]] : e = Home[ptr[e].key] + o
<1>1. e \in Entries /\ IsObj(e)
  BY DEF Shown
<1>2. ptr[e].key \in Keys /\ ptr[e].anchor = Home[ptr[e].key] /\ ptr[e].anchor \in Entries
  BY <1>1, ObjFacts
<1>3. CASE Settled(e)
  BY <1>1, <1>2, <1>3 DEF Settled
<1>4. ASSUME NEW t \in Threads, Source(t, e)
      PROVE  \E o \in bitmap[ptr[e].anchor] : e = ptr[e].anchor + o
  <2>1. ptr[e].anchor = Anchor(t) /\ e = From(t) /\ pc[t] \in Moving
    BY <1>1, <1>4, SourceFacts
  <2> QED
    BY <2>1, MoveFacts
<1> QED
  BY <1>1, <1>2, <1>3, <1>4 DEF Core, ObjOK, Shown

LEMMA HoldingIs ==
  ASSUME Core, NEW k \in Keys
  PROVE  Holding(k) = {e \in Shown : ptr[e].key = k}
<1>0. Home[k] \in Entries
  BY HomeAssumption, Sizes
<1>1. ASSUME NEW e \in Holding(k) PROVE e \in Shown /\ ptr[e].key = k
  <2>1. PICK o \in bitmap[Home[k]] : e = Home[k] + o
    BY DEF Holding, Slots
  <2>2. ~IsNull(e) /\ ptr[e].key = k
    BY DEF Holding
  <2>3. IsObj(Home[k] + o)
    BY <1>0, <2>1, <2>2, BitFacts, ObjFacts
  <2> QED
    BY <1>0, <2>1, <2>2, <2>3, LinkedShown
<1>2. ASSUME NEW e \in Shown, ptr[e].key = k PROVE e \in Holding(k)
  <2>1. e \in Slots(Home[k]) /\ ~IsNull(e)
    BY <1>2, ShownLinked, ObjFacts DEF Slots
  <2> QED
    BY <1>2, <2>1 DEF Holding
<1> QED
  BY <1>1, <1>2 DEF Holding

\* The two copies of an object that is moved are the same.
LEMMA OneCopy ==
  ASSUME Core, NEW e \in Shown, NEW f \in Shown, ptr[e].key = ptr[f].key
  PROVE  ptr[e] = ptr[f]
<1>1. e \in Entries /\ f \in Entries /\ IsObj(e) /\ IsObj(f)
  BY DEF Shown
<1>2. CASE e # f
  <2>1. PICK u \in Threads : pc[u] = "reset" /\ {e, f} = {From(u), op[u].idx}
    BY <1>1, <1>2, PairLocked
  <2>2. ptr[op[u].idx] = ptr[From(u)]
    BY <2>1 DEF Core, MoveOK
  <2> QED
    BY <1>2, <2>1, <2>2
<1> QED
  BY <1>2

LEMMA LookupIs ==
  ASSUME Core, NEW k \in Keys
  PROVE  /\ \A e \in Shown : ptr[e].key = k => Lookup(k) = ptr[e].val
         /\ (\A e \in Shown : ptr[e].key # k) => Lookup(k) = remote[k]
<1> DEFINE H == Holding(k)
<1>1. H = {e \in Shown : ptr[e].key = k} /\ H \in SUBSET Nat
  BY HoldingIs, Sizes DEF Shown
<1>2. Lookup(k) = IF H # {} THEN ptr[Min(H)].val ELSE remote[k]
  BY DEF Lookup
<1> HIDE DEF H
<1>3. ASSUME NEW e \in Shown, ptr[e].key = k PROVE Lookup(k) = ptr[e].val
  <2>1. e \in H /\ H # {}
    BY <1>1, <1>3
  <2>2. Min(H) \in H
    BY <1>1, <2>1, MinOfNats
  <2>3. Min(H) \in Shown /\ ptr[Min(H)].key = k
    BY <1>1, <2>2
  <2>4. ptr[Min(H)] = ptr[e]
    BY <1>3, <2>3, OneCopy
  <2> QED
    BY <1>2, <2>1, <2>4
<1>4. (\A e \in Shown : ptr[e].key # k) => Lookup(k) = remote[k]
  BY <1>1, <1>2
<1> QED
  BY <1>3, <1>4

\* The same of the contents, in the form that is needed after a step, too.
CachedFacts ==
  /\ Cached \subseteq Keys \X Vals \X BOOLEAN
  /\ \A k \in Keys :
       /\ \A v, d : <<k, v, d>> \in Cached => Lookup(k) = v
       /\ (\A v, d : <<k, v, d>> \notin Cached) => Lookup(k) = remote[k]
  /\ \A k, v, w, c, d : <<k, v, c>> \in Cached /\ <<k, w, d>> \in Cached => v = w /\ c = d

LEMMA CachedIs == Core => CachedFacts
<1> SUFFICES ASSUME Core PROVE CachedFacts
  OBVIOUS
<1>1. ASSUME NEW e \in Shown
      PROVE  /\ ptr[e].key \in Keys /\ ptr[e].val \in Vals /\ ptr[e].dirty \in BOOLEAN
             /\ Content(ptr[e]) = <<ptr[e].key, ptr[e].val, ptr[e].dirty>>
  BY ObjFacts DEF Shown, Content
<1>2. Cached \subseteq Keys \X Vals \X BOOLEAN
  BY <1>1 DEF Cached
<1>3. ASSUME NEW k, NEW v, NEW d, <<k, v, d>> \in Cached
      PROVE  \E e \in Shown : ptr[e].key = k /\ ptr[e].val = v /\ ptr[e].dirty = d
  <2>1. PICK e \in Shown : <<k, v, d>> = Content(ptr[e])
    BY <1>3 DEF Cached
  <2> QED
    BY <1>1, <2>1
<1>4. ASSUME NEW k \in Keys, NEW v, NEW d, <<k, v, d>> \in Cached PROVE Lookup(k) = v
  BY <1>3, <1>4, LookupIs
<1>5. ASSUME NEW k \in Keys, \A v, d : <<k, v, d>> \notin Cached PROVE Lookup(k) = remote[k]
  <2>1. ASSUME NEW e \in Shown, ptr[e].key = k PROVE FALSE
    <3>1. <<k, ptr[e].val, ptr[e].dirty>> \in Cached
      BY <1>1, <2>1 DEF Cached
    <3> QED
      BY <1>5, <3>1
  <2> QED
    BY <2>1, LookupIs
<1>6. ASSUME NEW k, NEW v, NEW w, NEW c, NEW d, <<k, v, c>> \in Cached, <<k, w, d>> \in Cached
      PROVE  v = w /\ c = d
  <2>1. PICK e \in Shown : ptr[e].key = k /\ ptr[e].val = v /\ ptr[e].dirty = c
    BY <1>3, <1>6
  <2>2. PICK f \in Shown : ptr[f].key = k /\ ptr[f].val = w /\ ptr[f].dirty = d
    BY <1>3, <1>6
  <2>3. ptr[e] = ptr[f]
    BY <2>1, <2>2, OneCopy
  <2> QED
    BY <2>1, <2>2, <2>3
<1> QED
  BY <1>2, <1>4, <1>5, <1>6 DEF CachedFacts

LEMMA CachedIsNext == Core' => CachedFacts'
BY CachedIs, PTL

-----------------------------------------------------------------------------
\* What the steps leave alone.

\* A step of t is no step of the others, and leaves their pins alone.
Local(t) == \A u \in Threads \ {t} : pc'[u] = pc[u] /\ op'[u] = op[u] /\ pinned'[u] = pinned[u]

LEMMA GotoFacts ==
  ASSUME Core, NEW t \in Threads, NEW step, Goto(t, step)
  PROVE  pc'[t] = step /\ \A u \in Threads \ {t} : pc'[u] = pc[u]
BY DEF Goto, Core, Types

LEMMA PinFacts ==
  ASSUME Core, NEW t \in Threads, NEW keys, Pin(t, keys)
  PROVE  \A u \in Threads \ {t} : pinned'[u] = pinned[u]
BY DEF Pin, Core, Types

\* The same objects are shown, and nobody has come to the last step of a put or
\* of a remove.
Keeps ==
  /\ Cached' = Cached /\ remote' = remote
  /\ \A u \in Threads : pc'[u] = "remote" =>
       pc[u] = "remote" /\ op'[u] = op[u] /\ pinned'[u] = pinned[u]

LEMMA SameCache ==
  ASSUME \A e \in Shown : \E f \in Shown' : Content(ptr'[f]) = Content(ptr[e]),
         \A e \in Shown' : \E f \in Shown : Content(ptr[f]) = Content(ptr'[e])
  PROVE  Cached' = Cached
BY DEF Cached

\* No object comes, goes or changes, and no insertion begins or ends.
LEMMA QuietKeeps ==
  ASSUME NEW t \in Threads, Local(t), remote' = remote,
         \A e \in Entries : ptr'[e] = ptr[e] \/ (~IsObj(e) /\ ~IsObj(e)'),
         pc[t] # "publish", pc'[t] \notin {"publish", "remote"}
  PROVE  Keeps
<1>1. \A u \in Threads, e \in Entries : Fresh(u, e)' <=> Fresh(u, e)
  BY DEF Local, Fresh
<1>2. \A e \in Entries : /\ IsObj(e)' <=> IsObj(e)
                         /\ IsObj(e) => ptr'[e] = ptr[e]
  BY DEF IsObj
<1>3. Shown' = Shown /\ \A e \in Shown : ptr'[e] = ptr[e]
  BY <1>1, <1>2 DEF Shown
<1>4. Cached' = Cached
  BY <1>3, SameCache
<1> QED
  BY <1>4 DEF Keeps, Local

LEMMA StartKeeps ==
  ASSUME Core, NEW t \in Threads, Begin(t)
  PROVE  Local(t) /\ Keeps
<1>1. PICK kind \in {"put", "get", "remove"}, k \in Keys, v \in Vals \cup {None} :
        Start(t, kind, k, v)
  BY DEF Begin
<1>2. /\ pc[t] = "idle" /\ UNCHANGED <<ptr, remote, pinned>>
      /\ Goto(t, IF kind = "get" THEN "stamp" ELSE "lock")
      /\ \A u \in Threads \ {t} : op'[u] = op[u]
  BY <1>1 DEF Start, table, Core, Types
<1>3. pc'[t] \in {"stamp", "lock"} /\ \A u \in Threads \ {t} : pc'[u] = pc[u]
  BY <1>2, GotoFacts
<1>4. Local(t)
  BY <1>2, <1>3 DEF Local
<1> QED
  BY <1>2, <1>3, <1>4, QuietKeeps

LEMMA LockBucketKeeps ==
  ASSUME Core, NEW t \in Threads, LockBucket(t)
  PROVE  Local(t) /\ Keeps
<1>1. /\ pc[t] = "lock" /\ UNCHANGED <<ptr, remote, pinned>> /\ Goto(t, "scan")
      /\ \A u \in Threads \ {t} : op'[u] = op[u]
  BY DEF LockBucket, Core, Types
<1>2. pc'[t] = "scan" /\ \A u \in Threads \ {t} : pc'[u] = pc[u]
  BY <1>1, GotoFacts
<1>3. Local(t)
  BY <1>1, <1>2 DEF Local
<1> QED
  BY <1>1, <1>2, <1>3, QuietKeeps

LEMMA WriteValKeeps ==
  ASSUME Core, NEW t \in Threads, WriteVal(t)
  PROVE  Local(t) /\ Keeps
<1>1. pc[t] = "write" /\ UNCHANGED <<ptr, remote>> /\ Done(t)
  BY DEF WriteVal
<1>2. Local(t) /\ pc'[t] = "idle"
  BY <1>1, DoneFacts DEF Local
<1> QED
  BY <1>1, <1>2, QuietKeeps

LEMMA StashKeeps ==
  ASSUME Core, NEW t \in Threads, Stash(t)
  PROVE  Local(t) /\ Keeps
<1>0. pc[t] = "stash" /\ UNCHANGED <<remote, op, pinned>>
  BY DEF Stash
<1>1. CASE UNCHANGED pc /\ \E meta \in stash : ptr' = [ptr EXCEPT ![meta[1] + meta[2]] = Null]
  <2>1. PICK meta \in stash : ptr' = [ptr EXCEPT ![meta[1] + meta[2]] = Null]
    BY <1>1
  <2>2. ptr' = ptr
    BY <2>1, StillNull
  <2>3. Local(t)
    BY <1>0, <1>1 DEF Local
  <2> QED
    BY <1>0, <1>1, <2>2, <2>3, QuietKeeps
<1>2. CASE UNCHANGED ptr /\ Goto(t, IF Asking(t) THEN "stamp" ELSE "lock")
  <2>1. pc'[t] \in {"stamp", "lock"} /\ \A u \in Threads \ {t} : pc'[u] = pc[u]
    BY <1>2, GotoFacts
  <2>2. Local(t)
    BY <1>0, <2>1 DEF Local
  <2> QED
    BY <1>0, <1>2, <2>1, <2>2, QuietKeeps
<1> QED
  BY <1>1, <1>2 DEF Stash

LEMMA ProbeKeeps ==
  ASSUME Core, NEW t \in Threads, Probe(t)
  PROVE  Local(t) /\ Keeps
<1>0. pc[t] = "probe" /\ UNCHANGED <<remote, pinned>>
  BY DEF Probe
<1>1. CASE /\ ptr[op[t].idx] = Null /\ ptr' = [ptr EXCEPT ![op[t].idx] = kBusyPtr]
           /\ op' = [op EXCEPT ![t].dist = kNeighborhood - 1] /\ Goto(t, "room")
  <2>1. pc'[t] = "room" /\ \A u \in Threads \ {t} : pc'[u] = pc[u] /\ op'[u] = op[u]
    BY <1>1, GotoFacts DEF Core, Types
  <2>2. \A e \in Entries : ptr'[e] = ptr[e] \/ (ptr[e] = Null /\ ptr'[e] = kBusyPtr)
    BY <1>1 DEF Core, Types
  <2>3. \A e \in Entries : ptr'[e] = ptr[e] \/ (~IsObj(e) /\ ~IsObj(e)')
    BY <2>2, NullAssumption DEF IsObj
  <2>4. Local(t)
    BY <1>0, <2>1 DEF Local
  <2> QED
    BY <1>0, <2>1, <2>3, <2>4, QuietKeeps
<1>2. CASE UNCHANGED <<ptr, pc>> /\ op' = [op EXCEPT ![t].idx = @ + 1]
  <2>1. Local(t)
    BY <1>0, <1>2 DEF Local, Core, Types
  <2> QED
    BY <1>0, <1>2, <2>1, QuietKeeps
<1> QED
  BY <1>1, <1>2 DEF Probe

LEMMA RoomKeeps ==
  ASSUME Core, NEW t \in Threads, Room(t)
  PROVE  Local(t) /\ Keeps
<1>1. /\ pc[t] = "room" /\ UNCHANGED <<ptr, remote, pinned>>
      /\ pc' = pc \/ Goto(t, "alloc") \/ Goto(t, "from")
      /\ op' = op \/ op' = [op EXCEPT ![t].dist = @ - 1]
  BY DEF Room
<1>2. pc'[t] \in {"room", "alloc", "from"} /\ \A u \in Threads \ {t} : pc'[u] = pc[u]
  BY <1>1, GotoFacts
<1>3. \A u \in Threads \ {t} : op'[u] = op[u]
  BY <1>1 DEF Core, Types
<1>4. Local(t)
  BY <1>1, <1>2, <1>3 DEF Local
<1> QED
  BY <1>1, <1>2, <1>4, QuietKeeps

LEMMA BugTickKeeps ==
  ASSUME Core, NEW t \in Threads, Bug(t) \/ Tick(t)
  PROVE  Local(t) /\ Keeps
<1>1. /\ pc[t] \in {"probe", "room", "tick"} /\ UNCHANGED <<ptr, remote, op, pinned>>
      /\ Goto(t, "bug") \/ Goto(t, "copy")
  BY DEF Bug, Tick, table
<1>2. pc'[t] \in {"bug", "copy"} /\ \A u \in Threads \ {t} : pc'[u] = pc[u]
  BY <1>1, GotoFacts
<1>3. Local(t)
  BY <1>1, <1>2 DEF Local
<1> QED
  BY <1>1, <1>2, <1>3, QuietKeeps

LEMMA ClearBitKeeps ==
  ASSUME Core, NEW t \in Threads, ClearBit(t)
  PROVE  Local(t) /\ Keeps
<1>1. /\ pc[t] = "clear" /\ UNCHANGED <<ptr, remote, pinned>> /\ Goto(t, "room")
      /\ \A u \in Threads \ {t} : op'[u] = op[u]
  BY DEF ClearBit, Core, Types
<1>2. pc'[t] = "room" /\ \A u \in Threads \ {t} : pc'[u] = pc[u]
  BY <1>1, GotoFacts
<1>3. Local(t)
  BY <1>1, <1>2 DEF Local
<1> QED
  BY <1>1, <1>2, <1>3, QuietKeeps

LEMMA GetKeeps ==
  ASSUME Core, NEW t \in Threads, GetStep(t)
  PROVE  Local(t) /\ Keeps
<1>1. pc[t] \in Reading /\ UNCHANGED <<ptr, remote>>
  BY DEF GetStep, ReadStamp, ReadBits, Look, CopyVal, Recheck, LockSlow, ScanSlow, Forward,
         Reading, table
<1>2. CASE Done(t)
  <2>1. Local(t) /\ pc'[t] = "idle"
    BY <1>2, DoneFacts DEF Local
  <2> QED
    BY <1>1, <2>1, QuietKeeps DEF Reading
<1>3. CASE ~Done(t)
  <2>1. /\ \/ UNCHANGED pc
           \/ \E step \in {"bits", "look", "value", "recheck", "stash", "stamp", "slow",
                           "forward", "slowscan", "lock"} : Goto(t, step)
        /\ UNCHANGED pinned \/ \E keys : Pin(t, keys)
        /\ \/ UNCHANGED op
           \/ \E r : op' = [op EXCEPT ![t] = r]
    <3>1. CASE ReadStamp(t) \/ ReadBits(t)
      BY <3>1 DEF ReadStamp, ReadBits
    <3>2. CASE Look(t)
      BY <3>2 DEF Look, Restart
    <3>3. CASE Recheck(t) \/ LockSlow(t)
      BY <3>3 DEF Recheck, LockSlow
    <3>4. CASE ScanSlow(t) \/ Forward(t)
      BY <1>3, <3>4 DEF ScanSlow, Forward
    <3> QED
      BY <1>3, <3>1, <3>2, <3>3, <3>4 DEF GetStep, CopyVal
  <2>2. pc'[t] \notin {"publish", "remote"} /\ \A u \in Threads \ {t} : pc'[u] = pc[u]
    BY <1>1, <2>1, GotoFacts DEF Reading
  <2>3. \A u \in Threads \ {t} : op'[u] = op[u] /\ pinned'[u] = pinned[u]
    BY <2>1, PinFacts DEF Core, Types
  <2>4. Local(t)
    BY <2>2, <2>3 DEF Local
  <2> QED
    BY <1>1, <2>2, <2>4, QuietKeeps DEF Reading
<1> QED
  BY <1>2, <1>3

\* The rest of the collector's work: a bit is cleared, or a meta is stashed.
LEMMA NotesKeep ==
  ASSUME Core, NEW meta \in notes \cup stash, Note(meta) \/ Restash(meta)
  PROVE  Keeps /\ UNCHANGED <<pc, op, pinned, late, races>>
<1>1. UNCHANGED <<ptr, remote, pc, op, pinned, late, races>>
  <2>1. CASE Note(meta)
    BY <2>1 DEF Note
  <2>2. CASE Restash(meta)
    BY <2>2, StillNull DEF Restash
  <2> QED
    BY <2>1, <2>2
<1>2. Cached' = Cached
  BY <1>1 DEF Cached, Shown, IsObj, Fresh
<1> QED
  BY <1>1, <1>2 DEF Keeps

LEMMA DislodgeKeeps ==
  ASSUME Core, NEW t \in Threads, Dislodge(t)
  PROVE  Local(t) /\ Keeps
<1>0. pc[t] = "from" /\ pc[t] \in Moving /\ UNCHANGED remote
  BY DEF Dislodge, Moving
<1> DEFINE f == From(t)
           i == op[t].idx
<1>1. CASE ptr' = [ptr EXCEPT ![i] = Null] /\ Restart(t)
  <2>1. pc'[t] = "stash" /\ Local(t)
    BY <1>1, GotoFacts DEF Restart, Local
  <2>2. ptr[i] = kBusyPtr
    BY <1>0 DEF Core, MoveOK
  <2>3. \A e \in Entries : ptr'[e] = ptr[e] \/ (ptr[e] = kBusyPtr /\ ptr'[e] = Null)
    BY <1>1, <2>2 DEF Core, Types
  <2>4. \A e \in Entries : ptr'[e] = ptr[e] \/ (~IsObj(e) /\ ~IsObj(e)')
    BY <2>3, NullAssumption DEF IsObj
  <2> QED
    BY <1>0, <2>1, <2>4, QuietKeeps
<1>2. CASE /\ ~IsNull(f) /\ Pin(t, {ptr[f].key}) /\ Goto(t, "tick") /\ UNCHANGED op
           /\ ptr' = [ptr EXCEPT ![f].offset = op[t].dist]
  <2>1. pc'[t] = "tick" /\ Local(t)
    BY <1>2, GotoFacts, PinFacts DEF Local
  <2>2. f \in Entries /\ IsObj(f) /\ op[t].dist \in Offsets
    BY <1>0, <1>2, FromObj, MoveFacts, OpFacts
  <2>3. /\ ptr'[f] = [ptr[f] EXCEPT !.offset = op[t].dist]
        /\ \A g \in Entries : g # f => ptr'[g] = ptr[g]
    BY <1>2, <2>2 DEF Core, Types
  <2> HIDE DEF f
  <2>4. ptr'[f] \in Objects /\ Content(ptr'[f]) = Content(ptr[f])
    BY <2>2, <2>3 DEF IsObj, Objects, Content
  <2>5. \A g \in Entries : /\ IsObj(g)' <=> IsObj(g)
                           /\ IsObj(g) => Content(ptr'[g]) = Content(ptr[g])
    BY <2>2, <2>3, <2>4 DEF IsObj
  <2>6. \A u \in Threads, e \in Entries : Fresh(u, e)' <=> Fresh(u, e)
    BY <1>0, <2>1 DEF Local, Fresh
  <2>7. Shown' = Shown /\ \A e \in Shown : Content(ptr'[e]) = Content(ptr[e])
    BY <2>5, <2>6 DEF Shown
  <2>8. Cached' = Cached
    BY <2>7, SameCache
  <2> QED
    BY <1>0, <2>1, <2>8 DEF Keeps, Local
<1> QED
  BY <1>1, <1>2 DEF Dislodge

LEMMA CopyPtrKeeps ==
  ASSUME Core, NEW t \in Threads, CopyPtr(t)
  PROVE  Local(t) /\ Keeps
<1> DEFINE f == From(t)
           i == op[t].idx
<1>0. /\ pc[t] = "copy" /\ pc[t] \in Moving /\ UNCHANGED <<remote, op, pinned>>
      /\ Goto(t, "reset") /\ ptr' = [ptr EXCEPT ![i] = ptr[f]]
  BY DEF CopyPtr, Moving
<1>1. pc'[t] = "reset" /\ Local(t)
  BY <1>0, GotoFacts DEF Local
<1>2. f \in Entries /\ i \in Entries /\ Source(t, f) /\ ptr[i] = kBusyPtr
  BY <1>0, MoveFacts DEF Source, Relinked, Core, MoveOK
<1>3. IsObj(f) /\ ~IsObj(i) /\ spin[ptr[f].anchor] = t
  BY <1>2, SourceFacts, ObjFacts
<1>4. ptr'[i] = ptr[f] /\ \A g \in Entries : g # i => ptr'[g] = ptr[g]
  BY <1>0, <1>2 DEF Core, Types
<1> HIDE DEF f, i
<1>5. \A u \in Threads, e \in Entries : Fresh(u, e)' <=> Fresh(u, e)
  BY <1>0, <1>1 DEF Local, Fresh
<1>6. f \in Shown
  <2>1. ASSUME NEW u \in Threads, Fresh(u, f) PROVE FALSE
    <3>1. u = t
      BY <1>2, <1>3, <2>1, SourceFacts
    <3> QED
      BY <1>0, <2>1, <3>1 DEF Fresh
  <2> QED
    BY <1>2, <1>3, <2>1 DEF Shown
<1>7. \A g \in Entries : g # i => (IsObj(g)' <=> IsObj(g)) /\ ptr'[g] = ptr[g]
  BY <1>4 DEF IsObj
<1>8. \A g \in Entries : g # i => (g \in Shown' <=> g \in Shown)
  BY <1>5, <1>7 DEF Shown
<1>9. i \notin Shown /\ Shown \subseteq Entries /\ Shown' \subseteq Entries
  BY <1>3 DEF Shown
<1>10. \A e \in Shown : e \in Shown' /\ ptr'[e] = ptr[e]
  BY <1>4, <1>8, <1>9
<1>11. \A e \in Shown' : \E g \in Shown : ptr[g] = ptr'[e]
  BY <1>4, <1>6, <1>8, <1>9
<1>12. Cached' = Cached
  BY <1>10, <1>11, SameCache
<1> QED
  BY <1>0, <1>1, <1>12 DEF Keeps, Local

LEMMA ResetPtrKeeps ==
  ASSUME Core, NEW t \in Threads, ResetPtr(t)
  PROVE  Local(t) /\ Keeps
<1> DEFINE f == From(t)
           i == op[t].idx
<1>0. /\ pc[t] = "reset" /\ pc[t] \in Moving /\ UNCHANGED <<remote, op, pinned>>
      /\ Goto(t, "clear") /\ ptr' = [ptr EXCEPT ![f] = kBusyPtr]
  BY DEF ResetPtr, Moving
<1>1. pc'[t] = "clear" /\ Local(t)
  BY <1>0, GotoFacts DEF Local
<1>a. f \in Entries /\ i \in Entries /\ f # i
  BY <1>0, MoveFacts
<1>2. f \in Entries /\ i \in Entries /\ Source(t, f) /\ ptr[i] = ptr[f] /\ f # i
  BY <1>0, <1>a DEF Source, Relinked, Core, MoveOK
<1>3. IsObj(f) /\ IsObj(i) /\ spin[ptr[i].anchor] = t
  BY <1>2, SourceFacts DEF IsObj
<1>4. ptr'[f] = kBusyPtr /\ \A g \in Entries : g # f => ptr'[g] = ptr[g]
  BY <1>0, <1>2 DEF Core, Types
<1> HIDE DEF f, i
<1>5. \A u \in Threads, e \in Entries : Fresh(u, e)' <=> Fresh(u, e)
  BY <1>0, <1>1 DEF Local, Fresh
<1>6. i \in Shown
  <2>1. ASSUME NEW u \in Threads, Fresh(u, i) PROVE FALSE
    <3>1. u = t
      BY <1>2, <1>3, <2>1, SourceFacts
    <3> QED
      BY <1>0, <2>1, <3>1 DEF Fresh
  <2> QED
    BY <1>2, <1>3, <2>1 DEF Shown
<1>7. \A g \in Entries : g # f => (IsObj(g)' <=> IsObj(g)) /\ ptr'[g] = ptr[g]
  BY <1>4 DEF IsObj
<1>8. \A g \in Entries : g # f => (g \in Shown' <=> g \in Shown)
  BY <1>5, <1>7 DEF Shown
<1>9. f \notin Shown' /\ Shown \subseteq Entries /\ Shown' \subseteq Entries
  BY <1>4, NullAssumption DEF Shown, IsObj
<1>10. \A e \in Shown' : e \in Shown /\ ptr'[e] = ptr[e]
  BY <1>4, <1>8, <1>9
<1>11. \A e \in Shown : \E g \in Shown' : ptr'[g] = ptr[e]
  BY <1>2, <1>4, <1>6, <1>8, <1>9
<1>12. Cached' = Cached
  BY <1>10, <1>11, SameCache
<1> QED
  BY <1>0, <1>1, <1>12 DEF Keeps, Local

LEMMA AllocateKeeps ==
  ASSUME Core, NEW t \in Threads, Allocate(t)
  PROVE  Local(t) /\ Keeps
<1> DEFINE i == op[t].idx
<1>0. pc[t] = "alloc" /\ UNCHANGED <<remote, op>>
  BY DEF Allocate
<1>1. CASE Goto(t, "lock") /\ UNCHANGED <<ptr, pinned>>
  <2>1. pc'[t] = "lock" /\ Local(t)
    BY <1>0, <1>1, GotoFacts DEF Local
  <2> QED
    BY <1>0, <1>1, <2>1, QuietKeeps
<1>2. CASE Goto(t, "publish") /\ Pin(t, {Key(t)}) /\ \E o : ptr' = [ptr EXCEPT ![i] = o]
  <2>1. pc'[t] = "publish" /\ Local(t)
    BY <1>0, <1>2, GotoFacts, PinFacts DEF Local
  <2>2. ptr[i] = kBusyPtr /\ i \in Entries
    BY <1>0 DEF Core, MoveOK, OpOK
  <2>3. ~IsObj(i)
    BY <2>2, ObjFacts
  <2>4. \A g \in Entries : g # i => (IsObj(g)' <=> IsObj(g)) /\ ptr'[g] = ptr[g]
    BY <1>2 DEF IsObj, Core, Types
  <2>5. \A g \in Entries : (Fresh(t, g)' <=> g = i) /\ (g # i => ~Fresh(t, g))
    BY <1>0, <2>1 DEF Fresh
  <2>6. \A u \in Threads \ {t}, e \in Entries : Fresh(u, e)' <=> Fresh(u, e)
    BY <2>1 DEF Local, Fresh
  <2> HIDE DEF i
  <2>a. i \notin Shown /\ i \notin Shown' /\ Shown \subseteq Entries /\ Shown' \subseteq Entries
    BY <2>2, <2>3, <2>5 DEF Shown
  <2>b. \A g \in Entries : g # i => \A u \in Threads : Fresh(u, g)' <=> Fresh(u, g)
    BY <2>5, <2>6
  <2>c. \A g \in Entries : g # i => (g \in Shown' <=> g \in Shown)
    BY <2>4, <2>b DEF Shown
  <2>7. Shown' = Shown /\ \A e \in Shown : ptr'[e] = ptr[e]
    BY <2>4, <2>a, <2>c
  <2>8. Cached' = Cached
    BY <2>7, SameCache
  <2> QED
    BY <1>0, <2>1, <2>8 DEF Keeps, Local
<1> QED
  BY <1>1, <1>2 DEF Allocate

-----------------------------------------------------------------------------
\* The steps that change what the table shows or what the server has.

\* Key k has the contents S from now on, every other key what it had.
Becomes(k, S) == Cached' = {r \in Cached : r[1] # k} \cup S

\* e was or is the only entry that shows k.
LEMMA ChangeOne ==
  ASSUME NEW k, NEW e \in Entries,
         \A f \in Shown : f # e => f \in Shown' /\ ptr'[f] = ptr[f] /\ ptr[f].key # k,
         \A f \in Shown' : f # e => f \in Shown,
         e \in Shown => ptr[e].key = k
  PROVE  /\ e \in Shown' => Becomes(k, {Content(ptr'[e])})
         /\ e \notin Shown' => Becomes(k, {})
<1>1. \A f : Content(ptr[f])[1] = ptr[f].key
  BY DEF Content
<1>2. \A r : r \in Cached' <=> \E f \in Shown' : r = Content(ptr'[f])
  BY DEF Cached
<1>3. \A r : r \in Cached <=> \E f \in Shown : r = Content(ptr[f])
  BY DEF Cached
<1>4. \A r : r \in Cached /\ r[1] # k <=> \E f \in Shown : f # e /\ r = Content(ptr[f])
  BY <1>1, <1>3
<1>5. \A r : (\E f \in Shown : f # e /\ r = Content(ptr[f])) <=>
             (\E f \in Shown' : f # e /\ r = Content(ptr'[f]))
  OBVIOUS
<1>6. ASSUME e \in Shown' PROVE Cached' = {r \in Cached : r[1] # k} \cup {Content(ptr'[e])}
  BY <1>2, <1>4, <1>5, <1>6
<1>7. ASSUME e \notin Shown' PROVE Cached' = {r \in Cached : r[1] # k} \cup {}
  BY <1>2, <1>4, <1>5, <1>7
<1> QED
  BY <1>6, <1>7 DEF Becomes

\* A put has written or inserted its value.
Puts(t) ==
  /\ op[t].kind = "put" /\ Key(t) \in Keys /\ remote' = remote
  /\ Becomes(Key(t), {<<Key(t), op[t].val, TRUE>>})
  /\ Local(t) /\ (pc'[t] = "remote" => op'[t] = op[t])

\* A get has inserted what the server has.
SwapsIn(t) ==
  /\ Key(t) \in Keys /\ remote' = remote /\ remote[Key(t)] = op[t].val
  /\ ~Pending(Key(t)) /\ \A v, d : <<Key(t), v, d>> \notin Cached
  /\ Becomes(Key(t), {<<Key(t), op[t].val, FALSE>>})
  /\ Local(t) /\ pc'[t] = "idle"

\* A remove has taken its key out of the table, or has seen that it is not there.
TakesOut(t) ==
  /\ op[t].kind = "remove" /\ Key(t) \in Keys /\ remote' = remote
  /\ Becomes(Key(t), {}) /\ op' = op /\ pc'[t] = "remote"
  /\ \A u \in Threads \ {t} :
       /\ pc'[u] = pc[u] /\ pinned'[u] \subseteq pinned[u]
       /\ Key(t) \in pinned'[u] => \A v, d : <<Key(t), v, d>> \notin Cached

\* A put or a remove has removed its key at the server.
Ends(t) ==
  /\ op[t].kind \in {"put", "remove"} /\ Key(t) \in Keys /\ pc[t] = "remote"
  /\ op[t].kind = "put" => Key(t) \in pinned[t]
  /\ Cached' = Cached /\ remote' = [remote EXCEPT ![Key(t)] = None]
  /\ Local(t) /\ pc'[t] = "idle"

\* The collector has evicted a key nobody has pinned.
Evicts ==
  \E k \in Keys, v \in Vals, d \in BOOLEAN :
    /\ <<k, v, d>> \in Cached /\ \A u \in Threads : k \notin pinned[u]
    /\ Becomes(k, {}) /\ UNCHANGED <<pc, op, pinned>>
    /\ remote' = IF d THEN [remote EXCEPT ![k] = v] ELSE remote

LEMMA ScanKind ==
  ASSUME Core, NEW t \in Threads, Scan(t), Sound'
  PROVE  (Local(t) /\ Keeps) \/ Puts(t) \/ TakesOut(t)
<1> DEFINE b == Home_(t)
           k == Key(t)
           stop == Stops(b, k, FALSE)
           e == b + Min(stop)
<1>1. pc[t] = "scan" /\ UNCHANGED remote /\ Key(t) \in Keys
  BY DEF Scan, Core, OpOK
<1>2. CASE /\ Goto(t, "stash") \/ Goto(t, "probe")
           /\ Pin(t, Passed(b, k, FALSE)) /\ UNCHANGED <<ptr, op>>
  <2>1. pc'[t] \in {"stash", "probe"} /\ Local(t)
    BY <1>2, GotoFacts, PinFacts DEF Local
  <2> QED
    BY <1>1, <1>2, <2>1, QuietKeeps
<1>3. CASE /\ FoundAt(t, e) /\ op[t].kind # "remove"
           /\ ptr' = [ptr EXCEPT ![e].val = op[t].val, ![e].dirty = @ \/ ~Swap(t)]
           /\ Swap(t) => ptr[e].val = op[t].val
           /\ Copies(t)
  <2> HIDE DEF e
  <2>1. /\ e \in Entries /\ IsObj(e) /\ ptr[e].key = k
        /\ \A u \in Threads : ~Fresh(u, e)
        /\ \A f \in Entries : IsObj(f) /\ ptr[f].key = Key(t) => f = e
    BY <1>1, <1>3, Found
  <2>2. Local(t) /\ pc'[t] \in {"idle", "write"}
    BY <1>1, <1>3, CopiesFacts DEF Local
  <2>3. op[t].val \in Vals /\ op[t].kind \in {"put", "get"}
    BY <1>1, <1>3, OpFacts DEF Core, OpOK, Writing
  <2>4. /\ ptr'[e] = [ptr[e] EXCEPT !.val = op[t].val, !.dirty = ptr[e].dirty \/ ~Swap(t)]
        /\ \A f \in Entries : f # e => ptr'[f] = ptr[f]
    BY <1>3, <2>1 DEF Core, Types
  <2>5. /\ ptr'[e] \in Objects /\ ptr'[e].key = k /\ ptr'[e].val = op[t].val
        /\ ptr'[e].dirty = (ptr[e].dirty \/ ~Swap(t))
    <3>1. (ptr[e].dirty \/ ~Swap(t)) \in BOOLEAN
      OBVIOUS
    <3> QED
      BY <2>1, <2>3, <2>4, <3>1 DEF IsObj, Objects
  <2>6. \A u \in Threads, f \in Entries : Fresh(u, f)' <=> Fresh(u, f)
    BY <1>1, <2>2 DEF Local, Fresh
  <2>7. \A f \in Entries : (IsObj(f)' <=> IsObj(f))
    BY <2>1, <2>4, <2>5 DEF IsObj
  <2>8. Shown' = Shown /\ e \in Shown
    BY <2>1, <2>6, <2>7 DEF Shown
  <2>9. CASE Swap(t)
    <3>1. ptr'[e].dirty = ptr[e].dirty /\ ptr'[e].val = ptr[e].val
      BY <1>3, <2>1, <2>5, <2>9 DEF IsObj, Objects
    <3>2. Content(ptr'[e]) = Content(ptr[e])
      BY <2>1, <2>5, <3>1 DEF Content
    <3>3. \A f \in Shown : Content(ptr'[f]) = Content(ptr[f])
      BY <2>4, <3>2 DEF Shown
    <3>4. Cached' = Cached
      BY <2>8, <3>3, SameCache
    <3> QED
      BY <1>1, <2>2, <3>4 DEF Keeps, Local
  <2>10. CASE ~Swap(t)
    <3>1. op[t].kind = "put" /\ Content(ptr'[e]) = <<k, op[t].val, TRUE>>
      BY <2>3, <2>5, <2>10 DEF Swap, Content
    <3>2. \A f \in Shown : f # e => ptr'[f] = ptr[f] /\ ptr[f].key # k
      BY <2>1, <2>4 DEF Shown
    <3>3. Becomes(k, {Content(ptr'[e])})
      BY <2>1, <2>8, <3>2, ChangeOne
    <3> QED
      BY <1>1, <2>2, <3>1, <3>3 DEF Puts
  <2> QED
    BY <2>9, <2>10
<1>4. CASE /\ FoundAt(t, e) /\ op[t].kind = "remove" /\ ptr' = [ptr EXCEPT ![e] = Null]
           /\ pinned' = [u \in Threads |-> pinned[u] \ {k}] /\ Goto(t, "remote")
           /\ UNCHANGED op
  <2> HIDE DEF e
  <2>1. /\ e \in Entries /\ IsObj(e) /\ ptr[e].key = k
        /\ \A f \in Entries : IsObj(f) /\ ptr[f].key = Key(t) => f = e
    BY <1>1, <1>4, Found
  <2>2. pc'[t] = "remote" /\ \A u \in Threads \ {t} : pc'[u] = pc[u]
    BY <1>4, GotoFacts
  <2>3. \A u \in Threads : pinned'[u] \subseteq pinned[u] /\ k \notin pinned'[u]
    BY <1>4
  <2>4. ptr'[e] = Null /\ \A f \in Entries : f # e => ptr'[f] = ptr[f]
    BY <1>4, <2>1 DEF Core, Types
  <2>5. \A u \in Threads, f \in Entries : Fresh(u, f)' <=> Fresh(u, f)
    BY <1>1, <1>4, <2>2 DEF Fresh
  <2>6. \A f \in Entries : IsObj(f)' <=> IsObj(f) /\ f # e
    BY <2>4, NullAssumption DEF IsObj
  <2>7. /\ \A f \in Shown : f # e => f \in Shown' /\ ptr'[f] = ptr[f] /\ ptr[f].key # k
        /\ \A f \in Shown' : f # e => f \in Shown
        /\ e \notin Shown'
    BY <2>1, <2>4, <2>5, <2>6 DEF Shown
  <2>8. Becomes(k, {})
    BY <2>1, <2>7, ChangeOne
  <2> QED
    BY <1>1, <1>4, <2>2, <2>3, <2>8 DEF TakesOut
<1>5. CASE /\ stop = {} /\ op[t].kind = "remove" /\ Goto(t, "remote")
           /\ Pin(t, Passed(b, k, FALSE)) /\ UNCHANGED <<ptr, op>>
  <2>1. pc'[t] = "remote" /\ Local(t)
    BY <1>5, GotoFacts, PinFacts DEF Local
  <2>2. \A u \in Threads, f \in Entries : Fresh(u, f)' <=> Fresh(u, f)
    BY <1>1, <2>1 DEF Local, Fresh
  <2>3. Shown' = Shown
    BY <1>5, <2>2 DEF Shown, IsObj
  <2>4. Cached' = Cached
    BY <1>5, <2>3, SameCache
  <2>5. \A f \in Shown : ptr[f].key # k
    BY <1>1, <1>5, ScanMisses DEF Shown
  <2>6. \A r \in Cached : r[1] # k
    BY <2>5 DEF Cached, Content
  <2>7. Becomes(k, {}) /\ \A v, d : <<k, v, d>> \notin Cached
    BY <2>4, <2>6 DEF Becomes
  <2> QED
    BY <1>1, <1>5, <2>1, <2>7 DEF TakesOut, Local
<1>6. Race(IF Swap(t) /\ (ptr[e].val # op[t].val \/ Pending(k)) THEN {"stale_forward"} ELSE {})
        => (Swap(t) => ptr[e].val = op[t].val)
  BY DEF Race, Sound
<1> QED
  BY <1>2, <1>3, <1>4, <1>5, <1>6 DEF Scan, FoundAt, Copies

LEMMA PublishKind ==
  ASSUME Core, NEW t \in Threads, Publish(t), Sound'
  PROVE  Puts(t) \/ SwapsIn(t)
<1> DEFINE i == op[t].idx
           k == Key(t)
<1>1. pc[t] = "publish" /\ UNCHANGED <<ptr, remote>>
  BY DEF Publish
<1>2. /\ ptr[i] = [key |-> k, val |-> op[t].val, dirty |-> ~Swap(t), anchor |-> Home_(t),
                   offset |-> i - Home_(t)]
      /\ i \in Entries /\ k \in Keys /\ op[t].kind \in {"put", "get"} /\ Fresh(t, i)
  BY <1>1 DEF Core, MoveOK, OpOK, Making, HomeLocked, Fresh
<1>3. ptr[i].key = k /\ Content(ptr[i]) = <<k, op[t].val, ~Swap(t)>>
  BY <1>2 DEF Content
<1>4. IsObj(i) /\ spin[ptr[i].anchor] = t
  BY <1>2, SourceFacts
<1>5. pc'[t] \in {"idle", "remote"} /\ Local(t)
  BY GotoFacts, DoneFacts DEF Publish, Local
<1> HIDE DEF i
<1>6. \A g \in Entries : (Fresh(t, g) <=> g = i) /\ ~Fresh(t, g)'
  BY <1>1, <1>5 DEF Fresh, i
<1>7. \A u \in Threads \ {t}, g \in Entries : Fresh(u, g)' <=> Fresh(u, g)
  BY <1>5 DEF Local, Fresh
<1>8. \A u \in Threads \ {t} : ~Fresh(u, i)
  BY <1>2, <1>4, SourceFacts
<1>9. \A g \in Entries : IsObj(g)' <=> IsObj(g)
  BY <1>1 DEF IsObj
<1>10. i \notin Shown /\ i \in Shown'
  BY <1>2, <1>4, <1>6, <1>7, <1>8, <1>9 DEF Shown
<1>11. \A g \in Entries : g # i => (g \in Shown' <=> g \in Shown)
  BY <1>6, <1>7, <1>9 DEF Shown
<1>12. \A g \in Shown : ptr[g].key # k
  <2> SUFFICES ASSUME NEW g \in Shown, ptr[g].key = k PROVE FALSE
    OBVIOUS
  <2>1. g \in Entries /\ IsObj(g) /\ g # i
    BY <1>10 DEF Shown
  <2>2. PICK u \in Threads : pc[u] = "reset" /\ spin[ptr[i].anchor] = u
    BY <1>2, <1>3, <1>4, <2>1, PairLocked
  <2> QED
    BY <1>1, <1>4, <2>2
<1>13. Becomes(k, {Content(ptr'[i])})
  <2>1. Shown \subseteq Entries /\ Shown' \subseteq Entries
    BY DEF Shown
  <2> QED
    BY <1>1, <1>2, <1>10, <1>11, <1>12, <2>1, ChangeOne
<1>14. \A v, d : <<k, v, d>> \notin Cached
  BY <1>12 DEF Cached, Content
<1>15. CASE Swap(t)
  <2>1. Done(t) /\ Lookup(k) = op[t].val /\ ~Pending(k)
    BY <1>15 DEF Publish, Race, Sound
  <2>2. remote[k] = op[t].val
    BY <1>2, <1>12, <2>1, LookupIs
  <2>3. pc'[t] = "idle"
    BY <2>1, DoneFacts
  <2>4. Content(ptr'[i]) = <<k, op[t].val, FALSE>>
    BY <1>1, <1>3, <1>15
  <2> QED
    BY <1>1, <1>2, <1>5, <1>13, <1>14, <2>1, <2>2, <2>3, <2>4 DEF SwapsIn
<1>16. CASE ~Swap(t)
  <2>1. op[t].kind = "put" /\ op' = op
    BY <1>2, <1>16 DEF Publish, Swap
  <2>2. Content(ptr'[i]) = <<k, op[t].val, TRUE>>
    BY <1>1, <1>3, <1>16
  <2> QED
    BY <1>1, <1>2, <1>5, <1>13, <2>1, <2>2 DEF Puts
<1> QED
  BY <1>15, <1>16

LEMMA RemoveRemoteKind ==
  ASSUME Core, NEW t \in Threads, RemoveRemote(t), Sound'
  PROVE  Ends(t)
<1>1. /\ pc[t] = "remote" /\ Done(t) /\ UNCHANGED ptr
      /\ remote' = [remote EXCEPT ![Key(t)] = None]
  BY DEF RemoveRemote
<1>2. Key(t) \in Keys /\ op[t].kind \in {"put", "remove"}
  BY <1>1 DEF Core, OpOK
<1>3. op[t].kind = "put" => Key(t) \in pinned[t]
  BY DEF RemoveRemote, Race, Sound
<1>4. Local(t) /\ pc'[t] = "idle"
  BY <1>1, DoneFacts DEF Local
<1>5. \A u \in Threads, f \in Entries : Fresh(u, f)' <=> Fresh(u, f)
  BY <1>1, <1>4 DEF Local, Fresh
<1>6. Shown' = Shown
  BY <1>1, <1>5 DEF Shown, IsObj
<1>7. Cached' = Cached
  BY <1>1, <1>6, SameCache
<1> QED
  BY <1>1, <1>2, <1>3, <1>4, <1>7 DEF Ends

LEMMA EvictKind ==
  ASSUME Core, NEW e \in Entries, Evict(e)
  PROVE  Evicts /\ Becomes(ptr[e].key, {})
<1>1. /\ ~IsNull(e) /\ \A t \in Threads : ptr[e].key \notin pinned[t]
      /\ ptr' = [ptr EXCEPT ![ptr[e].anchor + ptr[e].offset] = Null]
      /\ remote' = IF ptr[e].dirty THEN [remote EXCEPT ![ptr[e].key] = ptr[e].val] ELSE remote
      /\ UNCHANGED <<pc, op, pinned>>
  BY DEF Evict
<1>2. /\ IsObj(e) /\ ptr[e].key \in Keys /\ ptr[e].val \in Vals /\ ptr[e].dirty \in BOOLEAN
  BY <1>1, ObjFacts
<1>3. ptr[e].anchor + ptr[e].offset = e
  BY <1>1, <1>2, Unpinned DEF Settled
<1>4. ptr'[e] = Null /\ \A f \in Entries : f # e => ptr'[f] = ptr[f]
  BY <1>1, <1>3 DEF Core, Types
<1>5. \A u \in Threads, f \in Entries : Fresh(u, f)' <=> Fresh(u, f)
  BY <1>1 DEF Fresh
<1>6. \A f \in Entries : IsObj(f)' <=> IsObj(f) /\ f # e
  BY <1>2, <1>4, NullAssumption DEF IsObj
<1>7. e \in Shown
  <2>1. \A u \in Threads : ~Fresh(u, e)
    BY <1>1, SourceFacts
  <2> QED
    BY <1>2, <2>1 DEF Shown
<1>8. \A f \in Entries : IsObj(f) /\ f # e => ptr[f].key # ptr[e].key
  <2> SUFFICES ASSUME NEW f \in Entries, IsObj(f), f # e, ptr[f].key = ptr[e].key PROVE FALSE
    OBVIOUS
  <2>1. PICK u \in Threads : pc[u] = "reset" /\ {e, f} = {From(u), op[u].idx}
    BY <1>2, PairLocked
  <2>2. Source(u, From(u)) /\ From(u) \in {e, f}
    BY <2>1 DEF Source, Relinked
  <2>3. ptr[e].key \in pinned[u]
    BY <2>1, <2>2, SourceFacts
  <2> QED
    BY <1>1, <2>3
<1>9. /\ \A f \in Shown : f # e => f \in Shown' /\ ptr'[f] = ptr[f] /\ ptr[f].key # ptr[e].key
      /\ \A f \in Shown' : f # e => f \in Shown
      /\ e \notin Shown'
  BY <1>4, <1>5, <1>6, <1>8 DEF Shown
<1>10. Becomes(ptr[e].key, {})
  BY <1>9, ChangeOne
<1>11. <<ptr[e].key, ptr[e].val, ptr[e].dirty>> \in Cached
  BY <1>7 DEF Cached, Content
<1> QED
  BY <1>1, <1>2, <1>10, <1>11 DEF Evicts

LEMMA PutKinds ==
  ASSUME Core, NEW t \in Threads, PutStep(t), Sound'
  PROVE  (Local(t) /\ Keeps) \/ Puts(t) \/ SwapsIn(t) \/ TakesOut(t) \/ Ends(t)
BY LockBucketKeeps, ScanKind, WriteValKeeps, StashKeeps, ProbeKeeps, RoomKeeps,
   BugTickKeeps, DislodgeKeeps, CopyPtrKeeps, ResetPtrKeeps, ClearBitKeeps, AllocateKeeps, PublishKind,
   RemoveRemoteKind
DEF PutStep

LEMMA StepKinds ==
  ASSUME Core, Step, Sound'
  PROVE  \/ Keeps \/ Evicts
         \/ \E t \in Threads : Puts(t) \/ SwapsIn(t) \/ TakesOut(t) \/ Ends(t)
<1>1. ASSUME NEW t \in Threads, Begin(t) \/ GetStep(t) PROVE Keeps
  BY <1>1, StartKeeps, GetKeeps
<1>2. ASSUME NEW t \in Threads, PutStep(t)
      PROVE  Keeps \/ Puts(t) \/ SwapsIn(t) \/ TakesOut(t) \/ Ends(t)
  BY <1>2, PutKinds
<1>3. Collector => Keeps \/ Evicts
  BY EvictKind, NotesKeep, UnmoveRaces DEF Collector
<1> QED
  BY <1>1, <1>2, <1>3 DEF Step

-----------------------------------------------------------------------------
\* The cached part and the server's.

\* A clean object says what the server has; while a put or a remove has still to
\* remove its key at the server, the key is dirty if it is in the table, and what
\* a put has inserted is there if it is pinned.
CleanOK ==
  /\ \A k, v : <<k, v, FALSE>> \in Cached => remote[k] = v
  /\ \A t \in Threads : pc[t] = "remote" =>
       /\ \A v : <<Key(t), v, FALSE>> \notin Cached
       /\ op[t].kind = "put" /\ Key(t) \in pinned[t] => \E v : <<Key(t), v, TRUE>> \in Cached

LEMMA CachedCases ==
  ASSUME CachedFacts, NEW k \in Keys
  PROVE  \/ \E v : <<k, v, TRUE>> \in Cached /\ Lookup(k) = v
         \/ \E v : <<k, v, FALSE>> \in Cached /\ Lookup(k) = v
         \/ (\A v, d : <<k, v, d>> \notin Cached) /\ Lookup(k) = remote[k]
<1>1. ASSUME NEW v, NEW d, <<k, v, d>> \in Cached
      PROVE  (d = TRUE \/ d = FALSE) /\ Lookup(k) = v
  BY <1>1 DEF CachedFacts
<1> QED
  BY <1>1 DEF CachedFacts

LEMMA LookupKept ==
  ASSUME CachedFacts, CachedFacts', NEW k \in Keys, remote'[k] = remote[k],
         \A v, d : <<k, v, d>> \in Cached' <=> <<k, v, d>> \in Cached
  PROVE  Lookup(k)' = Lookup(k)
BY DEF CachedFacts

\* A put that has written or inserted its value.
LEMMA PutsRight ==
  ASSUME CachedFacts, CachedFacts', CleanOK, NEW t \in Threads, Puts(t)
  PROVE  CleanOK' /\ OnlyByOps
<1> DEFINE k == Key(t)
           w == op[t].val
<1>1. /\ k \in Keys /\ op[t].kind = "put" /\ remote' = remote
      /\ pc'[t] = "remote" => op'[t] = op[t]
      /\ \A u \in Threads \ {t} : pc'[u] = pc[u] /\ op'[u] = op[u] /\ pinned'[u] = pinned[u]
  BY DEF Puts, Local
<1> HIDE DEF k, w
<1>a. Cached' = {r \in Cached : r[1] # k} \cup {<<k, w, TRUE>>}
  BY DEF Puts, Becomes, k, w
<1>2. \A j, v, d : <<j, v, d>> \in Cached' <=>
              (<<j, v, d>> \in Cached /\ j # k) \/ (j = k /\ v = w /\ d = TRUE)
  BY <1>a
<1>3. /\ \A j, v, d : j # k => (<<j, v, d>> \in Cached' <=> <<j, v, d>> \in Cached)
      /\ <<k, w, TRUE>> \in Cached' /\ \A v : <<k, v, FALSE>> \notin Cached'
  BY <1>2
<1>4. CleanOK'
  <2>1. \A j, v : <<j, v, FALSE>> \in Cached' => remote'[j] = v
    BY <1>1, <1>3 DEF CleanOK
  <2>2. ASSUME NEW u \in Threads, pc'[u] = "remote"
        PROVE  /\ \A v : <<Key(u)', v, FALSE>> \notin Cached'
               /\ op'[u].kind = "put" /\ Key(u)' \in pinned'[u] =>
                    \E v : <<Key(u)', v, TRUE>> \in Cached'
    <3>1. CASE Key(u)' = k
      BY <1>3, <3>1
    <3>2. CASE Key(u)' # k
      <4>1. u # t
        BY <1>1, <2>2, <3>2 DEF Key, k
      <4>2. pc[u] = "remote" /\ Key(u)' = Key(u) /\ pinned'[u] = pinned[u] /\ op'[u] = op[u]
        BY <1>1, <2>2, <4>1 DEF Key
      <4> QED
        BY <1>3, <3>2, <4>2 DEF CleanOK
    <3> QED
      BY <3>1, <3>2
  <2> QED
    BY <2>1, <2>2 DEF CleanOK
<1>5. OnlyByOps
  <2> SUFFICES ASSUME NEW j \in Keys, Lookup(j)' # Lookup(j)
               PROVE  op[t].key = j /\ op[t].kind = "put" /\ Lookup(j)' = op[t].val
    BY DEF OnlyByOps, ByItsOps
  <2>1. j = k
    BY <1>1, <1>3, LookupKept
  <2>2. Lookup(j)' = w
    BY <1>1, <1>3, <2>1 DEF CachedFacts
  <2> QED
    BY <1>1, <2>1, <2>2 DEF Key, k, w
<1> QED
  BY <1>4, <1>5

\* A get that has inserted what the server has.
LEMMA SwapsInRight ==
  ASSUME CachedFacts, CachedFacts', CleanOK, NEW t \in Threads, SwapsIn(t)
  PROVE  CleanOK' /\ OnlyByOps
<1> DEFINE k == Key(t)
           w == op[t].val
<1>1. /\ k \in Keys /\ remote' = remote /\ remote[k] = w /\ ~Pending(k) /\ pc'[t] = "idle"
      /\ \A v, d : <<k, v, d>> \notin Cached
      /\ \A u \in Threads \ {t} : pc'[u] = pc[u] /\ op'[u] = op[u] /\ pinned'[u] = pinned[u]
  BY DEF SwapsIn, Local
<1> HIDE DEF k, w
<1>a. Cached' = {r \in Cached : r[1] # k} \cup {<<k, w, FALSE>>}
  BY DEF SwapsIn, Becomes, k, w
<1>2. \A j, v, d : <<j, v, d>> \in Cached' <=>
              (<<j, v, d>> \in Cached /\ j # k) \/ (j = k /\ v = w /\ d = FALSE)
  BY <1>a
<1>3. /\ \A j, v, d : j # k => (<<j, v, d>> \in Cached' <=> <<j, v, d>> \in Cached)
      /\ <<k, w, FALSE>> \in Cached' /\ \A v : <<k, v, FALSE>> \in Cached' => v = w
  BY <1>2
<1>4. CleanOK'
  <2>1. ASSUME NEW j, NEW v, <<j, v, FALSE>> \in Cached' PROVE remote'[j] = v
    BY <1>1, <1>3, <2>1 DEF CleanOK
  <2>2. ASSUME NEW u \in Threads, pc'[u] = "remote"
        PROVE  /\ \A v : <<Key(u)', v, FALSE>> \notin Cached'
               /\ op'[u].kind = "put" /\ Key(u)' \in pinned'[u] =>
                    \E v : <<Key(u)', v, TRUE>> \in Cached'
    <3>1. u # t /\ pc[u] = "remote" /\ Key(u)' = Key(u) /\ pinned'[u] = pinned[u] /\ op'[u] = op[u]
      BY <1>1, <2>2 DEF Key
    <3>2. Key(u) # k
      BY <1>1, <3>1 DEF Pending, Key
    <3> QED
      BY <1>3, <3>1, <3>2 DEF CleanOK
  <2> QED
    BY <2>1, <2>2 DEF CleanOK
<1>5. OnlyByOps
  <2> SUFFICES ASSUME NEW j \in Keys PROVE Lookup(j)' = Lookup(j)
    BY DEF OnlyByOps, ByItsOps
  <2>1. CASE j = k
    BY <1>1, <1>3, <2>1 DEF CachedFacts
  <2>2. CASE j # k
    BY <1>1, <1>3, <2>2, LookupKept
  <2> QED
    BY <2>1, <2>2
<1> QED
  BY <1>4, <1>5

\* A remove that has taken its key out of the table.
LEMMA TakesOutRight ==
  ASSUME CachedFacts, CachedFacts', CleanOK, NEW t \in Threads, TakesOut(t)
  PROVE  CleanOK' /\ OnlyByOps
<1> DEFINE k == Key(t)
<1>1. /\ k \in Keys /\ op[t].kind = "remove" /\ remote' = remote /\ op' = op
      /\ \A u \in Threads \ {t} :
           /\ pc'[u] = pc[u] /\ pinned'[u] \subseteq pinned[u]
           /\ k \in pinned'[u] => \A v, d : <<k, v, d>> \notin Cached
  BY DEF TakesOut
<1>a. Cached' = {r \in Cached : r[1] # k} \cup {}
  BY DEF TakesOut, Becomes
<1>2. \A j, v, d : <<j, v, d>> \in Cached' <=> <<j, v, d>> \in Cached /\ j # k
  BY <1>a
<1>3. CleanOK'
  <2>1. \A j, v : <<j, v, FALSE>> \in Cached' => remote'[j] = v
    BY <1>1, <1>2 DEF CleanOK
  <2>2. ASSUME NEW u \in Threads, pc'[u] = "remote"
        PROVE  /\ \A v : <<Key(u)', v, FALSE>> \notin Cached'
               /\ op'[u].kind = "put" /\ Key(u)' \in pinned'[u] =>
                    \E v : <<Key(u)', v, TRUE>> \in Cached'
    <3>1. Key(u)' = Key(u) /\ op'[u] = op[u]
      BY <1>1 DEF Key
    <3>2. CASE u = t
      BY <1>1, <1>2, <3>1, <3>2
    <3>3. CASE u # t
      <4>1. pc[u] = "remote" /\ pinned'[u] \subseteq pinned[u]
        BY <1>1, <2>2, <3>3
      <4>2. op[u].kind = "put" /\ Key(u) \in pinned'[u] =>
              Key(u) # k /\ \E v : <<Key(u), v, TRUE>> \in Cached
        BY <1>1, <3>3, <4>1 DEF CleanOK
      <4> QED
        BY <1>2, <3>1, <4>1, <4>2 DEF CleanOK
    <3> QED
      BY <3>2, <3>3
  <2> QED
    BY <2>1, <2>2 DEF CleanOK
<1>4. OnlyByOps
  <2> SUFFICES ASSUME NEW j \in Keys, Lookup(j)' # Lookup(j)
               PROVE  op[t].key = j /\ op[t].kind = "remove" /\ Lookup(j)' = remote[j]
    BY DEF OnlyByOps, ByItsOps
  <2>1. j = k
    BY <1>1, <1>2, LookupKept
  <2>2. Lookup(j)' = remote'[j]
    BY <1>1, <1>2, <2>1 DEF CachedFacts
  <2> QED
    BY <1>1, <2>1, <2>2 DEF Key
<1> QED
  BY <1>3, <1>4

\* A put or a remove that has removed its key at the server.
LEMMA EndsRight ==
  ASSUME CachedFacts, CachedFacts', CleanOK, NEW t \in Threads, Ends(t),
         remote \in [Keys -> Vals \cup {None}]
  PROVE  CleanOK' /\ OnlyByOps
<1> DEFINE k == Key(t)
<1>1. /\ k \in Keys /\ op[t].kind \in {"put", "remove"} /\ pc[t] = "remote"
      /\ op[t].kind = "put" => k \in pinned[t]
      /\ Cached' = Cached /\ remote'[k] = None /\ \A j \in Keys : j # k => remote'[j] = remote[j]
      /\ \A u \in Threads \ {t} : pc'[u] = pc[u] /\ op'[u] = op[u] /\ pinned'[u] = pinned[u]
      /\ pc'[t] = "idle"
  BY DEF Ends, Local
<1>2. CleanOK'
  <2>1. ASSUME NEW j, NEW v, <<j, v, FALSE>> \in Cached' PROVE remote'[j] = v
    <3>1. j \in Keys /\ j # k
      BY <1>1, <2>1 DEF CachedFacts, CleanOK
    <3> QED
      BY <1>1, <2>1, <3>1 DEF CleanOK
  <2>2. ASSUME NEW u \in Threads, pc'[u] = "remote"
        PROVE  /\ \A v : <<Key(u)', v, FALSE>> \notin Cached'
               /\ op'[u].kind = "put" /\ Key(u)' \in pinned'[u] =>
                    \E v : <<Key(u)', v, TRUE>> \in Cached'
    <3>1. u # t /\ pc[u] = "remote" /\ Key(u)' = Key(u) /\ pinned'[u] = pinned[u] /\ op'[u] = op[u]
      BY <1>1, <2>2 DEF Key
    <3> QED
      BY <1>1, <3>1 DEF CleanOK
  <2> QED
    BY <2>1, <2>2 DEF CleanOK
<1>3. OnlyByOps
  <2> SUFFICES ASSUME NEW j \in Keys, Lookup(j)' # Lookup(j)
               PROVE  op[t].key = j /\ op[t].kind = "remove" /\ Lookup(j)' = None
    BY DEF OnlyByOps, ByItsOps
  <2>1. j = k
    BY <1>1, LookupKept
  <2>2. \A v, d : <<k, v, d>> \notin Cached
    <3> SUFFICES ASSUME NEW v, NEW d, <<k, v, d>> \in Cached PROVE FALSE
      OBVIOUS
    <3>1. Lookup(j)' = v /\ Lookup(j) = v
      BY <1>1, <2>1 DEF CachedFacts
    <3> QED
      BY <3>1
  <2>3. op[t].kind = "remove"
    BY <1>1, <2>2 DEF CleanOK
  <2>4. Lookup(j)' = remote'[j]
    BY <1>1, <2>1, <2>2 DEF CachedFacts
  <2> QED
    BY <1>1, <2>1, <2>3, <2>4 DEF Key
<1> QED
  BY <1>2, <1>3

\* The collector.
LEMMA EvictsRight ==
  ASSUME CachedFacts, CachedFacts', CleanOK, Evicts, remote \in [Keys -> Vals \cup {None}]
  PROVE  CleanOK' /\ OnlyByOps
<1>1. PICK k \in Keys, w \in Vals, c \in BOOLEAN :
        /\ <<k, w, c>> \in Cached /\ \A u \in Threads : k \notin pinned[u]
        /\ Becomes(k, {}) /\ UNCHANGED <<pc, op, pinned>>
        /\ remote' = IF c THEN [remote EXCEPT ![k] = w] ELSE remote
  BY DEF Evicts
<1>a. Cached' = {r \in Cached : r[1] # k} \cup {}
  BY <1>1 DEF Becomes
<1>2. \A j, v, d : <<j, v, d>> \in Cached' <=> <<j, v, d>> \in Cached /\ j # k
  BY <1>a
<1>3. /\ remote'[k] = w /\ \A j \in Keys : j # k => remote'[j] = remote[j]
  <2>1. CASE c = TRUE
    BY <1>1, <2>1
  <2>2. CASE c = FALSE
    BY <1>1, <2>2 DEF CleanOK
  <2> QED
    BY <2>1, <2>2
<1>4. CleanOK'
  <2>1. ASSUME NEW j, NEW v, <<j, v, FALSE>> \in Cached' PROVE remote'[j] = v
    BY <1>2, <1>3, <2>1 DEF CleanOK, CachedFacts
  <2>2. ASSUME NEW u \in Threads, pc'[u] = "remote"
        PROVE  /\ \A v : <<Key(u)', v, FALSE>> \notin Cached'
               /\ op'[u].kind = "put" /\ Key(u)' \in pinned'[u] =>
                    \E v : <<Key(u)', v, TRUE>> \in Cached'
    <3>1. pc[u] = "remote" /\ Key(u)' = Key(u) /\ pinned'[u] = pinned[u] /\ op'[u] = op[u]
      BY <1>1, <2>2 DEF Key
    <3>2. k \notin pinned[u]
      BY <1>1
    <3>3. /\ \A v : <<Key(u), v, FALSE>> \notin Cached
          /\ op[u].kind = "put" /\ Key(u) \in pinned[u] => \E v : <<Key(u), v, TRUE>> \in Cached
      BY <3>1 DEF CleanOK
    <3>4. \A v : <<Key(u), v, FALSE>> \notin Cached'
      BY <1>2, <3>3
    <3>5. Key(u) \in pinned[u] => \A v : <<Key(u), v, TRUE>> \in Cached =>
                                           <<Key(u), v, TRUE>> \in Cached'
      BY <1>2, <3>2
    <3> QED
      BY <3>1, <3>3, <3>4, <3>5
  <2> QED
    BY <2>1, <2>2 DEF CleanOK
<1>5. OnlyByOps
  <2> SUFFICES ASSUME NEW j \in Keys PROVE Lookup(j)' = Lookup(j)
    BY DEF OnlyByOps, ByItsOps
  <2>1. CASE j = k
    <3>1. Lookup(j) = w
      BY <1>1, <2>1 DEF CachedFacts
    <3>2. Lookup(j)' = remote'[j]
      BY <1>2, <2>1 DEF CachedFacts
    <3> QED
      BY <1>3, <2>1, <3>1, <3>2
  <2>2. CASE j # k
    BY <1>2, <1>3, <2>2, LookupKept
  <2> QED
    BY <2>1, <2>2
<1> QED
  BY <1>4, <1>5

LEMMA KeepsRight ==
  ASSUME CachedFacts, CachedFacts', CleanOK, Keeps
  PROVE  CleanOK' /\ OnlyByOps
<1>1. CleanOK'
  <2>1. \A j, v : <<j, v, FALSE>> \in Cached' => remote'[j] = v
    BY DEF CleanOK, Keeps
  <2>2. ASSUME NEW u \in Threads, pc'[u] = "remote"
        PROVE  /\ \A v : <<Key(u)', v, FALSE>> \notin Cached'
               /\ op'[u].kind = "put" /\ Key(u)' \in pinned'[u] =>
                    \E v : <<Key(u)', v, TRUE>> \in Cached'
    <3>1. pc[u] = "remote" /\ Key(u)' = Key(u) /\ pinned'[u] = pinned[u] /\ op'[u] = op[u]
      BY <2>2 DEF Keeps, Key
    <3> QED
      BY <3>1 DEF CleanOK, Keeps
  <2> QED
    BY <2>1, <2>2 DEF CleanOK
<1>2. \A k \in Keys : Lookup(k)' = Lookup(k)
  BY LookupKept DEF Keeps
<1> QED
  BY <1>1, <1>2 DEF OnlyByOps, ByItsOps

LEMMA StepRight ==
  ASSUME Core, Core', CleanOK, Step, Sound'
  PROVE  CleanOK' /\ OnlyByOps
<1>1. CachedFacts /\ CachedFacts' /\ remote \in [Keys -> Vals \cup {None}]
  BY CachedIs, CachedIsNext DEF Core, Types
<1> QED
  BY <1>1, StepKinds, KeepsRight, PutsRight, SwapsInRight, TakesOutRight, EndsRight, EvictsRight

LEMMA InitClean == Init => CleanOK
<1> SUFFICES ASSUME Init PROVE CleanOK
  OBVIOUS
<1>1. PICK v \in Vals : ptr = [e \in Entries |->
        IF e \in DOMAIN Loaded
        THEN [key |-> Loaded[e], val |-> v, dirty |-> TRUE,
              anchor |-> Home[Loaded[e]], offset |-> e - Home[Loaded[e]]]
        ELSE Null]
  BY DEF Init
<1>2. \A e \in Shown : ptr[e].dirty = TRUE
  <2>1. \A e \in Entries : IsObj(e) => e \in DOMAIN Loaded
    BY <1>1, NullAssumption DEF IsObj
  <2>2. \A e \in Entries : e \in DOMAIN Loaded => ptr[e].dirty = TRUE
    BY <1>1
  <2> QED
    BY <2>1, <2>2 DEF Shown
<1>3. \A k, w : <<k, w, FALSE>> \notin Cached
  BY <1>2 DEF Cached, Content
<1>4. \A t \in Threads : pc[t] # "remote"
  BY DEF Init
<1> QED
  BY <1>3, <1>4 DEF CleanOK

\* As long as none of those races has happened, the table and the server agree:
\* a clean object says what the server has.
THEOREM CleanHolds == Spec => [](Sound => CleanOK)
<1>1. Init => (Sound => CleanOK)
  BY InitClean
<1>2. (Sound => Core) /\ (Sound => Core)' /\ (Sound => CleanOK) /\ [Next]_vars
        => (Sound => CleanOK)'
  <2> SUFFICES ASSUME Sound => Core, Core', Sound => CleanOK, [Next]_vars, Sound'
               PROVE  CleanOK'
    OBVIOUS
  <2>1. CASE Step
    BY <2>1, SoundBefore, StepRight
  <2>2. CASE UNCHANGED vars
    <3>1. UNCHANGED <<ptr, remote, pc, op, pinned, races>>
      BY <2>2 DEF vars, table
    <3>2. Sound /\ CleanOK
      BY <3>1 DEF Sound
    <3> QED
      BY <3>1, <3>2 DEF CleanOK, Cached, Shown, IsObj, Fresh, Key
  <2> QED
    BY <2>1, <2>2 DEF Next, Finished
<1> QED
  BY <1>1, <1>2, CoreHolds, PTL DEF Spec

\* The value of a key changes only by a put of that value or by a remove: moving
\* it, evicting it, fetching it from the server and operations on other keys
\* neither lose it nor bring it back.
THEOREM ChangedByOpsHolds == Spec => ChangedByOps
<1>1. /\ Sound => Core /\ CleanOK
      /\ (Sound => Core)' /\ [Next]_vars
      => [Sound' => OnlyByOps]_vars
  <2> SUFFICES ASSUME Sound => Core /\ CleanOK, (Sound => Core)', [Next]_vars, Sound',
                      ~UNCHANGED vars
               PROVE  OnlyByOps
    OBVIOUS
  <2>1. Step
    BY DEF Next, Finished
  <2> QED
    BY <2>1, SoundBefore, StepRight
<1> QED
  BY <1>1, CoreHolds, CleanHolds, PTL DEF Spec, ChangedByOps

-----------------------------------------------------------------------------
\* What a reader without a lock can rely on.

\* A step of a leaves the others where they are, the buckets they have locked as
\* they are, and late whoever was late.
Aside(a) ==
  /\ \A u \in Threads \ {a} : pc'[u] = pc[u] /\ op'[u] = op[u]
  /\ \A b \in Entries : spin[b] \in Threads \ {a} => bitmap'[b] = bitmap[b]
  /\ late \ {a} \subseteq late'

\* Bits go on leading to the objects they lead to, those with keys in K apart.
Links(K) ==
  \A b \in Entries : \A o \in bitmap[b] : IsObj(b + o) /\ ptr[b + o].key \notin K =>
    o \in bitmap'[b] /\ ptr'[b + o] \in Objects /\ ptr'[b + o].key = ptr[b + o].key

LEMMA SameLinks ==
  ASSUME UNCHANGED <<bitmap, ptr>>
  PROVE  Links({})
BY DEF Links, IsObj

\* The objects stay objects and the bits that lead to them stay.
LEMMA KeptLinks ==
  ASSUME Core, NEW K,
         \A b \in Entries : \A o \in bitmap[b] : o \in bitmap'[b] \/ ~IsObj(b + o),
         \A e \in Entries : IsObj(e) /\ ptr[e].key \notin K =>
           ptr'[e] \in Objects /\ ptr'[e].key = ptr[e].key
  PROVE  Links(K)
<1>1. \A b \in Entries : \A o \in bitmap[b] : b + o \in Entries
  BY DEF Core, BitOK
<1> QED
  BY <1>1 DEF Links

\* do_evac_notifier clears a bit that leads to no object.
LEMMA NotifyLinks ==
  ASSUME Core, NEW a, NEW meta \in notes \cup stash, Notify(meta), UNCHANGED <<ptr, late>>,
         \A u \in Threads \ {a} : pc'[u] = pc[u] /\ op'[u] = op[u]
  PROVE  Aside(a) /\ Links({})
<1>1. meta \in Entries \X Offsets
  BY DEF Core, Types, Metas
<1>2. PICK c \in Entries, p \in Offsets : meta = <<c, p>>
  BY <1>1
<1>3. p \in bitmap[c] /\ ptr[c + p] = Null
  BY <1>2 DEF Core, NoteOK
<1>4. \/ spin[c] = None /\ bitmap' = [bitmap EXCEPT ![c] = bitmap[c] \ {p}]
      \/ UNCHANGED bitmap
  BY <1>2, <1>3 DEF Notify
<1>5. ~IsObj(c + p)
  BY <1>3, NullAssumption DEF IsObj
<1>6. \A b \in Entries : \A o \in bitmap[b] : o \in bitmap'[b] \/ (b = c /\ o = p)
  BY <1>4 DEF Core, Types
<1>7. \A b \in Entries : \A o \in bitmap[b] : o \in bitmap'[b] \/ ~IsObj(b + o)
  BY <1>5, <1>6
<1>8. Links({})
  BY <1>7, KeptLinks DEF IsObj
<1>9. \A b \in Entries : spin[b] \in Threads \ {a} => bitmap'[b] = bitmap[b]
  BY <1>4, NoneAssumption DEF Core, Types
<1> QED
  BY <1>8, <1>9 DEF Aside

LEMMA CollectorLinks ==
  ASSUME Core, Collector
  PROVE  /\ Aside(None)
         /\ Links({}) \/ \E k \in Keys : Links({k}) /\ Becomes(k, {})
<1>1. UNCHANGED <<pc, op, late>>
  BY DEF Collector, Evict, Note, Restash, Unmove
<1>2. CASE \E meta \in notes : Note(meta)
  BY <1>1, <1>2, NotifyLinks DEF Note
<1>3. CASE \E meta \in stash : Restash(meta)
  <2>1. PICK meta \in stash : Restash(meta)
    BY <1>3
  <2>2. UNCHANGED ptr
    BY <2>1, StillNull DEF Restash
  <2> QED
    BY <1>1, <2>1, <2>2, NotifyLinks DEF Restash
<1>4. CASE \E e \in Entries : Evict(e)
  <2>1. PICK e \in Entries : Evict(e)
    BY <1>4
  <2>2. /\ ~IsNull(e) /\ \A t \in Threads : ptr[e].key \notin pinned[t]
        /\ ptr' = [ptr EXCEPT ![ptr[e].anchor + ptr[e].offset] = Null]
        /\ UNCHANGED bitmap
    BY <2>1 DEF Evict
  <2>3. IsObj(e) /\ ptr[e].key \in Keys
    BY <2>2, ObjFacts
  <2>4. ptr[e].anchor + ptr[e].offset = e
    BY <2>2, <2>3, Unpinned DEF Settled
  <2>5. \A f \in Entries : f # e => ptr'[f] = ptr[f]
    BY <2>2, <2>4 DEF Core, Types
  <2>6. \A f \in Entries : IsObj(f) /\ ptr[f].key \notin {ptr[e].key} =>
           ptr'[f] \in Objects /\ ptr'[f].key = ptr[f].key
    BY <2>5 DEF IsObj
  <2>7. Links({ptr[e].key})
    BY <2>2, <2>6, KeptLinks
  <2>8. Becomes(ptr[e].key, {})
    BY <2>1, EvictKind
  <2> QED
    BY <1>1, <2>2, <2>3, <2>7, <2>8 DEF Aside
<1>5. CASE \E t \in Threads : Unmove(t)
  <2>1. UNCHANGED <<bitmap, ptr>>
    BY <1>5 DEF Unmove, table
  <2> QED
    BY <1>1, <2>1, SameLinks DEF Aside
<1> QED
  BY <1>2, <1>3, <1>4, <1>5 DEF Collector

\* The steps of threads.  Those that change neither bits nor pointers first.
LEMMA QuietLinks ==
  ASSUME NEW t \in Threads, UNCHANGED <<bitmap, ptr>>, late \ {t} \subseteq late',
         \A u \in Threads \ {t} : pc'[u] = pc[u] /\ op'[u] = op[u]
  PROVE  Aside(t) /\ Links({})
BY SameLinks DEF Aside

LEMMA ReaderLinks ==
  ASSUME Core, NEW t \in Threads, Begin(t) \/ GetStep(t)
  PROVE  Aside(t) /\ Links({})
<1>1. \A u \in Threads \ {t} : pc'[u] = pc[u] /\ op'[u] = op[u]
  BY StartKeeps, GetKeeps DEF Local
<1>2. CASE Begin(t)
  <2>1. UNCHANGED <<bitmap, ptr, late>>
    BY <1>2 DEF Begin, Start, table
  <2> QED
    BY <1>1, <2>1, QuietLinks
<1>3. CASE GetStep(t)
  <2>1. UNCHANGED <<bitmap, ptr>> /\ late \ {t} \subseteq late'
    BY <1>3 DEF GetStep, ReadStamp, ReadBits, Look, CopyVal, Recheck, LockSlow, ScanSlow,
                Forward, table
  <2> QED
    BY <1>1, <2>1, QuietLinks
<1> QED
  BY <1>2, <1>3

LEMMA OthersWait ==
  ASSUME Core, NEW t \in Threads, PutStep(t), Sound'
  PROVE  \A u \in Threads \ {t} : pc'[u] = pc[u] /\ op'[u] = op[u]
BY PutKinds DEF Puts, SwapsIn, TakesOut, Ends, Local

LEMMA PutQuiet ==
  ASSUME Core, NEW t \in Threads, Sound', PutStep(t),
         LockBucket(t) \/ WriteVal(t) \/ Room(t) \/ Bug(t) \/ Tick(t) \/ RemoveRemote(t)
  PROVE  Aside(t) /\ Links({})
<1>1. UNCHANGED <<bitmap, ptr>> /\ late \ {t} \subseteq late'
  BY DEF LockBucket, WriteVal, Room, Bug, Tick, RemoveRemote, table
<1> QED
  BY <1>1, OthersWait, QuietLinks

LEMMA ScanLinks ==
  ASSUME Core, NEW t \in Threads, Scan(t), PutStep(t), Sound'
  PROVE  /\ Aside(t)
         /\ Links({}) \/ \E k \in Keys : Links({k}) /\ Becomes(k, {})
<1> DEFINE b == Home_(t)
           stop == Stops(b, Key(t), FALSE)
           e == b + Min(stop)
<1>1. pc[t] = "scan" /\ UNCHANGED late
  BY DEF Scan
<1>2. CASE UNCHANGED <<bitmap, ptr>>
  BY <1>1, <1>2, OthersWait, QuietLinks
<1>3. CASE /\ FoundAt(t, e) /\ UNCHANGED bitmap
           /\ ptr' = [ptr EXCEPT ![e].val = op[t].val, ![e].dirty = @ \/ ~Swap(t)]
           /\ op[t].kind # "remove"
  <2> HIDE DEF e
  <2>1. e \in Entries /\ IsObj(e)
    BY <1>1, <1>3, Found
  <2>2. op[t].val \in Vals
    BY <1>1, <1>3, OpFacts DEF Core, OpOK, Writing
  <2>3. /\ ptr'[e] = [ptr[e] EXCEPT !.val = op[t].val, !.dirty = ptr[e].dirty \/ ~Swap(t)]
        /\ \A f \in Entries : f # e => ptr'[f] = ptr[f]
    BY <1>3, <2>1 DEF Core, Types
  <2>4. (ptr[e].dirty \/ ~Swap(t)) \in BOOLEAN
    OBVIOUS
  <2>5. ptr'[e] \in Objects /\ ptr'[e].key = ptr[e].key
    BY <2>1, <2>2, <2>3, <2>4 DEF IsObj, Objects
  <2>6. Links({})
    BY <1>3, <2>3, <2>5, KeptLinks DEF IsObj
  <2> QED
    BY <1>1, <1>3, <2>6, OthersWait DEF Aside
<1>4. CASE /\ FoundAt(t, e) /\ op[t].kind = "remove" /\ ptr' = [ptr EXCEPT ![e] = Null]
           /\ bitmap' = [bitmap EXCEPT ![b] = @ \ {e - b}] /\ Goto(t, "remote")
  <2> HIDE DEF e
  <2>1. /\ e \in Entries /\ IsObj(e) /\ ptr[e].key = Key(t) /\ spin[b] = t /\ b \in Entries
        /\ b \in Nat
    BY <1>1, <1>4, Found
  <2>2. pc'[t] = "remote" /\ Key(t) \in Keys
    BY <1>1, <1>4, GotoFacts DEF Core, OpOK
  <2>3. TakesOut(t)
    BY <1>1, <1>4, <2>2, ScanKind DEF Keeps, Puts
  <2>4. \A f \in Entries : f # e => ptr'[f] = ptr[f]
    BY <1>4, <2>1 DEF Core, Types
  <2>5. \A c \in Entries : \A o \in bitmap[c] : o \in bitmap'[c] \/ (c = b /\ o = e - b)
    BY <1>4, <2>1 DEF Core, Types
  <2>6. e \in Nat /\ b + (e - b) = e
    BY <2>1, Sizes
  <2>7. Links({Key(t)})
    <3> SUFFICES ASSUME NEW c \in Entries, NEW o \in bitmap[c], IsObj(c + o),
                        ptr[c + o].key # Key(t)
                 PROVE  o \in bitmap'[c] /\ ptr'[c + o] = ptr[c + o]
      BY DEF Links, IsObj
    <3>1. c + o # e /\ c + o \in Entries
      BY <2>1, BitFacts
    <3> QED
      BY <2>4, <2>5, <2>6, <3>1
  <2>8. \A c \in Entries : spin[c] \in Threads \ {t} => bitmap'[c] = bitmap[c]
    BY <1>4, <2>1 DEF Core, Types
  <2> QED
    BY <1>1, <2>2, <2>3, <2>7, <2>8, OthersWait DEF Aside, TakesOut
<1> QED
  BY <1>2, <1>3, <1>4 DEF Scan, FoundAt

LEMMA StashLinks ==
  ASSUME Core, NEW t \in Threads, Stash(t), PutStep(t), Sound'
  PROVE  Aside(t) /\ Links({})
<1>1. UNCHANGED late
  BY DEF Stash
<1>2. CASE UNCHANGED <<bitmap, ptr>>
  BY <1>1, <1>2, OthersWait, QuietLinks
<1>3. CASE \E meta \in stash : ptr' = [ptr EXCEPT ![meta[1] + meta[2]] = Null] /\ Notify(meta)
  <2>1. PICK meta \in stash : ptr' = [ptr EXCEPT ![meta[1] + meta[2]] = Null] /\ Notify(meta)
    BY <1>3
  <2>2. UNCHANGED ptr
    BY <2>1, StillNull
  <2> QED
    BY <1>1, <2>1, <2>2, OthersWait, NotifyLinks
<1> QED
  BY <1>2, <1>3 DEF Stash

LEMMA ProbeLinks ==
  ASSUME Core, NEW t \in Threads, Probe(t), PutStep(t), Sound'
  PROVE  Aside(t) /\ Links({})
<1>1. UNCHANGED <<bitmap, late>>
  BY DEF Probe
<1>2. \A e \in Entries : ptr'[e] = ptr[e] \/ ptr[e] = Null
  BY DEF Probe, Core, Types
<1>3. \A e \in Entries : IsObj(e) => ptr'[e] = ptr[e]
  BY <1>2, NullAssumption DEF IsObj
<1>4. Links({})
  BY <1>1, <1>3, KeptLinks DEF IsObj
<1> QED
  BY <1>1, <1>4, OthersWait DEF Aside

LEMMA DislodgeLinks ==
  ASSUME Core, NEW t \in Threads, Dislodge(t), PutStep(t), Sound'
  PROVE  Aside(t) /\ Links({})
<1>1. UNCHANGED late /\ pc[t] = "from"
  BY DEF Dislodge
<1>2. /\ op[t].idx \in Entries /\ ptr[op[t].idx] = kBusyPtr /\ Anchor(t) \in Entries
      /\ spin[Anchor(t)] = t /\ From(t) \in Entries
  BY <1>1, MoveFacts DEF Moving, Core, MoveOK
<1>3. CASE UNCHANGED bitmap /\ ptr' = [ptr EXCEPT ![op[t].idx] = Null]
  <2>1. \A e \in Entries : ptr'[e] = ptr[e] \/ ptr[e] = kBusyPtr
    BY <1>2, <1>3 DEF Core, Types
  <2>2. \A e \in Entries : IsObj(e) => ptr'[e] = ptr[e]
    BY <2>1, NullAssumption DEF IsObj
  <2>3. Links({})
    BY <1>3, <2>2, KeptLinks DEF IsObj
  <2> QED
    BY <1>1, <1>3, <2>3, OthersWait DEF Aside
<1>4. CASE /\ ~IsNull(From(t)) /\ ptr' = [ptr EXCEPT ![From(t)].offset = op[t].dist]
           /\ bitmap' = [bitmap EXCEPT ![Anchor(t)] = @ \cup {op[t].dist}]
  <2>1. IsObj(From(t)) /\ op[t].dist \in Offsets
    BY <1>2, <1>4, ObjFacts, OpFacts
  <2>2. /\ ptr'[From(t)] = [ptr[From(t)] EXCEPT !.offset = op[t].dist]
        /\ \A e \in Entries : e # From(t) => ptr'[e] = ptr[e]
    BY <1>2, <1>4 DEF Core, Types
  <2>3. ptr'[From(t)] \in Objects /\ ptr'[From(t)].key = ptr[From(t)].key
    BY <2>1, <2>2 DEF IsObj, Objects
  <2>4. \A b \in Entries : \A o \in bitmap[b] : o \in bitmap'[b]
    BY <1>4 DEF Core, Types
  <2>5. \A e \in Entries : IsObj(e) => ptr'[e] \in Objects /\ ptr'[e].key = ptr[e].key
    BY <2>2, <2>3 DEF IsObj
  <2>6. Links({})
    BY <2>4, <2>5, KeptLinks
  <2>7. \A b \in Entries : spin[b] \in Threads \ {t} => bitmap'[b] = bitmap[b]
    BY <1>2, <1>4 DEF Core, Types
  <2> QED
    BY <1>1, <2>6, <2>7, OthersWait DEF Aside
<1> QED
  BY <1>3, <1>4 DEF Dislodge

LEMMA CopyPtrLinks ==
  ASSUME Core, NEW t \in Threads, CopyPtr(t), PutStep(t), Sound'
  PROVE  Aside(t) /\ Links({})
<1>1. /\ UNCHANGED <<bitmap, late>> /\ pc[t] = "copy"
      /\ ptr' = [ptr EXCEPT ![op[t].idx] = ptr[From(t)]]
  BY DEF CopyPtr
<1>2. ptr[op[t].idx] = kBusyPtr
  BY <1>1 DEF Core, MoveOK
<1>3. \A e \in Entries : ptr'[e] = ptr[e] \/ ptr[e] = kBusyPtr
  BY <1>1, <1>2 DEF Core, Types
<1>4. \A e \in Entries : IsObj(e) => ptr'[e] = ptr[e]
  BY <1>3, NullAssumption DEF IsObj
<1>5. Links({})
  BY <1>1, <1>4, KeptLinks DEF IsObj
<1> QED
  BY <1>1, <1>5, OthersWait DEF Aside

LEMMA AllocateLinks ==
  ASSUME Core, NEW t \in Threads, Allocate(t), PutStep(t), Sound'
  PROVE  Aside(t) /\ Links({})
<1>1. UNCHANGED <<bitmap, late>> /\ pc[t] = "alloc"
  BY DEF Allocate
<1>2. ptr[op[t].idx] = kBusyPtr
  BY <1>1 DEF Core, MoveOK
<1>3. \A e \in Entries : e # op[t].idx => ptr'[e] = ptr[e]
  BY DEF Allocate, Core, Types
<1>4. \A e \in Entries : IsObj(e) => ptr'[e] = ptr[e]
  BY <1>2, <1>3, NullAssumption DEF IsObj
<1>5. Links({})
  BY <1>1, <1>4, KeptLinks DEF IsObj
<1> QED
  BY <1>1, <1>5, OthersWait DEF Aside

LEMMA ClearBitLinks ==
  ASSUME Core, NEW t \in Threads, ClearBit(t), PutStep(t), Sound'
  PROVE  Aside(t) /\ Links({})
<1>1. /\ UNCHANGED <<ptr, late>> /\ pc[t] = "clear"
      /\ bitmap' = [bitmap EXCEPT ![Anchor(t)] = @ \ {Min(@)}]
  BY DEF ClearBit
<1>2. /\ ptr[From(t)] = kBusyPtr /\ spin[Anchor(t)] = t /\ Anchor(t) \in Entries
      /\ From(t) = Anchor(t) + Min(bitmap[Anchor(t)])
  BY <1>1, MoveFacts DEF Moving, Core, MoveOK
<1>3. ~IsObj(From(t))
  BY <1>2, NullAssumption DEF IsObj
<1>4. \A b \in Entries : \A o \in bitmap[b] :
        o \in bitmap'[b] \/ (b = Anchor(t) /\ o = Min(bitmap[Anchor(t)]))
  BY <1>1, <1>2 DEF Core, Types
<1>5. \A b \in Entries : \A o \in bitmap[b] : o \in bitmap'[b] \/ ~IsObj(b + o)
  BY <1>2, <1>3, <1>4
<1>6. Links({})
  BY <1>1, <1>5, KeptLinks DEF IsObj
<1>7. \A b \in Entries : spin[b] \in Threads \ {t} => bitmap'[b] = bitmap[b]
  BY <1>1, <1>2 DEF Core, Types
<1> QED
  BY <1>1, <1>6, <1>7, OthersWait DEF Aside

LEMMA PublishLinks ==
  ASSUME Core, NEW t \in Threads, Publish(t), PutStep(t), Sound'
  PROVE  Aside(t) /\ Links({})
<1>1. /\ UNCHANGED <<ptr, late>> /\ pc[t] = "publish"
      /\ bitmap' = [bitmap EXCEPT ![Home_(t)] = @ \cup {op[t].idx - Home_(t)}]
  BY DEF Publish
<1>2. spin[Home_(t)] = t /\ Home_(t) \in Entries
  BY <1>1, OpFacts DEF Core, LockOK, HomeLocked, Home_
<1>3. \A b \in Entries : \A o \in bitmap[b] : o \in bitmap'[b]
  BY <1>1 DEF Core, Types
<1>4. Links({})
  BY <1>1, <1>3, KeptLinks DEF IsObj
<1>5. \A b \in Entries : spin[b] \in Threads \ {t} => bitmap'[b] = bitmap[b]
  BY <1>1, <1>2 DEF Core, Types
<1> QED
  BY <1>1, <1>4, <1>5, OthersWait DEF Aside

\* The object t has moved is at its new place when it leaves the old one.
Reset(t) ==
  /\ pc[t] = "reset" /\ pc'[t] = "clear" /\ op' = op /\ bitmap' = bitmap
  /\ Links({ptr[From(t)].key})
  /\ \A e \in Entries : e # From(t) => ptr'[e] = ptr[e]

LEMMA ResetPtrLinks ==
  ASSUME Core, NEW t \in Threads, ResetPtr(t), PutStep(t), Sound'
  PROVE  Aside(t) /\ Reset(t)
<1>1. /\ UNCHANGED <<bitmap, op, late>> /\ pc[t] = "reset" /\ Goto(t, "clear")
      /\ ptr' = [ptr EXCEPT ![From(t)] = kBusyPtr]
  BY DEF ResetPtr
<1>2. \A e \in Entries : e # From(t) => ptr'[e] = ptr[e]
  BY <1>1 DEF Core, Types
<1>3. \A e \in Entries : IsObj(e) /\ ptr[e].key \notin {ptr[From(t)].key} =>
        ptr'[e] \in Objects /\ ptr'[e].key = ptr[e].key
  BY <1>2 DEF IsObj
<1>4. Links({ptr[From(t)].key})
  BY <1>1, <1>3, KeptLinks
<1>5. pc'[t] = "clear"
  BY <1>1, GotoFacts
<1> QED
  BY <1>1, <1>2, <1>4, <1>5, OthersWait DEF Aside, Reset

LEMMA PutLinks ==
  ASSUME Core, NEW t \in Threads, PutStep(t), Sound'
  PROVE  /\ Aside(t)
         /\ Links({}) \/ Reset(t) \/ \E k \in Keys : Links({k}) /\ Becomes(k, {})
BY PutQuiet, ScanLinks, StashLinks, ProbeLinks, DislodgeLinks, CopyPtrLinks, ResetPtrLinks,
   ClearBitLinks, AllocateLinks, PublishLinks
DEF PutStep

-----------------------------------------------------------------------------
\* What a get knows that has found the key: what it copies was a value of its key.
\* And one that has missed so far, unless its timestamp has grown: what the server
\* has was a value of its key, or one of the bits it has yet to follow
\* leads to the key.  If the key is being moved, and the bit of its old place is
\* one of those, then so is the bit of the new place.

Hit(t) == \E o \in op[t].bits : /\ o \in bitmap[Home_(t)] /\ IsObj(Home_(t) + o)
                                /\ ptr[Home_(t) + o].key = Key(t)
Follows(t) == \A u \in Threads :
  pc[u] \in {"copy", "reset"} /\ Anchor(u) = Home_(t) /\ Min(bitmap[Anchor(u)]) \in op[t].bits
    => op[u].dist \in op[t].bits
FromServer(t) == remote[Key(t)] \in seen[t]
ReadOK(t) ==
  /\ pc[t] = "value" => op[t].val \in seen[t]
  /\ pc[t] = "forward" => FromServer(t)
  /\ pc[t] = "recheck" /\ t \notin late => FromServer(t)
  /\ pc[t] = "look" /\ t \notin late => (FromServer(t) \/ Hit(t)) /\ Follows(t)

SeenOK == \A t \in Threads : Asking(t) => Lookup(Key(t)) \in seen[t]
AskOK == SeenOK /\ (Uncrossed => \A t \in Threads : ReadOK(t))

LEMMA SeenGrows ==
  ASSUME NEW t \in Threads, Watch, Asking(t)'
  PROVE  /\ seen[t] \subseteq seen'[t] /\ Lookup(Key(t))' \in seen'[t]
         /\ Removed(Key(t)') => None \in seen'[t]
BY DEF Watch

LEMMA ReaderAsks ==
  ASSUME Core, NEW t \in Threads, pc[t] \in Reading
  PROVE  Asking(t) /\ Key(t) \in Keys /\ Home_(t) = Home[Key(t)] /\ Home_(t) \in Entries
<1>1. Asking(t) /\ Key(t) \in Keys /\ Home_(t) = Home[Key(t)]
  BY DEF Core, OpOK, Reading, Asking
<1> QED
  BY <1>1, HomeAssumption, Sizes

LEMMA HitKept ==
  ASSUME Core, NEW a, Aside(a), NEW t \in Threads \ {a}, pc[t] = "look", Hit(t), Follows(t),
         \/ Links({}) \/ (a \in Threads /\ Reset(a))
         \/ \E k \in Keys : Links({k}) /\ Becomes(k, {})
  PROVE  Hit(t)' \/ \A v, d : <<Key(t), v, d>> \notin Cached'
<1> DEFINE b == Home_(t)
<1>0. b \in Entries /\ b = Home[Key(t)] /\ Key(t) \in Keys
  BY ReaderAsks DEF Reading
<1>1. PICK o \in op[t].bits : o \in bitmap[b] /\ IsObj(b + o) /\ ptr[b + o].key = Key(t)
  BY DEF Hit
<1>2. op'[t] = op[t]
  BY DEF Aside
<1>3. ASSUME NEW p \in op[t].bits, p \in bitmap'[b], ptr'[b + p] \in Objects,
             ptr'[b + p].key = Key(t)
      PROVE  Hit(t)'
  BY <1>2, <1>3 DEF Hit, Home_, Key, IsObj
<1>4. ASSUME NEW K, Links(K), Key(t) \notin K PROVE Hit(t)'
  <2>1. o \in bitmap'[b] /\ ptr'[b + o] \in Objects /\ ptr'[b + o].key = Key(t)
    BY <1>0, <1>1, <1>4 DEF Links
  <2> QED
    BY <1>3, <2>1
<1>5. ASSUME Becomes(Key(t), {}) PROVE \A v, d : <<Key(t), v, d>> \notin Cached'
  BY <1>5 DEF Becomes
<1>6. CASE a \in Threads /\ Reset(a)
  <2>1. /\ pc[a] \in Moving /\ pc[a] = "reset" /\ bitmap' = bitmap
        /\ \A e \in Entries : e # From(a) => ptr'[e] = ptr[e]
    BY <1>6 DEF Reset, Moving
  <2>2. b + o \in Entries
    BY <1>0, <1>1, BitFacts
  <2>3. CASE b + o # From(a)
    BY <1>1, <1>3, <2>1, <2>2, <2>3 DEF IsObj
  <2>4. CASE b + o = From(a)
    <3>1. /\ From(a) = Anchor(a) + Min(bitmap[Anchor(a)]) /\ op[a].idx = Anchor(a) + op[a].dist
          /\ op[a].idx \in Entries /\ op[a].idx # From(a) /\ Anchor(a) \in Nat
          /\ Min(bitmap[Anchor(a)]) \in Nat
      BY <1>6, <2>1, MoveFacts
    <3>2. /\ ptr[From(a)].anchor = Anchor(a) /\ op[a].dist \in bitmap[Anchor(a)]
          /\ ptr[op[a].idx] = ptr[From(a)]
      BY <1>6, <2>1 DEF Core, MoveOK, Relinked
    <3>3. Anchor(a) = b
      BY <1>0, <1>1, <2>2, <2>4, <3>2, ObjFacts
    <3>4. o \in Nat /\ o = Min(bitmap[Anchor(a)])
      <4>1. o \in Nat /\ b \in Nat
        BY <1>0, <1>1, BitFacts
      <4> QED
        BY <2>4, <3>1, <3>3, <4>1
    <3>5. op[a].dist \in op[t].bits
      BY <1>6, <2>1, <3>3, <3>4 DEF Follows
    <3>6. ptr'[b + op[a].dist] = ptr[From(a)]
      BY <2>1, <3>1, <3>2, <3>3
    <3> QED
      BY <1>1, <1>3, <2>1, <2>4, <3>2, <3>3, <3>5, <3>6 DEF IsObj
  <2> QED
    BY <2>3, <2>4
<1>7. CASE \E k \in Keys : Links({k}) /\ Becomes(k, {})
  <2>1. PICK k \in Keys : Links({k}) /\ Becomes(k, {})
    BY <1>7
  <2>2. CASE k = Key(t)
    BY <1>5, <2>1, <2>2
  <2>3. CASE k # Key(t)
    BY <1>4, <2>1, <2>3
  <2> QED
    BY <2>2, <2>3
<1> QED
  BY <1>4, <1>6, <1>7

\* Only these two steps come to the two places that matter to Follows.
LEMMA ToCopy ==
  ASSUME Core, NEW t \in Threads, Begin(t) \/ GetStep(t) \/ PutStep(t),
         pc'[t] \in {"copy", "reset"}
  PROVE  Tick(t) \/ CopyPtr(t)
<1>1. pc \in [Threads -> Reading \cup Writing \cup {"idle", "bug"}]
  BY DEF Core, Types
<1>2. ~Begin(t)
  BY <1>1 DEF Begin, Start, Goto
<1>3. ~GetStep(t)
  BY <1>1 DEF GetStep, ReadStamp, ReadBits, Look, CopyVal, Recheck, LockSlow, ScanSlow,
              Forward, Goto, Done, Restart
<1>4. ~LockBucket(t) /\ ~Stash(t) /\ ~Probe(t) /\ ~Room(t) /\ ~Bug(t)
  BY <1>1 DEF LockBucket, Stash, Probe, Room, Bug, Goto
<1>5. ~Scan(t) /\ ~WriteVal(t)
  BY <1>1 DEF Scan, WriteVal, Goto, Done
<1>6. ~Dislodge(t) /\ ~ResetPtr(t) /\ ~ClearBit(t)
  BY <1>1 DEF Dislodge, ResetPtr, ClearBit, Goto, Restart
<1>7. ~Allocate(t) /\ ~Publish(t) /\ ~RemoveRemote(t)
  BY <1>1 DEF Allocate, Publish, RemoveRemote, Goto, Done
<1> QED
  BY <1>2, <1>3, <1>4, <1>5, <1>6, <1>7 DEF PutStep

LEMMA NotToRead ==
  ASSUME Core, NEW t \in Threads, Begin(t) \/ PutStep(t)
  PROVE  pc'[t] \notin {"look", "value", "recheck", "forward"}
<1>1. pc \in [Threads -> Reading \cup Writing \cup {"idle", "bug"}]
  BY DEF Core, Types
<1>2. CASE Begin(t)
  BY <1>1, <1>2 DEF Begin, Start, Goto
<1>3. CASE LockBucket(t) \/ Stash(t) \/ Probe(t) \/ Room(t) \/ Bug(t)
  BY <1>1, <1>3 DEF LockBucket, Stash, Probe, Room, Bug, Goto
<1>4. CASE Scan(t) \/ WriteVal(t)
  BY <1>1, <1>4 DEF Scan, WriteVal, Goto, Done
<1>5. CASE Dislodge(t) \/ Tick(t) \/ CopyPtr(t) \/ ResetPtr(t) \/ ClearBit(t)
  BY <1>1, <1>5 DEF Dislodge, Tick, CopyPtr, ResetPtr, ClearBit, Goto, Restart
<1>6. CASE Allocate(t) \/ Publish(t) \/ RemoveRemote(t)
  BY <1>1, <1>6 DEF Allocate, Publish, RemoveRemote, Goto, Done
<1> QED
  BY <1>2, <1>3, <1>4, <1>5, <1>6 DEF PutStep

LEMMA FollowsKept ==
  ASSUME Core, NEW a, Aside(a), NEW t \in Threads \ {a}, pc[t] = "look", t \notin late',
         Follows(t), a \in Threads => Begin(a) \/ GetStep(a) \/ PutStep(a)
  PROVE  Follows(t)'
<1>1. op'[t] = op[t]
  BY DEF Aside
<1> SUFFICES ASSUME NEW u \in Threads, pc'[u] \in {"copy", "reset"},
                    Anchor(u)' = Home_(t), Min(bitmap'[Anchor(u)']) \in op[t].bits
             PROVE  op'[u].dist \in op[t].bits
  BY <1>1 DEF Follows, Home_
<1>2. ASSUME pc[u] \in {"copy", "reset"}, op'[u] = op[u], bitmap'[Anchor(u)] = bitmap[Anchor(u)]
      PROVE  op'[u].dist \in op[t].bits
  <2>1. Anchor(u)' = Anchor(u)
    BY <1>2 DEF Anchor
  <2> QED
    BY <1>2, <2>1 DEF Follows
<1>3. CASE u # a
  <2>1. pc[u] \in {"copy", "reset"} /\ op'[u] = op[u]
    BY <1>3 DEF Aside
  <2>2. Anchor(u) \in Entries /\ spin[Anchor(u)] = u
    BY <2>1, MoveFacts DEF Moving
  <2>3. bitmap'[Anchor(u)] = bitmap[Anchor(u)]
    BY <1>3, <2>2 DEF Aside
  <2> QED
    BY <1>2, <2>1, <2>3
<1>4. CASE u = a /\ Tick(u)
  <2>1. op' = op /\ late' = late \cup {w \in Threads : pc[w] \in {"bits", "look", "recheck"}
                                                       /\ op[w].home = Anchor(u)}
    BY <1>4 DEF Tick
  <2>2. Anchor(u)' = Anchor(u)
    BY <2>1 DEF Anchor
  <2>3. op[t].home = Anchor(u)
    BY <2>2 DEF Home_
  <2>4. t \in late'
    BY <2>1, <2>3
  <2> QED
    BY <2>4
<1>5. CASE u = a /\ CopyPtr(u)
  <2>1. pc[u] = "copy" /\ op' = op /\ bitmap' = bitmap
    BY <1>5 DEF CopyPtr
  <2> QED
    BY <1>2, <2>1
<1> QED
  BY <1>3, <1>4, <1>5, ToCopy

LEMMA RemoteSteps ==
  ASSUME Step
  PROVE  remote' = remote \/ (\E u \in Threads : RemoveRemote(u)) \/ (\E e \in Entries : Evict(e))
<1>1. ASSUME NEW u \in Threads, Begin(u) \/ GetStep(u) PROVE remote' = remote
  BY <1>1 DEF Begin, Start, GetStep, ReadStamp, ReadBits, Look, CopyVal, Recheck, LockSlow,
              ScanSlow, Forward, table
<1>2. ASSUME NEW u \in Threads, PutStep(u), ~RemoveRemote(u) PROVE remote' = remote
  BY <1>2 DEF PutStep, LockBucket, Scan, WriteVal, Stash, Probe, Room, Bug, Dislodge, Tick,
              CopyPtr, ResetPtr, ClearBit, Allocate, Publish, table
<1>3. Collector => remote' = remote \/ \E e \in Entries : Evict(e)
  BY DEF Collector, Note, Restash, Unmove, table
<1> QED
  BY <1>1, <1>2, <1>3 DEF Step

\* What the server has was a value of the key, and what it gets is one.
LEMMA ServerKept ==
  ASSUME Core, Step, Watch, Uncrossed', SeenOK, NEW t \in Threads,
         pc[t] \in {"look", "recheck", "forward"}, pc'[t] = pc[t], op'[t] = op[t], FromServer(t)
  PROVE  FromServer(t)'
<1> DEFINE k == Key(t)
<1>1. Asking(t) /\ k \in Keys
  BY ReaderAsks DEF Reading
<1>2. Asking(t)' /\ Key(t)' = k
  BY <1>1 DEF Asking, Key
<1>3. seen[t] \subseteq seen'[t] /\ (Removed(k) => None \in seen'[t])
  BY <1>2, SeenGrows
<1>4. Lookup(k) \in seen'[t]
  BY <1>1, <1>3 DEF SeenOK
<1> SUFFICES remote'[k] \in seen'[t]
  BY <1>2 DEF FromServer
<1>5. remote[k] \in seen'[t]
  BY <1>3 DEF FromServer
<1>6. remote \in [Keys -> Vals \cup {None}]
  BY DEF Core, Types
<1>7. CASE \E u \in Threads : RemoveRemote(u)
  <2>1. PICK u \in Threads : RemoveRemote(u)
    BY <1>7
  <2>2. /\ pc[u] = "remote" /\ Done(u) /\ remote' = [remote EXCEPT ![Key(u)] = None]
        /\ Race({r \in {"late_remove", "crossed_get"} :
                  /\ op[u].kind = "put"
                  /\ r = "late_remove" => Key(u) \notin pinned[u]
                  /\ r = "crossed_get" => \E w \in Threads : Asking(w) /\ Key(w) = Key(u)
                                           /\ pc[w] \in {"look", "recheck", "forward"}})
    BY <2>1 DEF RemoveRemote
  <2>3. CASE Key(u) # k
    BY <1>1, <1>5, <1>6, <2>2, <2>3
  <2>4. CASE Key(u) = k
    <3>1. op[u].kind # "put"
      BY <1>1, <2>2, <2>4 DEF Race, Uncrossed
    <3>2. op[u].kind = "remove" /\ pc'[u] = "idle"
      BY <2>2, <3>1, DoneFacts DEF Core, OpOK
    <3>3. Removed(k)
      BY <2>2, <2>4, <3>2 DEF Removed
    <3> QED
      BY <1>1, <1>3, <1>6, <2>2, <2>4, <3>3
  <2> QED
    BY <2>3, <2>4
<1>8. CASE \E e \in Entries : Evict(e)
  <2>1. PICK e \in Entries : Evict(e)
    BY <1>8
  <2>2. /\ ~IsNull(e) /\ \A u \in Threads : ptr[e].key \notin pinned[u]
        /\ remote' = IF ptr[e].dirty THEN [remote EXCEPT ![ptr[e].key] = ptr[e].val] ELSE remote
    BY <2>1 DEF Evict
  <2>3. IsObj(e) /\ \A u \in Threads : ~Fresh(u, e)
    BY <2>2, ObjFacts, SourceFacts
  <2>4. e \in Shown
    BY <2>3 DEF Shown
  <2>5. ptr[e].key = k => ptr[e].val = Lookup(k)
    BY <1>1, <2>4, LookupIs
  <2> QED
    BY <1>1, <1>4, <1>5, <1>6, <2>2, <2>5
<1> QED
  BY <1>5, <1>7, <1>8, RemoteSteps

\* A step of somebody else.
LEMMA OthersRead ==
  ASSUME Core, Core', Step, Watch, Uncrossed', SeenOK, NEW a, Aside(a),
         NEW t \in Threads \ {a}, ReadOK(t),
         a \in Threads => Begin(a) \/ GetStep(a) \/ PutStep(a),
         \/ Links({}) \/ (a \in Threads /\ Reset(a))
         \/ \E k \in Keys : Links({k}) /\ Becomes(k, {})
  PROVE  ReadOK(t)'
<1>1. pc'[t] = pc[t] /\ op'[t] = op[t] /\ (t \notin late' => t \notin late)
  BY DEF Aside
<1>2. pc[t] \in {"look", "recheck", "forward"} /\ FromServer(t) => FromServer(t)'
  BY <1>1, ServerKept
<1>3. CASE pc[t] = "look"
  <2> SUFFICES ASSUME t \notin late' PROVE (FromServer(t) \/ Hit(t))' /\ Follows(t)'
    BY <1>1, <1>3 DEF ReadOK
  <2>1. (FromServer(t) \/ Hit(t)) /\ Follows(t)
    BY <1>1, <1>3 DEF ReadOK
  <2>2. Follows(t)'
    BY <1>3, <2>1, FollowsKept
  <2>3. CASE FromServer(t)
    BY <1>2, <1>3, <2>2, <2>3
  <2>4. CASE Hit(t)
    <3>1. Hit(t)' \/ \A v, d : <<Key(t), v, d>> \notin Cached'
      BY <1>3, <2>1, <2>4, HitKept
    <3>2. ASSUME \A v, d : <<Key(t), v, d>> \notin Cached' PROVE FromServer(t)'
      <4>1. Asking(t) /\ Key(t) \in Keys
        BY <1>3, ReaderAsks DEF Reading
      <4>2. Asking(t)' /\ Key(t)' = Key(t)
        BY <1>1, <4>1 DEF Asking, Key
      <4>3. Lookup(Key(t))' \in seen'[t]
        BY <4>2, SeenGrows
      <4>4. \A k \in Keys : (\A v, d : <<k, v, d>> \notin Cached') => Lookup(k)' = remote'[k]
        BY CachedIsNext DEF CachedFacts
      <4>5. PICK k \in Keys : k = Key(t) /\ Key(t)' = k
        BY <4>1, <4>2
      <4>6. Lookup(Key(t))' = Lookup(k)'
        BY <4>5 DEF Lookup, Holding, Slots, IsNull
      <4>7. Lookup(k)' = remote'[k]
        BY <3>2, <4>4, <4>5
      <4> QED
        BY <4>3, <4>5, <4>6, <4>7 DEF FromServer
    <3> QED
      BY <2>2, <3>1, <3>2
  <2> QED
    BY <2>1, <2>3, <2>4
<1>4. CASE pc[t] = "value"
  <2>1. Asking(t)
    BY <1>4, ReaderAsks DEF Reading
  <2>2. Asking(t)'
    BY <1>1, <2>1 DEF Asking
  <2>3. seen[t] \subseteq seen'[t]
    BY <2>2, SeenGrows
  <2> QED
    BY <1>1, <1>4, <2>3 DEF ReadOK
<1> QED
  BY <1>1, <1>2, <1>3, <1>4 DEF ReadOK

\* A step of the reader itself.
LEMMA ReadBitsRead ==
  ASSUME Core, NEW t \in Threads, ReadBits(t), SeenOK
  PROVE  /\ pc'[t] = "look" /\ remote' = remote /\ Key(t)' = Key(t)
         /\ (remote[Key(t)] \in seen[t] \/ Hit(t)') /\ Follows(t)'
<1>0. pc[t] = "bits" /\ UNCHANGED <<bitmap, ptr, remote>> /\ Goto(t, "look")
      /\ op' = [op EXCEPT ![t].bits = bitmap[Home_(t)]]
  BY DEF ReadBits, table
<1>1. /\ Asking(t) /\ Key(t) \in Keys /\ Home_(t) = Home[Key(t)] /\ Home_(t) \in Entries
  BY <1>0, ReaderAsks DEF Reading
<1>2. /\ op'[t].bits = bitmap[Home_(t)] /\ op'[t].home = op[t].home /\ op'[t].key = op[t].key
      /\ \A u \in Threads : op'[u].dist = op[u].dist /\ op'[u].idx = op[u].idx
  BY <1>0 DEF Core, Types, OpTypes
<1>3. pc'[t] = "look" /\ \A u \in Threads \ {t} : pc'[u] = pc[u]
  BY <1>0, GotoFacts
<1>4. Key(t)' = Key(t) /\ Home_(t)' = Home_(t) /\ \A u \in Threads : Anchor(u)' = Anchor(u)
  BY <1>2 DEF Key, Home_, Anchor
<1>5. ASSUME Holding(Key(t)) # {} PROVE Hit(t)'
  <2>1. PICK o \in bitmap[Home_(t)] : ~IsNull(Home_(t) + o) /\ ptr[Home_(t) + o].key = Key(t)
    BY <1>1, <1>5 DEF Holding, Slots
  <2>2. IsObj(Home_(t) + o)
    BY <1>1, <2>1, BitFacts, ObjFacts
  <2> QED
    BY <1>0, <1>2, <1>4, <2>1, <2>2 DEF Hit, IsObj
<1>6. ASSUME Holding(Key(t)) = {} PROVE remote[Key(t)] \in seen[t]
  BY <1>1, <1>6 DEF Lookup, SeenOK
<1>7. Follows(t)'
  <2> SUFFICES ASSUME NEW u \in Threads, pc'[u] \in {"copy", "reset"}, Anchor(u)' = Home_(t)'
               PROVE  op'[u].dist \in op'[t].bits
    BY DEF Follows
  <2>1. pc[u] \in {"copy", "reset"} /\ Anchor(u) = Home_(t)
    BY <1>3, <1>4
  <2>2. op[u].dist \in bitmap[Anchor(u)]
    BY <2>1 DEF Core, MoveOK
  <2> QED
    BY <1>2, <2>1, <2>2
<1> QED
  BY <1>0, <1>3, <1>4, <1>5, <1>6, <1>7

\* The reader has followed its first bit, to nothing or to another key.
LEMMA LookMisses ==
  ASSUME Core, NEW t \in Threads, pc[t] = "look", op[t].bits # {},
         LET e == Home_(t) + Min(op[t].bits) IN IsNull(e) \/ ptr[e].key # Key(t),
         op' = [op EXCEPT ![t].bits = @ \ {Min(@)}],
         UNCHANGED <<bitmap, ptr>>, pc' = pc
  PROVE  (Hit(t) => Hit(t)') /\ (Follows(t) => Follows(t)')
<1> DEFINE m == Min(op[t].bits)
<1>1. op[t].bits \in SUBSET Offsets /\ op[t].bits # {}
  BY OpFacts
<1>2. m \in op[t].bits /\ m \in Offsets /\ \A x \in op[t].bits : m <= x
  BY <1>1, MinOfOffsets
<1>3. /\ op'[t].bits = op[t].bits \ {m} /\ op'[t].home = op[t].home /\ op'[t].key = op[t].key
      /\ \A u \in Threads : op'[u].dist = op[u].dist /\ op'[u].idx = op[u].idx
  BY DEF Core, Types, OpTypes
<1>4. Key(t)' = Key(t) /\ Home_(t)' = Home_(t) /\ \A u \in Threads : Anchor(u)' = Anchor(u)
  BY <1>3 DEF Key, Home_, Anchor
<1>5. Home_(t) + m \in Entries
  BY <1>2, HomeFacts
<1>6. ~(IsObj(Home_(t) + m) /\ ptr[Home_(t) + m].key = Key(t))
  BY <1>5, ObjFacts
<1> HIDE DEF m
<1>7. Hit(t) => Hit(t)'
  <2> SUFFICES ASSUME NEW o \in op[t].bits, o \in bitmap[Home_(t)], IsObj(Home_(t) + o),
                      ptr[Home_(t) + o].key = Key(t)
               PROVE  Hit(t)'
    BY DEF Hit
  <2>1. o # m
    BY <1>6
  <2> QED
    BY <1>3, <1>4, <2>1 DEF Hit, IsObj
<1>8. ASSUME Follows(t) PROVE Follows(t)'
  <2> SUFFICES ASSUME NEW u \in Threads, pc[u] \in {"copy", "reset"}, Anchor(u) = Home_(t),
                      Min(bitmap[Anchor(u)]) \in op[t].bits \ {m}
               PROVE  op[u].dist \in op[t].bits \ {m}
    BY <1>3, <1>4 DEF Follows
  <2>1. op[u].dist \in op[t].bits
    BY <1>8 DEF Follows
  <2>2. Min(bitmap[Anchor(u)]) < op[u].dist /\ Min(bitmap[Anchor(u)]) \in Nat
    BY MoveFacts DEF Moving
  <2>3. m <= Min(bitmap[Anchor(u)]) /\ m \in Nat /\ op[u].dist \in Nat
    BY <1>2, OpFacts, Sizes
  <2>4. op[u].dist # m
    BY <2>2, <2>3
  <2> QED
    BY <2>1, <2>4
<1> QED
  BY <1>7, <1>8

\* The object to which the first bit leads is not being inserted.
LEMMA LookHits ==
  ASSUME Core, NEW t \in Threads, pc[t] = "look", op[t].bits # {}, SeenOK,
         NEW e, e = Home_(t) + Min(op[t].bits), ~IsNull(e), ptr[e].key = Key(t),
         \A u \in Threads : ~(pc[u] = "publish" /\ op[u].idx = e)
  PROVE  ptr[e].val \in seen[t]
<1>1. op[t].bits \in SUBSET Offsets
  BY OpFacts
<1>2. Min(op[t].bits) \in Offsets
  BY <1>1, MinOfOffsets
<1>3. e \in Entries /\ Key(t) \in Keys
  BY <1>2, HomeFacts
<1>4. IsObj(e) /\ \A u \in Threads : ~Fresh(u, e)
  BY <1>3, ObjFacts DEF Fresh
<1>5. e \in Shown
  BY <1>3, <1>4 DEF Shown
<1>6. Lookup(Key(t)) = ptr[e].val
  BY <1>3, <1>5, LookupIs
<1>7. Asking(t)
  BY ReaderAsks DEF Reading
<1> QED
  BY <1>6, <1>7 DEF SeenOK

LEMMA LookRead ==
  ASSUME Core, NEW t \in Threads, Look(t), Watch, SeenOK, Uncrossed', ReadOK(t)
  PROVE  ReadOK(t)'
<1>0. pc[t] = "look" /\ UNCHANGED <<bitmap, ptr, remote, late>>
  BY DEF Look, table
<1>1. CASE op[t].bits = {} /\ Goto(t, "recheck") /\ UNCHANGED op
  <2>1. pc'[t] = "recheck"
    BY <1>1, GotoFacts
  <2>2. t \notin late => FromServer(t)
    BY <1>0, <1>1 DEF ReadOK, Hit
  <2>3. Asking(t)'
    BY <1>0, <1>1, ReaderAsks DEF Reading, Asking
  <2>4. seen[t] \subseteq seen'[t]
    BY <2>3, SeenGrows
  <2>5. FromServer(t) => FromServer(t)'
    BY <1>0, <1>1, <2>4 DEF FromServer, Key
  <2> QED
    BY <1>0, <2>1, <2>2, <2>5 DEF ReadOK
<1>2. CASE /\ op[t].bits # {} /\ UNCHANGED pc
           /\ LET e == Home_(t) + Min(op[t].bits) IN IsNull(e) \/ ptr[e].key # Key(t)
           /\ op' = [op EXCEPT ![t].bits = @ \ {Min(@)}]
  <2>1. (Hit(t) => Hit(t)') /\ (Follows(t) => Follows(t)')
    BY <1>0, <1>2, LookMisses
  <2>2. op'[t].kind = op[t].kind /\ op'[t].val = op[t].val /\ op'[t].key = op[t].key
    BY <1>2 DEF Core, Types, OpTypes
  <2>3. Asking(t)'
    BY <1>0, <2>2, ReaderAsks DEF Reading, Asking
  <2>4. seen[t] \subseteq seen'[t]
    BY <2>3, SeenGrows
  <2>5. FromServer(t) => FromServer(t)'
    BY <1>0, <2>2, <2>4 DEF FromServer, Key
  <2>6. pc'[t] = "look"
    BY <1>0, <1>2
  <2> QED
    BY <1>0, <2>1, <2>5, <2>6 DEF ReadOK
<1>3. CASE LET e == Home_(t) + Min(op[t].bits)
           IN /\ op[t].bits # {} /\ ~IsNull(e) /\ ptr[e].key = Key(t)
              /\ op' = [op EXCEPT ![t].val = ptr[e].val] /\ Goto(t, "value")
  <2> DEFINE e == Home_(t) + Min(op[t].bits)
  <2>1. Race(IF op[t].bits # {} /\ \E u \in Threads : pc[u] = "publish" /\ op[u].idx = e
             THEN {"early_read"} ELSE {})
    BY DEF Look
  <2>2. \A u \in Threads : ~(pc[u] = "publish" /\ op[u].idx = e)
    BY <1>3, <2>1 DEF Race, Uncrossed
  <2>3. ptr[e].val \in seen[t]
    BY <1>0, <1>3, <2>2, LookHits
  <2>4. pc'[t] = "value"
    BY <1>3, GotoFacts
  <2>5. op'[t].val = ptr[e].val /\ op'[t].kind = op[t].kind
    BY <1>3 DEF Core, Types, OpTypes
  <2> HIDE DEF e
  <2>6. Asking(t)
    BY <1>0, ReaderAsks DEF Reading
  <2>7. Asking(t)'
    BY <2>4, <2>5, <2>6 DEF Asking
  <2>8. seen[t] \subseteq seen'[t]
    BY <2>7, SeenGrows
  <2> QED
    BY <2>3, <2>4, <2>5, <2>8 DEF ReadOK
<1>4. CASE Restart(t)
  <2>1. pc'[t] = "stash"
    BY <1>4, GotoFacts DEF Restart
  <2> QED
    BY <2>1 DEF ReadOK
<1> QED
  BY <1>1, <1>2, <1>3, <1>4 DEF Look

LEMMA RecheckRead ==
  ASSUME Core, NEW t \in Threads, Recheck(t), Watch, ReadOK(t)
  PROVE  ReadOK(t)'
<1>0. pc[t] = "recheck" /\ UNCHANGED remote
  BY DEF Recheck, table
<1>1. CASE t \in late
  <2>1. pc'[t] \in {"stamp", "slow"}
    BY <1>1, GotoFacts DEF Recheck
  <2> QED
    BY <2>1 DEF ReadOK
<1>2. CASE t \notin late
  <2>1. pc'[t] = "forward" /\ UNCHANGED op
    BY <1>2, GotoFacts DEF Recheck
  <2>2. FromServer(t)
    BY <1>0, <1>2 DEF ReadOK
  <2>3. Asking(t)'
    BY <1>0, <2>1, ReaderAsks DEF Reading, Asking
  <2>4. seen[t] \subseteq seen'[t]
    BY <2>3, SeenGrows
  <2>5. FromServer(t)'
    BY <1>0, <2>1, <2>2, <2>4 DEF FromServer, Key
  <2> QED
    BY <2>1, <2>5 DEF ReadOK
<1> QED
  BY <1>1, <1>2

LEMMA ScanSlowRead ==
  ASSUME Core, NEW t \in Threads, ScanSlow(t), Watch, SeenOK
  PROVE  ReadOK(t)'
<1>0. pc[t] = "slowscan" /\ UNCHANGED remote
  BY DEF ScanSlow
<1>1. CASE Done(t)
  BY <1>1, DoneFacts DEF ReadOK
<1>2. CASE Stops(Home_(t), Key(t), TRUE) = {} /\ Goto(t, "forward") /\ UNCHANGED op
  <2>1. pc'[t] = "forward"
    BY <1>2, GotoFacts
  <2>2. Asking(t) /\ Key(t) \in Keys
    BY <1>0, ReaderAsks DEF Reading
  <2>3. \A e \in Shown : ptr[e].key # Key(t)
    BY <1>0, <1>2, ScanMisses DEF Shown
  <2>4. remote[Key(t)] \in seen[t]
    BY <2>2, <2>3, LookupIs DEF SeenOK
  <2>5. Asking(t)'
    BY <1>0, <1>2, <2>2 DEF Asking
  <2>6. seen[t] \subseteq seen'[t]
    BY <2>5, SeenGrows
  <2>7. FromServer(t)'
    BY <1>0, <1>2, <2>4, <2>6 DEF FromServer, Key
  <2> QED
    BY <2>1, <2>7 DEF ReadOK
<1> QED
  BY <1>1, <1>2 DEF ScanSlow

LEMMA OwnRead ==
  ASSUME Core, NEW t \in Threads, Begin(t) \/ GetStep(t) \/ PutStep(t), Watch, SeenOK,
         Uncrossed', ReadOK(t)
  PROVE  ReadOK(t)'
<1>1. CASE Begin(t) \/ PutStep(t)
  BY <1>1, NotToRead DEF ReadOK
<1>2. CASE ReadStamp(t) \/ CopyVal(t) \/ LockSlow(t) \/ Forward(t)
  <2>1. pc'[t] \in {"bits", "slowscan", "idle", "lock"}
    BY <1>2, GotoFacts, DoneFacts DEF ReadStamp, CopyVal, LockSlow, Forward
  <2> QED
    BY <2>1 DEF ReadOK
<1>3. CASE ReadBits(t)
  <2>1. /\ pc'[t] = "look" /\ remote' = remote /\ Key(t)' = Key(t)
        /\ (remote[Key(t)] \in seen[t] \/ Hit(t)') /\ Follows(t)'
    BY <1>3, ReadBitsRead
  <2>2. pc[t] = "bits" /\ op'[t].kind = op[t].kind /\ op'[t].val = op[t].val
    BY <1>3 DEF ReadBits, Core, Types, OpTypes
  <2>3. Asking(t)'
    BY <2>2, ReaderAsks DEF Reading, Asking
  <2>4. seen[t] \subseteq seen'[t]
    BY <2>3, SeenGrows
  <2>5. remote[Key(t)] \in seen[t] => FromServer(t)'
    BY <2>1, <2>4 DEF FromServer
  <2> QED
    BY <2>1, <2>5 DEF ReadOK
<1> QED
  BY <1>1, <1>2, <1>3, LookRead, RecheckRead, ScanSlowRead DEF GetStep

LEMMA StepAsk ==
  ASSUME Core, Core', Step, Watch, Sound', AskOK
  PROVE  AskOK'
<1>1. SeenOK'
  BY SeenGrows DEF SeenOK
<1>2. ASSUME Uncrossed', NEW t \in Threads PROVE ReadOK(t)'
  <2>1. Uncrossed
    BY <1>2, RacesGrow DEF Uncrossed
  <2>2. ReadOK(t) /\ SeenOK
    BY <2>1 DEF AskOK
  <2>3. CASE Collector
    <3>1. t \in Threads \ {None} /\ None \notin Threads
      BY NoneAssumption
    <3>2. Aside(None) /\ (Links({}) \/ \E k \in Keys : Links({k}) /\ Becomes(k, {}))
      BY <2>3, CollectorLinks
    <3> QED
      BY <1>2, <2>2, <3>1, <3>2, OthersRead
  <2>4. ASSUME NEW a \in Threads, Begin(a) \/ GetStep(a) \/ PutStep(a) PROVE ReadOK(t)'
    <3>1. CASE a = t
      BY <1>2, <2>2, <2>4, <3>1, OwnRead
    <3>2. CASE a # t
      <4>1. /\ Aside(a)
            /\ \/ Links({}) \/ Reset(a)
               \/ \E k \in Keys : Links({k}) /\ Becomes(k, {})
        BY <2>4, ReaderLinks, PutLinks
      <4> QED
        BY <1>2, <2>2, <2>4, <3>2, <4>1, OthersRead
    <3> QED
      BY <3>1, <3>2
  <2> QED
    BY <2>3, <2>4 DEF Step
<1> QED
  BY <1>1, <1>2 DEF AskOK

-----------------------------------------------------------------------------
\* The answers.

\* Only these steps answer a get.
LEMMA AnswerSteps ==
  ASSUME Core, NEW t \in Threads, Step, Sound', Asking(t), ~Asking(t)'
  PROVE  CopyVal(t) \/ (ScanSlow(t) /\ Done(t)) \/ Forward(t)
<1>1. op'[t] # op[t] \/ pc'[t] # pc[t]
  BY DEF Asking
<1>2. ~Collector
  BY <1>1, CollectorLinks, NoneAssumption DEF Aside
<1>3. PICK a \in Threads : Begin(a) \/ GetStep(a) \/ PutStep(a)
  BY <1>2 DEF Step
<1>4. a = t
  BY <1>1, <1>3, ReaderLinks, PutLinks DEF Aside
<1>5. pc[t] # "idle" /\ op[t].kind = "get" /\ (op[t].val \in Vals => pc[t] = "value")
  BY NoneAssumption DEF Asking, Core, OpOK, Idle
<1>6. pc[t] \notin Writing \ {"stash"}
  BY <1>5 DEF Core, OpOK, Writing
<1>7. ~Begin(t)
  BY <1>5 DEF Begin, Start
<1>8. ASSUME pc[t] # "value", op'[t].kind = op[t].kind, op'[t].val = op[t].val PROVE FALSE
  BY <1>8 DEF Asking
<1>9. ~PutStep(t)
  <2>1. ~Stash(t)
    BY <1>8 DEF Stash
  <2>2. pc[t] \notin {"lock", "scan", "write", "probe", "room", "from", "tick", "copy",
                      "reset", "clear", "alloc", "publish", "remote"}
    BY <1>6 DEF Writing
  <2> QED
    BY <2>1, <2>2 DEF PutStep, LockBucket, Scan, WriteVal, Probe, Room, Bug, Dislodge, Tick,
                      CopyPtr, ResetPtr, ClearBit, Allocate, Publish, RemoveRemote
<1>10. GetStep(t)
  BY <1>3, <1>4, <1>7, <1>9
<1>11. ASSUME \/ op' = op
              \/ op' = [op EXCEPT ![t].bits = bitmap[Home_(t)]]
              \/ op' = [op EXCEPT ![t].bits = @ \ {Min(@)}]
              \/ op' = [op EXCEPT ![t].tries = @ + 1],
              pc[t] # "value"
       PROVE  FALSE
  <2>1. op'[t].kind = op[t].kind /\ op'[t].val = op[t].val
    BY <1>11 DEF Core, Types, OpTypes
  <2> QED
    BY <1>8, <1>11, <2>1
<1>12. ~ReadStamp(t) /\ ~ReadBits(t) /\ ~Recheck(t) /\ ~LockSlow(t)
  BY <1>11 DEF ReadStamp, ReadBits, Recheck, LockSlow
<1>13. ~Look(t)
  <2>1. ASSUME NEW v, op' = [op EXCEPT ![t].val = v], Goto(t, "value") PROVE FALSE
    <3>1. op'[t].kind = op[t].kind /\ pc'[t] = "value"
      BY <2>1, GotoFacts DEF Core, Types, OpTypes
    <3> QED
      BY <1>5, <3>1 DEF Asking
  <2> QED
    BY <1>11, <2>1 DEF Look, Restart
<1>14. ScanSlow(t) => Done(t)
  BY <1>11 DEF ScanSlow
<1> QED
  BY <1>10, <1>12, <1>13, <1>14 DEF GetStep

LEMMA SlowAnswers ==
  ASSUME Core, NEW t \in Threads, ScanSlow(t), Done(t), Asking(t), SeenOK
  PROVE  Answer(t) \in seen[t]
<1> DEFINE b == Home_(t)
           o == Min(Stops(b, Key(t), TRUE))
<1>1. pc[t] = "slowscan" /\ pc'[t] = "idle"
  BY DoneFacts DEF ScanSlow
<1>2. Stops(b, Key(t), TRUE) # {}
  <2>1. ~Goto(t, "forward")
    BY <1>1, GotoFacts
  <2> QED
    BY <2>1 DEF ScanSlow
<1>3. b \in Entries /\ Key(t) \in Keys
  BY <1>1, ReaderAsks DEF Reading
<1>4. o \in bitmap[b] /\ IsObj(b + o) /\ ptr[b + o].key = Key(t)
  BY <1>2, <1>3, StopFacts
<1>5. b + o \in Shown
  BY <1>3, <1>4, LinkedShown
<1>6. Lookup(Key(t)) = ptr[b + o].val
  BY <1>3, <1>4, <1>5, LookupIs
<1> QED
  BY <1>1, <1>6 DEF Answer, SeenOK

LEMMA StepAnswers ==
  ASSUME Core, Step, Sound', Uncrossed', AskOK
  PROVE  AnswersSeen
<1>1. Uncrossed
  BY RacesGrow DEF Uncrossed
<1> SUFFICES ASSUME NEW t \in Threads, Asking(t), ~Asking(t)' PROVE Answer(t) \in seen[t]
  BY DEF AnswersSeen
<1>2. SeenOK /\ ReadOK(t)
  BY <1>1 DEF AskOK
<1>3. CASE Forward(t)
  BY <1>2, <1>3 DEF Forward, ReadOK, FromServer, Answer
<1>4. CASE CopyVal(t)
  BY <1>2, <1>4 DEF CopyVal, ReadOK, Answer
<1> QED
  BY <1>2, <1>3, <1>4, AnswerSteps, SlowAnswers

LEMMA InitAsk == Init => AskOK
<1> SUFFICES ASSUME Init PROVE AskOK
  OBVIOUS
<1>1. \A t \in Threads : pc[t] = "idle" /\ op[t].kind = "none"
  BY DEF Init, Idle
<1> QED
  BY <1>1 DEF AskOK, SeenOK, ReadOK, Asking

LEMMA AskStutters ==
  ASSUME AskOK, UNCHANGED vars
  PROVE  AskOK'
<1>1. UNCHANGED <<bitmap, ptr, remote, pc, op, late, seen, races>>
  BY DEF vars, table
<1>2. SeenOK'
  <2> SUFFICES ASSUME NEW t \in Threads, Asking(t)' PROVE (Lookup(Key(t)) \in seen[t])'
    BY DEF SeenOK
  <2>1. Asking(t) /\ Key(t)' = Key(t)
    BY <1>1 DEF Asking, Key
  <2>2. Lookup(Key(t))' = Lookup(Key(t))
    BY <1>1, <2>1 DEF Lookup, Holding, Slots, IsNull
  <2> QED
    BY <1>1, <2>1, <2>2 DEF AskOK, SeenOK
<1>3. Uncrossed' => Uncrossed
  BY <1>1 DEF Uncrossed
<1>4. ASSUME NEW t \in Threads, ReadOK(t) PROVE ReadOK(t)'
  BY <1>1, <1>4 DEF ReadOK, FromServer, Hit, Follows, Anchor, Home_, Key, IsObj
<1> QED
  BY <1>2, <1>3, <1>4 DEF AskOK

LEMMA AskHolds == Spec => [](Sound => AskOK)
<1>1. Init => (Sound => AskOK)
  BY InitAsk
<1>2. (Sound => Core) /\ (Sound => Core)' /\ (Sound => AskOK) /\ [Next]_vars
        => (Sound => AskOK)'
  <2> SUFFICES ASSUME Sound => Core, Core', Sound => AskOK, [Next]_vars, Sound'
               PROVE  AskOK'
    OBVIOUS
  <2>1. CASE Step /\ Watch
    BY <2>1, SoundBefore, StepAsk
  <2>2. CASE UNCHANGED vars
    <3>1. Sound
      BY <2>2 DEF vars, Sound
    <3> QED
      BY <2>2, <3>1, AskStutters
  <2> QED
    BY <2>1, <2>2 DEF Next, Finished
<1> QED
  BY <1>1, <1>2, CoreHolds, PTL DEF Spec

\* A get answers what its key had at some time since it began, although it reads
\* bits and entries without a lock while keys are moved, evicted and put back,
\* unless it met an object whose bit was not set yet, asked a server from which a
\* put was removing the key, or copied the value while a put wrote another over
\* it (__get, forward_get).
THEOREM GetIsRightHolds == Spec => GetIsRight
<1>1. /\ Sound => Core /\ AskOK
      /\ [Next]_vars
      => [Sound' /\ Uncrossed' => AnswersSeen]_vars
  <2> SUFFICES ASSUME Sound => Core /\ AskOK, [Next]_vars, Sound', Uncrossed', ~UNCHANGED vars
               PROVE  AnswersSeen
    OBVIOUS
  <2>1. Step
    BY DEF Next, Finished
  <2> QED
    BY <2>1, SoundBefore, StepAnswers
<1> QED
  BY <1>1, CoreHolds, AskHolds, PTL DEF Spec, GetIsRight
=============================================================================
