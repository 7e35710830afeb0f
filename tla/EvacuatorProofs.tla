-------------------------- MODULE EvacuatorProofs --------------------------
(***************************************************************************)
(* Proofs about Evacuator, for any number of threads, pointers, regions,   *)
(* cores and objects per region: types, scopes, memory that is not         *)
(* initialised yet, who owns memory, and that no write is lost.            *)
(***************************************************************************)
EXTENDS Evacuator, FiniteSetTheorems, TLAPS

-----------------------------------------------------------------------------
(* Allocation.                                                             *)

\* What the heap looks like after an allocation, successful or not.
LEMMA AllocTyped ==
  ASSUME HeapTyped, NEW c \in Cores, NEW a \in Addr, NEW ref \in {0, 1},
         allocate_local_object(c, a, ref)
  PROVE  /\ rstate' \in [Regions -> {"free", "local", "used", "from"}]
         /\ bump' \in [Regions -> 0..Slots]
         /\ refcnt' \in [Regions -> Int]
         /\ cur' \in [Cores -> Regions \cup {None}]
<1>1. CASE HasRoom(c)
  <2>1. cur[c] \in Regions /\ bump[cur[c]] + 1 \in 0..Slots
    BY <1>1, SlotsAssumption DEF HeapTyped, HasRoom
  <2> QED
    BY <1>1, <2>1 DEF HeapTyped, allocate_local_object
<1>2. CASE ~HasRoom(c)
  <2>1. 1 \in 0..Slots
    BY SlotsAssumption
  <2> QED
    BY <1>2, <2>1 DEF HeapTyped, allocate_local_object, RefilledState,
                      FreeRegions
<1> QED
  BY <1>1, <1>2

\* The same after an allocation that found no memory.
LEMMA AllocFailTyped ==
  ASSUME HeapTyped, NEW c \in Cores, allocate_local_object_fails(c)
  PROVE  /\ rstate' \in [Regions -> {"free", "local", "used", "from"}]
         /\ bump' \in [Regions -> 0..Slots]
         /\ refcnt' \in [Regions -> Int]
         /\ cur' \in [Cores -> Regions \cup {None}]
BY DEF HeapTyped, allocate_local_object_fails, RefilledState

-----------------------------------------------------------------------------
(* Types.                                                                  *)

\* A thread between operations has an operand record too.
LEMMA IdleTyped == Idle \in OpType
BY DEF Idle, OpType

\* Metadata written by the metadata operations is typed.
LEMMA MetaTyped ==
  /\ Null \in MetaType
  /\ gc_wb \in MetaType
  /\ \A a \in Addr : set_present(a) \in MetaType
  /\ \A a \in Addr, m \in MetaType :
       mutator_copy(m, a) \in MetaType /\ gc_copy(m, a) \in MetaType
<1>1. 0 \in 0..HotThresh /\ HotThresh \in 0..HotThresh
  BY HotAssumption
<1>2. Null \in MetaType /\ gc_wb \in MetaType
  BY <1>1 DEF Null, gc_wb, Meta, MetaType
<1>3. ASSUME NEW a \in Addr PROVE set_present(a) \in MetaType
  BY <1>1 DEF set_present, Meta, MetaType
<1>4. ASSUME NEW a \in Addr, NEW m \in MetaType
      PROVE  mutator_copy(m, a) \in MetaType /\ gc_copy(m, a) \in MetaType
  BY <1>1 DEF mutator_copy, gc_copy, MetaType
<1> QED
  BY <1>2, <1>3, <1>4

\* Returning a raw pointer keeps the operands typed.
LEMMA ReturnTyped ==
  ASSUME ScopesTyped, OperandsTyped, NEW t \in Threads, NEW p \in Ptrs,
         NEW mut \in BOOLEAN, NEW a \in Addr, Return(t, p, mut, a)
  PROVE  OperandsTyped'
<1> DEFINE old == {w \in raw[t] : w.ptr = p /\ w.addr = a}
<1>1. [ptr |-> p, addr |-> a, mut |-> mut \/ \E w \in old : w.mut] \in RawType
  BY DEF RawType
<1>2. raw' \in [Threads -> SUBSET RawType]
  BY <1>1 DEF Return, OperandsTyped
<1> QED
  BY <1>2, IdleTyped DEF Return, OperandsTyped, ScopesTyped

\* So does every path out of a read of the metadata.
LEMMA DerefTyped ==
  ASSUME TypeOK, NEW t \in Threads, NEW p \in Ptrs, NEW mut \in BOOLEAN,
         _deref(t, p, mut)
  PROVE  OperandsTyped'
<1> USE DEF TypeOK
<1>1. CASE Return(t, p, mut, meta[p].addr) /\ meta[p].state = "present"
  BY <1>1, ReturnTyped DEF PointersTyped
<1>2. CASE /\ op' = [op EXCEPT ![t] = Idle]
           /\ pc' = [pc EXCEPT ![t] = "in"]
           /\ UNCHANGED raw
  BY <1>2, IdleTyped DEF OperandsTyped, ScopesTyped
<1>3. ASSUME NEW l \in {"swap_in", "migrate"},
             op' = [op EXCEPT ![t] =
                      [Idle EXCEPT !.ptr = p, !.mut = mut, !.addr = None]],
             pc' = [pc EXCEPT ![t] = l],
             UNCHANGED raw
      PROVE  OperandsTyped'
  <2>1. [Idle EXCEPT !.ptr = p, !.mut = mut, !.addr = None] \in OpType
    BY DEF Idle, OpType
  <2> QED
    BY <1>3, <2>1 DEF OperandsTyped, ScopesTyped, Idle
<1>4. ASSUME meta[p].state = "present",
             op' = [op EXCEPT ![t] =
               [Idle EXCEPT !.ptr = p, !.mut = mut, !.addr = meta[p].addr]],
             pc' = [pc EXCEPT ![t] = "bits"],
             UNCHANGED raw
      PROVE  OperandsTyped'
  <2>1. meta[p].addr \in Addr
    BY <1>4 DEF PointersTyped
  <2>2. [Idle EXCEPT !.ptr = p, !.mut = mut, !.addr = meta[p].addr] \in OpType
    BY <2>1 DEF Idle, OpType
  <2> QED
    BY <1>4, <2>1, <2>2 DEF OperandsTyped, ScopesTyped, Idle
<1> QED
  BY <1>1, <1>2, <1>3, <1>4 DEF _deref

\* So does the snapshot a flush begins with.
LEMMA FlushTyped ==
  ASSUME ScopesTyped, OperandsTyped, PointersTyped, NEW t \in Threads,
         NEW p \in Ptrs, _flush(t, p)
  PROVE  OperandsTyped'
<1> DEFINE go == meta[p].state = "present" /\ meta[p].dirty
<1>1. CASE go
  <2>1. meta[p].addr \in Addr /\ meta[p] \in MetaType
    BY <1>1 DEF PointersTyped
  <2> DEFINE o == [Idle EXCEPT !.ptr = p, !.addr = meta[p].addr, !.snap = meta[p]]
  <2>2. o \in OpType /\ o.ptr = p /\ o.addr = meta[p].addr
    BY <2>1 DEF Idle, OpType
  <2>3. /\ op' = [op EXCEPT ![t] = o]
        /\ pc' = [pc EXCEPT ![t] = "flush_lock"]
        /\ raw' = raw
    BY <1>1 DEF _flush
  <2> HIDE DEF o
  <2> QED
    BY <2>1, <2>2, <2>3 DEF OperandsTyped, ScopesTyped
<1>2. CASE ~go
  BY <1>2, IdleTyped DEF _flush, OperandsTyped, ScopesTyped
<1> QED
  BY <1>1, <1>2

\* The initial states are typed.
LEMMA TypeInit == Init => TypeOK
<1> SUFFICES ASSUME Init PROVE TypeOK
  OBVIOUS
<1> USE DEF Init
<1>1. ScopesTyped
  BY DEF ScopesTyped, InScope, PcType
<1>2. OperandsTyped
  BY IdleTyped DEF OperandsTyped
<1>3. PointersTyped
  BY MetaTyped DEF PointersTyped, Null, Meta
<1>4. HeapTyped
  BY SlotsAssumption DEF HeapTyped, ObjType, Unused
<1>5. CollectorTyped
  BY DEF CollectorTyped
<1> QED
  BY <1>1, <1>2, <1>3, <1>4, <1>5 DEF TypeOK

\* Every step keeps the types.
LEMMA TypeStep == TypeOK /\ [Next]_vars => TypeOK'
<1> SUFFICES ASSUME TypeOK, [Next]_vars PROVE TypeOK'
  OBVIOUS
<1> USE DEF TypeOK, scopeVars, threadVars, heapVars, gcVars
<1>1. ASSUME NEW t \in Threads, EnterSnapshot(t)
      PROVE  TypeOK'
  <2>1. ScopesTyped'
    BY <1>1 DEF ScopesTyped, EnterSnapshot, InScope, PcType
  <2>2. OperandsTyped'
    BY <1>1, IdleTyped DEF OperandsTyped, ScopesTyped, EnterSnapshot
  <2>3. PointersTyped' /\ HeapTyped' /\ CollectorTyped'
    BY <1>1 DEF PointersTyped, HeapTyped, CollectorTyped, EnterSnapshot
  <2> QED
    BY <2>1, <2>2, <2>3
<1>2. ASSUME NEW t \in Threads, EnterCount(t)
      PROVE  TypeOK'
  <2>1. ScopesTyped'
    BY <1>2 DEF ScopesTyped, EnterCount, Record, Races, PcType
  <2>2. OperandsTyped'
    BY <1>2, IdleTyped DEF OperandsTyped, ScopesTyped, EnterCount
  <2>3. PointersTyped' /\ HeapTyped' /\ CollectorTyped'
    BY <1>2 DEF PointersTyped, HeapTyped, CollectorTyped, EnterCount
  <2> QED
    BY <2>1, <2>2, <2>3
<1>3. ASSUME NEW t \in Threads, AllocInit(t)
      PROVE  TypeOK'
  <2>1. ScopesTyped'
    BY <1>3 DEF ScopesTyped, AllocInit, PcType
  <2>2. OperandsTyped'
    BY <1>3, IdleTyped DEF OperandsTyped, ScopesTyped, AllocInit, Idle
  <2>3. PointersTyped'
    BY <1>3, MetaTyped DEF PointersTyped, OperandsTyped, AllocInit, set_present, Meta, MetaType
  <2>4. HeapTyped'
    <3>1. refcnt' \in [Regions -> Int]
      <4>1. op[t].new[1] \in Regions
        BY <1>3 DEF OperandsTyped, AllocInit, Addr
      <4>2. refcnt[op[t].new[1]] - 1 \in Int
        BY <4>1 DEF HeapTyped
      <4> QED
        BY <1>3, <4>1, <4>2 DEF HeapTyped, AllocInit
    <3>2. obj' \in [Addr -> ObjType]
      BY <1>3 DEF HeapTyped, OperandsTyped, AllocInit, ObjType
    <3> QED
      BY <1>3, <3>1, <3>2 DEF HeapTyped, AllocInit
  <2>5. CollectorTyped'
    BY <1>3 DEF CollectorTyped, AllocInit
  <2> QED
    BY <2>1, <2>2, <2>3, <2>4, <2>5
<1>4. ASSUME NEW t \in Threads, DerefRetry(t)
      PROVE  TypeOK'
  <2>1. ScopesTyped'
    BY <1>4 DEF ScopesTyped, DerefRetry, _deref, Return, PcType
  <2>2. OperandsTyped'
    <3>1. op[t].ptr \in Ptrs /\ op[t].mut \in BOOLEAN
      BY <1>4 DEF OperandsTyped, DerefRetry, OpType
    <3> QED
      BY <1>4, <3>1, DerefTyped DEF DerefRetry
  <2>3. PointersTyped' /\ HeapTyped' /\ CollectorTyped'
    BY <1>4 DEF PointersTyped, HeapTyped, CollectorTyped, DerefRetry, _deref, Return
  <2> QED
    BY <2>1, <2>2, <2>3
<1>5. ASSUME NEW t \in Threads, DerefBits(t)
      PROVE  TypeOK'
  <2>1. ScopesTyped'
    BY <1>5 DEF ScopesTyped, DerefBits, Return, Record, Races, PcType
  <2>2. OperandsTyped'
    BY <1>5, IdleTyped DEF OperandsTyped, ScopesTyped, DerefBits, Return, RawType, Idle, OpType
  <2>3. PointersTyped'
    <3> DEFINE p == op[t].ptr
               m == [meta[p] EXCEPT
                      !.dirty = @ \/ op[t].mut,
                      !.hot = IF @ = 0 THEN 0 ELSE @ - 1]
    <3>1. p \in Ptrs /\ op[t].mut \in BOOLEAN
      BY <1>5 DEF OperandsTyped, DerefBits, OpType
    <3>2. meta[p] \in MetaType
      BY <3>1 DEF PointersTyped
    <3>3. (IF meta[p].hot = 0 THEN 0 ELSE meta[p].hot - 1) \in 0..HotThresh
      BY <3>2, HotAssumption DEF MetaType
    <3>4. m \in MetaType /\ m.addr = meta[p].addr /\ m.state = meta[p].state
      BY <3>1, <3>2, <3>3 DEF MetaType
    <3>5. meta' = meta \/ meta' = [meta EXCEPT ![p] = m]
      BY <1>5, <3>1 DEF DerefBits, PointersTyped
    <3> QED
      BY <1>5, <3>1, <3>4, <3>5 DEF PointersTyped, DerefBits
  <2>4. HeapTyped' /\ CollectorTyped'
    BY <1>5 DEF HeapTyped, CollectorTyped, DerefBits, Return
  <2> QED
    BY <2>1, <2>2, <2>3, <2>4
<1>6. ASSUME NEW t \in Threads, SwapInLock(t)
      PROVE  TypeOK'
  <2>1. ScopesTyped'
    BY <1>6 DEF ScopesTyped, SwapInLock, Retry, PcType
  <2>2. OperandsTyped'
    BY <1>6, IdleTyped DEF OperandsTyped, ScopesTyped, SwapInLock, Retry
  <2>3. PointersTyped'
    BY <1>6, MetaTyped DEF PointersTyped, OperandsTyped, SwapInLock
  <2>4. HeapTyped' /\ CollectorTyped'
    BY <1>6 DEF HeapTyped, CollectorTyped, SwapInLock
  <2> QED
    BY <2>1, <2>2, <2>3, <2>4
<1>7. ASSUME NEW t \in Threads, NEW c \in Cores, SwapInAlloc(t, c)
      PROVE  TypeOK'
  <2>1. ScopesTyped'
    BY <1>7 DEF ScopesTyped, SwapInAlloc, PcType
  <2>2. OperandsTyped'
    BY <1>7, IdleTyped DEF OperandsTyped, ScopesTyped, SwapInAlloc, OpType
  <2>3. HeapTyped'
    BY <1>7, SlotsAssumption, AllocTyped, AllocFailTyped DEF HeapTyped, OperandsTyped, SwapInAlloc
  <2>4. PointersTyped' /\ CollectorTyped'
    BY <1>7 DEF PointersTyped, CollectorTyped, SwapInAlloc
  <2> QED
    BY <2>1, <2>2, <2>3, <2>4
<1>8. ASSUME NEW t \in Threads, SwapInRead(t)
      PROVE  TypeOK'
  <2>1. ScopesTyped'
    BY <1>8 DEF ScopesTyped, SwapInRead, Retry, PcType
  <2>2. OperandsTyped'
    BY <1>8, IdleTyped DEF OperandsTyped, ScopesTyped, SwapInRead, Retry, OpType
  <2>3. PointersTyped'
    BY <1>8, MetaTyped DEF PointersTyped, OperandsTyped, SwapInRead, set_present, Meta
  <2>4. HeapTyped'
    BY <1>8, SlotsAssumption DEF HeapTyped, OperandsTyped, SwapInRead, ObjType, Addr, PointersTyped
  <2>5. CollectorTyped'
    BY <1>8 DEF CollectorTyped, SwapInRead
  <2> QED
    BY <2>1, <2>2, <2>3, <2>4, <2>5
<1>9. ASSUME NEW t \in Threads, MigrateSnap(t)
      PROVE  TypeOK'
  <2>1. ScopesTyped'
    BY <1>9 DEF ScopesTyped, MigrateSnap, PcType
  <2>2. OperandsTyped'
    <3> DEFINE m == meta[op[t].ptr]
               a == IF m.state = "present" THEN m.addr ELSE None
    <3>1. op[t].ptr \in Ptrs
      BY <1>9 DEF OperandsTyped, MigrateSnap
    <3>2. a \in Addr \cup {None}
      BY <3>1 DEF PointersTyped
    <3>3. [op[t] EXCEPT !.addr = a] \in OpType
      BY <3>2 DEF OperandsTyped, OpType
    <3> QED
      BY <1>9, <3>1, <3>3 DEF OperandsTyped, ScopesTyped, MigrateSnap, OpType
  <2>3. PointersTyped' /\ HeapTyped' /\ CollectorTyped'
    BY <1>9 DEF PointersTyped, HeapTyped, CollectorTyped, MigrateSnap
  <2> QED
    BY <2>1, <2>2, <2>3
<1>9b. ASSUME NEW t \in Threads, MigrateCheck(t)
      PROVE  TypeOK'
  <2>1. ScopesTyped'
    BY <1>9b DEF ScopesTyped, MigrateCheck, Record, Races, PcType
  <2>2. OperandsTyped'
    <3>1. op[t] \in OpType
      BY DEF OperandsTyped
    <3>2. op[t].addr # None => op[t].addr \in Addr
      BY <3>1 DEF OpType
    <3> QED
      BY <1>9b, <3>1, <3>2 DEF OperandsTyped, ScopesTyped, MigrateCheck, OpType
  <2>3. PointersTyped' /\ HeapTyped' /\ CollectorTyped'
    BY <1>9b DEF PointersTyped, HeapTyped, CollectorTyped, MigrateCheck
  <2> QED
    BY <2>1, <2>2, <2>3
<1>10. ASSUME NEW t \in Threads, MigrateLock(t)
      PROVE  TypeOK'
  <2>1. ScopesTyped'
    BY <1>10 DEF ScopesTyped, MigrateLock, Record, Races, PcType
  <2>2. OperandsTyped'
    BY <1>10, IdleTyped DEF OperandsTyped, ScopesTyped, MigrateLock, OpType
  <2>3. PointersTyped'
    BY <1>10, MetaTyped DEF PointersTyped, OperandsTyped, MigrateLock
  <2>4. HeapTyped' /\ CollectorTyped'
    BY <1>10 DEF HeapTyped, CollectorTyped, MigrateLock
  <2> QED
    BY <2>1, <2>2, <2>3, <2>4
<1>11. ASSUME NEW t \in Threads, NEW c \in Cores, MigrateCopy(t, c)
      PROVE  TypeOK'
  <2>1. ScopesTyped'
    BY <1>11 DEF ScopesTyped, MigrateCopy, Retry, Races, PcType
  <2>2. OperandsTyped'
    <3>1. ASSUME NEW a \in Addr, op' = [op EXCEPT ![t].new = a],
                 pc' = [pc EXCEPT ![t] = "migrate_pub"]
          PROVE  OperandsTyped'
      <4>1. pc[t] = "migrate_copy" /\ raw' = raw
        BY <1>11 DEF MigrateCopy
      <4>2. [op[t] EXCEPT !.new = a] \in OpType
        BY DEF OperandsTyped, OpType
      <4> QED
        BY <3>1, <4>1, <4>2 DEF OperandsTyped, ScopesTyped, OpType
    <3>2. ASSUME op' = [op EXCEPT ![t].addr = None],
                 pc' = [pc EXCEPT ![t] = "deref"]
          PROVE  OperandsTyped'
      BY <1>11, <3>2 DEF OperandsTyped, ScopesTyped, MigrateCopy, OpType
    <3> QED
      BY <1>11, <3>1, <3>2 DEF MigrateCopy, Retry
  <2>3. PointersTyped'
    BY <1>11, MetaTyped DEF PointersTyped, OperandsTyped, MigrateCopy
  <2>4. HeapTyped'
    BY <1>11, SlotsAssumption, AllocTyped, AllocFailTyped DEF HeapTyped, OperandsTyped, MigrateCopy
  <2>5. CollectorTyped'
    BY <1>11 DEF CollectorTyped, MigrateCopy
  <2> QED
    BY <2>1, <2>2, <2>3, <2>4, <2>5
<1>12. ASSUME NEW t \in Threads, MigratePublish(t)
      PROVE  TypeOK'
  <2>1. ScopesTyped'
    BY <1>12 DEF ScopesTyped, MigratePublish, Retry, PcType
  <2>2. OperandsTyped'
    BY <1>12, IdleTyped DEF OperandsTyped, ScopesTyped, MigratePublish, Retry, OpType
  <2>3. PointersTyped'
    <3> DEFINE m == mutator_copy(meta[op[t].ptr], op[t].new)
    <3>1. op[t].ptr \in Ptrs /\ op[t].new \in Addr
      BY <1>12 DEF OperandsTyped, MigratePublish
    <3>2. m \in MetaType
      BY <3>1, MetaTyped DEF PointersTyped
    <3>3. m.addr \in Addr
      BY <3>1 DEF PointersTyped, MetaType, mutator_copy
    <3> QED
      BY <1>12, <3>1, <3>2, <3>3 DEF PointersTyped, MigratePublish
  <2>4. HeapTyped'
    BY <1>12, SlotsAssumption DEF HeapTyped, OperandsTyped, MigratePublish, ObjType
  <2>5. CollectorTyped'
    BY <1>12 DEF CollectorTyped, MigratePublish
  <2> QED
    BY <2>1, <2>2, <2>3, <2>4, <2>5
<1>13. ASSUME NEW t \in Threads, Exit(t)
      PROVE  TypeOK'
  <2>1. ScopesTyped'
    BY <1>13 DEF ScopesTyped, Exit, PcType
  <2>2. OperandsTyped'
    BY <1>13, IdleTyped DEF OperandsTyped, ScopesTyped, Exit
  <2>3. PointersTyped' /\ HeapTyped' /\ CollectorTyped'
    BY <1>13 DEF PointersTyped, HeapTyped, CollectorTyped, Exit
  <2> QED
    BY <2>1, <2>2, <2>3
<1>14. ASSUME NEW t \in Threads, Write(t)
      PROVE  TypeOK'
  <2>1. PointersTyped'
    BY <1>14, MetaTyped DEF PointersTyped, OperandsTyped, Write
  <2>2. HeapTyped'
    <3>1. \A o \in ObjType : [o EXCEPT !.fresh = FALSE] \in ObjType
      BY DEF ObjType
    <3>2. obj' \in [Addr -> ObjType]
      BY <1>14, <3>1 DEF HeapTyped, Write
    <3> QED
      BY <1>14, <3>2 DEF HeapTyped, Write
  <2>3. ScopesTyped' /\ OperandsTyped' /\ CollectorTyped'
    BY <1>14 DEF ScopesTyped, OperandsTyped, CollectorTyped, Write
  <2> QED
    BY <2>1, <2>2, <2>3
<1>15. ASSUME NEW t \in Threads, NEW p \in Ptrs, Free(t, p)
      PROVE  TypeOK'
  <2>1. OperandsTyped'
    BY <1>15, IdleTyped DEF OperandsTyped, ScopesTyped, Free
  <2>2. PointersTyped'
    BY <1>15, MetaTyped DEF PointersTyped, OperandsTyped, Free, Null, Meta
  <2>3. HeapTyped'
    <3>1. \A o \in ObjType : [o EXCEPT !.freed = TRUE, !.fresh = FALSE] \in ObjType
      BY DEF ObjType
    <3>2. obj' \in [Addr -> ObjType]
      BY <1>15, <3>1 DEF HeapTyped, Free, PointersTyped
    <3> QED
      BY <1>15, <3>2 DEF HeapTyped, Free
  <2>4. ScopesTyped' /\ CollectorTyped'
    BY <1>15 DEF ScopesTyped, CollectorTyped, Free
  <2> QED
    BY <2>1, <2>2, <2>3, <2>4
<1>16. ASSUME NEW t \in Threads, NEW p \in Ptrs, NEW mut \in BOOLEAN, DerefStart(t, p, mut)
      PROVE  TypeOK'
  <2>1. ScopesTyped'
    BY <1>16 DEF ScopesTyped, DerefStart, _deref, Return, PcType
  <2>2. OperandsTyped'
    BY <1>16, DerefTyped DEF DerefStart
  <2>3. PointersTyped' /\ HeapTyped' /\ CollectorTyped'
    BY <1>16 DEF PointersTyped, HeapTyped, CollectorTyped, DerefStart, _deref, Return
  <2> QED
    BY <2>1, <2>2, <2>3
<1>17. ASSUME NEW t \in Threads, NEW p \in Ptrs, NEW c \in Cores, AllocLocal(t, p, c)
      PROVE  TypeOK'
  <2>1. ScopesTyped'
    BY <1>17 DEF ScopesTyped, AllocLocal, PcType
  <2>2. OperandsTyped'
    <3>1. ASSUME NEW a \in Addr,
                 op' = [op EXCEPT ![t] = [Idle EXCEPT !.ptr = p, !.new = a]],
                 pc' = [pc EXCEPT ![t] = "alloc"]
          PROVE  OperandsTyped'
      <4>1. [Idle EXCEPT !.ptr = p, !.new = a] \in OpType
        BY DEF Idle, OpType
      <4> QED
        BY <1>17, <3>1, <4>1 DEF OperandsTyped, ScopesTyped, AllocLocal, Idle
    <3>2. CASE UNCHANGED <<op, pc>>
      BY <1>17, <3>2 DEF OperandsTyped, AllocLocal
    <3> QED
      BY <1>17, <3>1, <3>2 DEF AllocLocal
  <2>3. HeapTyped'
    BY <1>17, SlotsAssumption, AllocTyped, AllocFailTyped DEF HeapTyped, OperandsTyped, AllocLocal
  <2>4. PointersTyped' /\ CollectorTyped'
    BY <1>17 DEF PointersTyped, CollectorTyped, AllocLocal
  <2> QED
    BY <2>1, <2>2, <2>3, <2>4
<1>18. ASSUME pick_from_regions
      PROVE  TypeOK'
  <2>1. HeapTyped'
    BY <1>18, SlotsAssumption DEF HeapTyped, OperandsTyped, pick_from_regions
  <2>2. CollectorTyped'
    BY <1>18 DEF CollectorTyped, pick_from_regions, Allocated
  <2>3. ScopesTyped' /\ OperandsTyped' /\ PointersTyped'
    BY <1>18 DEF ScopesTyped, OperandsTyped, PointersTyped, pick_from_regions
  <2> QED
    BY <2>1, <2>2, <2>3
<1>19. ASSUME SkipFreed
      PROVE  TypeOK'
  <2>1. CollectorTyped'
    BY <1>19 DEF CollectorTyped, SkipFreed
  <2>2. ScopesTyped' /\ OperandsTyped' /\ PointersTyped' /\ HeapTyped'
    BY <1>19 DEF ScopesTyped, OperandsTyped, PointersTyped, HeapTyped, SkipFreed
  <2> QED
    BY <2>1, <2>2
<1>20. ASSUME FlipExpected
      PROVE  TypeOK'
  <2>1. ScopesTyped'
    BY <1>20 DEF ScopesTyped, FlipExpected, flip_status, InScope
  <2>2. CollectorTyped'
    BY <1>20 DEF CollectorTyped, FlipExpected
  <2>3. OperandsTyped' /\ PointersTyped' /\ HeapTyped'
    BY <1>20 DEF OperandsTyped, ScopesTyped, PointersTyped, HeapTyped, FlipExpected
  <2> QED
    BY <2>1, <2>2, <2>3
<1>21. ASSUME WaitDone
      PROVE  TypeOK'
  <2>1. CollectorTyped'
    BY <1>21 DEF CollectorTyped, WaitDone, Allocated
  <2>2. ScopesTyped' /\ OperandsTyped' /\ PointersTyped' /\ HeapTyped'
    BY <1>21 DEF ScopesTyped, OperandsTyped, PointersTyped, HeapTyped, WaitDone
  <2> QED
    BY <2>1, <2>2
<1>22. ASSUME WriteBackDone
      PROVE  TypeOK'
  <2>1. CollectorTyped'
    BY <1>22 DEF CollectorTyped, WriteBackDone
  <2>2. ScopesTyped' /\ OperandsTyped' /\ PointersTyped' /\ HeapTyped'
    BY <1>22 DEF ScopesTyped, OperandsTyped, PointersTyped, HeapTyped, WriteBackDone
  <2> QED
    BY <2>1, <2>2
<1>23. ASSUME NEW a \in Addr, MarkObj(a)
      PROVE  TypeOK'
  <2>1. ScopesTyped'
    BY <1>23 DEF ScopesTyped, MarkObj, Record, Races
  <2>2. PointersTyped'
    <3>1. \A m \in MetaType : [m EXCEPT !.evac = TRUE] \in MetaType
      BY DEF MetaType
    <3>2. meta' \in [Ptrs -> MetaType]
      BY <1>23, <3>1 DEF PointersTyped, MarkObj
    <3>3. \A q \in Ptrs : meta'[q].state = meta[q].state
                         /\ meta'[q].addr = meta[q].addr
      BY <1>23 DEF PointersTyped, MarkObj, MetaType
    <3> QED
      BY <1>23, <3>2, <3>3 DEF PointersTyped, MarkObj
  <2>3. CollectorTyped'
    BY <1>23 DEF CollectorTyped, MarkObj
  <2>4. OperandsTyped' /\ HeapTyped'
    BY <1>23 DEF OperandsTyped, ScopesTyped, HeapTyped, MarkObj
  <2> QED
    BY <2>1, <2>2, <2>3, <2>4
<1>24. ASSUME NEW a \in Addr, SwapOutLock(a)
      PROVE  TypeOK'
  <2>1. PointersTyped'
    BY <1>24, MetaTyped DEF PointersTyped, OperandsTyped, SwapOutLock
  <2>2. CollectorTyped'
    <3> DEFINE m == meta[obj[a].ptr]
    <3>1. obj[a].ptr \in Ptrs =>
            [addr |-> a, hot |-> m.hot = 0, dirty |-> m.dirty] \in SwapType
      BY DEF SwapType, PointersTyped, MetaType
    <3> QED
      BY <1>24, <3>1 DEF CollectorTyped, SwapOutLock
  <2>3. ScopesTyped' /\ OperandsTyped' /\ HeapTyped'
    BY <1>24 DEF ScopesTyped, OperandsTyped, HeapTyped, SwapOutLock
  <2> QED
    BY <2>1, <2>2, <2>3
<1>25. ASSUME NEW p \in Ptrs, NEW c \in Cores, SwapOutCopy(p, c)
      PROVE  TypeOK'
  <2>1. PointersTyped'
    <3>1. PICK a \in Addr : meta' = [meta EXCEPT ![p] = gc_copy(meta[p], a)]
      BY <1>25 DEF SwapOutCopy
    <3>2. gc_copy(meta[p], a) \in MetaType
      BY MetaTyped DEF PointersTyped
    <3>3. gc_copy(meta[p], a).addr = a
      BY DEF gc_copy, PointersTyped, MetaType
    <3> QED
      BY <1>25, <3>1, <3>2, <3>3 DEF PointersTyped, SwapOutCopy, SwapOutEnd
  <2>2. HeapTyped'
    BY <1>25, SlotsAssumption, AllocTyped, AllocFailTyped DEF HeapTyped, OperandsTyped, SwapOutCopy, CollectorTyped, SwapType
  <2>3. CollectorTyped'
    BY <1>25 DEF CollectorTyped, SwapOutCopy, SwapOutEnd
  <2>4. ScopesTyped' /\ OperandsTyped'
    BY <1>25 DEF ScopesTyped, OperandsTyped, SwapOutCopy
  <2> QED
    BY <2>1, <2>2, <2>3, <2>4
<1>26. ASSUME NEW p \in Ptrs, NEW c \in Cores, SwapOutWriteBack(p, c)
      PROVE  TypeOK'
  <2>1. PointersTyped'
    BY <1>26, MetaTyped DEF PointersTyped, OperandsTyped, SwapOutWriteBack, SwapOutEnd, gc_wb, Meta, HeapTyped, ObjType, CollectorTyped, SwapType
  <2>2. HeapTyped'
    BY <1>26, SlotsAssumption, AllocTyped, AllocFailTyped DEF HeapTyped, OperandsTyped, SwapOutWriteBack
  <2>3. CollectorTyped'
    BY <1>26 DEF CollectorTyped, SwapOutWriteBack, SwapOutEnd
  <2>4. ScopesTyped' /\ OperandsTyped'
    BY <1>26 DEF ScopesTyped, OperandsTyped, SwapOutWriteBack
  <2> QED
    BY <2>1, <2>2, <2>3, <2>4
<1>27. ASSUME NEW r \in Regions, PushFreeRegion(r)
      PROVE  TypeOK'
  <2>1. HeapTyped'
    BY <1>27, SlotsAssumption DEF HeapTyped, OperandsTyped, PushFreeRegion, ObjType, Unused
  <2>2. CollectorTyped'
    BY <1>27 DEF CollectorTyped, PushFreeRegion
  <2>3. ScopesTyped' /\ OperandsTyped' /\ PointersTyped'
    BY <1>27 DEF ScopesTyped, OperandsTyped, PointersTyped, PushFreeRegion
  <2> QED
    BY <2>1, <2>2, <2>3
<1>28. CASE UNCHANGED vars
  BY <1>28 DEF vars, ScopesTyped, OperandsTyped, PointersTyped, HeapTyped,
              CollectorTyped
<1>29. ASSUME NEW t \in Threads, NEW p \in Ptrs, FlushStart(t, p)
      PROVE  TypeOK'
  <2>1. ScopesTyped'
    BY <1>29 DEF ScopesTyped, FlushStart, _flush, PcType
  <2>2. OperandsTyped'
    BY <1>29, FlushTyped DEF FlushStart
  <2>3. PointersTyped' /\ HeapTyped' /\ CollectorTyped'
    BY <1>29 DEF PointersTyped, HeapTyped, CollectorTyped, FlushStart, _flush
  <2> QED
    BY <2>1, <2>2, <2>3
<1>30. ASSUME NEW t \in Threads, FlushRetry(t)
      PROVE  TypeOK'
  <2>1. ScopesTyped'
    BY <1>30 DEF ScopesTyped, FlushRetry, _flush, PcType
  <2>2. OperandsTyped'
    <3>1. op[t].ptr \in Ptrs
      BY <1>30 DEF OperandsTyped, FlushRetry
    <3> QED
      BY <1>30, <3>1, FlushTyped DEF FlushRetry
  <2>3. PointersTyped' /\ HeapTyped' /\ CollectorTyped'
    BY <1>30 DEF PointersTyped, HeapTyped, CollectorTyped, FlushRetry, _flush
  <2> QED
    BY <2>1, <2>2, <2>3
<1>31. ASSUME NEW t \in Threads, FlushLock(t)
      PROVE  TypeOK'
  <2>1. ScopesTyped'
    BY <1>31 DEF ScopesTyped, FlushLock, Record, Races, PcType
  <2>2. OperandsTyped'
    <3> DEFINE go == meta[op[t].ptr] = op[t].snap
               o == [op[t] EXCEPT !.addr = IF go THEN @ ELSE None, !.snap = None]
    <3>1. op[t].ptr \in Ptrs /\ op[t].addr \in Addr /\ op[t] \in OpType
      BY <1>31 DEF OperandsTyped, FlushLock
    <3>2. o \in OpType /\ o.ptr = op[t].ptr /\ (go => o.addr = op[t].addr)
      BY <3>1 DEF OpType
    <3>3. /\ op' = [op EXCEPT ![t] = o]
          /\ pc' = [pc EXCEPT ![t] = IF go THEN "flush_write" ELSE "flush"]
          /\ raw' = raw
      BY <1>31 DEF FlushLock, OperandsTyped
    <3> HIDE DEF o, go
    <3> QED
      BY <3>1, <3>2, <3>3 DEF OperandsTyped, ScopesTyped
  <2>3. PointersTyped'
    BY <1>31, MetaTyped DEF PointersTyped, OperandsTyped, FlushLock
  <2>4. HeapTyped' /\ CollectorTyped'
    BY <1>31 DEF HeapTyped, CollectorTyped, FlushLock
  <2> QED
    BY <2>1, <2>2, <2>3, <2>4
<1>32. ASSUME NEW t \in Threads, FlushWrite(t)
      PROVE  TypeOK'
  <2>1. ScopesTyped'
    BY <1>32 DEF ScopesTyped, FlushWrite, PcType
  <2>2. OperandsTyped'
    BY <1>32 DEF OperandsTyped, ScopesTyped, FlushWrite
  <2>3. PointersTyped'
    <3>1. op[t].ptr \in Ptrs /\ op[t].addr \in Addr
      BY <1>32 DEF OperandsTyped, FlushWrite
    <3>2. obj[op[t].addr].fresh \in BOOLEAN
      BY <3>1 DEF HeapTyped, ObjType
    <3> QED
      BY <1>32, <3>1, <3>2 DEF PointersTyped, FlushWrite
  <2>4. HeapTyped' /\ CollectorTyped'
    BY <1>32 DEF HeapTyped, CollectorTyped, FlushWrite
  <2> QED
    BY <2>1, <2>2, <2>3, <2>4
<1>33. ASSUME NEW t \in Threads, FlushClean(t)
      PROVE  TypeOK'
  <2>1. ScopesTyped'
    BY <1>33 DEF ScopesTyped, FlushClean, Record, Races, PcType
  <2>2. OperandsTyped'
    BY <1>33, IdleTyped DEF OperandsTyped, ScopesTyped, FlushClean
  <2>3. PointersTyped'
    <3> DEFINE p == op[t].ptr
               m == [meta[p] EXCEPT !.dirty = FALSE]
    <3>1. p \in Ptrs
      BY <1>33 DEF OperandsTyped, FlushClean
    <3>m. meta[p] \in MetaType
      BY <3>1 DEF PointersTyped
    <3>2. m \in MetaType /\ m.addr = meta[p].addr /\ m.state = meta[p].state
      BY <3>m DEF MetaType
    <3>3. meta' = [meta EXCEPT ![p] = m]
      BY <1>33, <3>1 DEF FlushClean, PointersTyped
    <3> QED
      BY <1>33, <3>1, <3>2, <3>3 DEF PointersTyped, FlushClean
  <2>4. HeapTyped' /\ CollectorTyped'
    BY <1>33 DEF HeapTyped, CollectorTyped, FlushClean
  <2> QED
    BY <2>1, <2>2, <2>3, <2>4
<1> QED
  BY <1>1, <1>2, <1>3, <1>4, <1>5, <1>6, <1>7, <1>8, <1>9, <1>9b, <1>10, <1>11, <1>12, <1>13, <1>14, <1>15, <1>16, <1>17, <1>18, <1>19, <1>20, <1>21, <1>22, <1>23, <1>24, <1>25, <1>26, <1>27, <1>28,
     <1>29, <1>30, <1>31, <1>32, <1>33
  DEF Next, Collector, Begin, Finish

\* Every reachable state is well typed: operands are there when the step that
\* needs them is taken.
THEOREM TypeCorrect == Spec => []TypeOK
BY TypeInit, TypeStep, PTL DEF Spec

-----------------------------------------------------------------------------
(* The grace period.                                                       *)

\* A step that neither enters, leaves nor flips a scope status, and does not
\* end the wait, cannot break the grace period.
LEMMA QuietStep ==
  ASSUME GracePeriod, expected' = expected, status' = status,
         \A t \in Threads : pc[t] = "entering" => pc'[t] = "entering",
         gc' # "wait" => gc # "wait", races \subseteq races'
  PROVE  GracePeriod'
BY DEF GracePeriod, Counted

\* Every step keeps the grace period: being counted late is recorded, the flip
\* starts a wait, and the wait ends when nobody is counted under the old
\* status.
LEMMA GraceStep == TypeOK /\ GracePeriod /\ [Next]_vars => GracePeriod'
<1> SUFFICES ASSUME TypeOK, GracePeriod, [Next]_vars PROVE GracePeriod'
  OBVIOUS
<1>pc. pc \in [Threads -> PcType] /\ status \in [Threads -> InScope \cup {"Out"}]
       /\ expected \in InScope
  BY DEF TypeOK, ScopesTyped
<1> USE DEF scopeVars, threadVars, heapVars, gcVars
<1>1. ASSUME NEW t \in Threads, EnterSnapshot(t) PROVE GracePeriod'
  BY <1>1, <1>pc DEF EnterSnapshot, GracePeriod, Counted
<1>2. ASSUME NEW t \in Threads, EnterCount(t) PROVE GracePeriod'
  <2>1. CASE status[t] # expected
    BY <1>2, <2>1 DEF EnterCount, Record, GracePeriod
  <2>2. CASE status[t] = expected
    <3>1. flip_status(expected) # expected
      BY DEF flip_status
    <3>2. races' = races /\ gc' = gc /\ expected' = expected /\ status' = status
      BY <1>2, <2>2 DEF EnterCount, Record
    <3>3. \A u \in Threads \ {t} : pc'[u] = pc[u]
      BY <1>2, <1>pc DEF EnterCount
    <3> QED
      BY <2>2, <3>1, <3>2, <3>3 DEF GracePeriod, Counted
  <2> QED
    BY <2>1, <2>2
<1>3. ASSUME NEW t \in Threads, Exit(t) PROVE GracePeriod'
  <2>1. \A u \in Threads : pc'[u] = "entering" <=> pc[u] = "entering"
    BY <1>3, <1>pc DEF Exit
  <2>2. \A u \in Threads : status'[u] = status[u] \/ status'[u] = "Out"
    BY <1>3, <1>pc DEF Exit
  <2>3. flip_status(expected) # "Out"
    BY DEF flip_status
  <2> QED
    BY <1>3, <2>1, <2>2, <2>3 DEF Exit, GracePeriod, Counted
<1>4. CASE FlipExpected
  BY <1>4 DEF FlipExpected, GracePeriod
<1>5. CASE WaitDone
  BY <1>5 DEF WaitDone, GracePeriod, Counted
<1>6. ASSUME NEW t \in Threads,
             \/ AllocInit(t) \/ DerefRetry(t) \/ DerefBits(t) \/ SwapInLock(t)
             \/ SwapInRead(t) \/ MigrateSnap(t) \/ MigrateCheck(t) \/ MigrateLock(t)
             \/ MigratePublish(t) \/ Write(t)
             \/ \E c \in Cores : SwapInAlloc(t, c) \/ MigrateCopy(t, c)
             \/ FlushRetry(t) \/ FlushLock(t) \/ FlushWrite(t) \/ FlushClean(t)
             \/ \E p \in Ptrs : Free(t, p) \/ FlushStart(t, p)
             \/ \E p \in Ptrs, mut \in BOOLEAN : DerefStart(t, p, mut)
             \/ \E p \in Ptrs, c \in Cores : AllocLocal(t, p, c)
      PROVE  GracePeriod'
  <2>1. pc[t] # "entering" /\ \A u \in Threads \ {t} : pc'[u] = pc[u]
    BY <1>6, <1>pc DEF AllocInit, DerefRetry, DerefBits, SwapInLock, SwapInRead,
      MigrateSnap, MigrateCheck, MigrateLock, MigratePublish, Write, SwapInAlloc, MigrateCopy,
      Free, DerefStart, AllocLocal, _flush, FlushStart, FlushRetry, FlushLock,
      FlushWrite, FlushClean, _deref, Return, Retry
  <2>2. /\ expected' = expected /\ status' = status /\ gc' = gc
        /\ races \subseteq races'
    BY <1>6 DEF AllocInit, DerefRetry, DerefBits, SwapInLock, SwapInRead,
      MigrateSnap, MigrateCheck, MigrateLock, MigratePublish, Write, SwapInAlloc, MigrateCopy,
      Free, DerefStart, AllocLocal, _flush, FlushStart, FlushRetry, FlushLock,
      FlushWrite, FlushClean, _deref, Record
  <2> QED
    BY <2>1, <2>2, QuietStep
<1>7. CASE \/ pick_from_regions \/ SkipFreed \/ WriteBackDone
           \/ \E a \in Addr : MarkObj(a) \/ SwapOutLock(a)
           \/ \E p \in Ptrs, c \in Cores :
                SwapOutCopy(p, c) \/ SwapOutWriteBack(p, c)
           \/ \E r \in Regions : PushFreeRegion(r)
  <2>1. expected' = expected /\ status' = status /\ pc' = pc
        /\ (gc' # "wait" => gc # "wait") /\ races \subseteq races'
    BY <1>7 DEF pick_from_regions, SkipFreed, WriteBackDone, MarkObj,
      SwapOutLock, SwapOutCopy, SwapOutWriteBack, PushFreeRegion, Record
  <2> QED
    BY <2>1, QuietStep
<1>8. CASE UNCHANGED vars
  BY <1>8, QuietStep DEF vars
<1> QED
  BY <1>1, <1>2, <1>3, <1>4, <1>5, <1>6, <1>7, <1>8
  DEF Next, Collector, Begin, Finish

\* Unless a thread is counted late, nobody is counted under the old status
\* when the collector writes back, reuses regions or starts the next round.
THEOREM GracePeriodHolds == Spec => []GracePeriod
<1>1. Init => GracePeriod
  BY DEF Init, GracePeriod, Counted, flip_status
<1> QED
  BY <1>1, GraceStep, TypeCorrect, PTL DEF Spec

-----------------------------------------------------------------------------
(* The evacuator implements ScopeSpec.                                     *)

\* A step that leaves the four variables of ScopeSpec alone is a stutter.
LEMMA QuietScopes ==
  ASSUME pc \in [Threads -> PcType],
         expected' = expected, status' = status,
         \A t \in Threads : pc'[t] = "entering" <=> pc[t] = "entering",
         gc' = "wait" <=> gc = "wait",
         "late_enter" \in races' <=> "late_enter" \in races
  PROVE  UNCHANGED Scopes!vars
BY DEF Scopes!vars

\* A thread about to be counted has the status it is counted under.
EnteringHasStatus ==
  \A t \in Threads : pc[t] = "entering" => status[t] \in InScope

LEMMA EnteringStep ==
  TypeOK /\ EnteringHasStatus /\ [Next]_vars => EnteringHasStatus'
<1> SUFFICES ASSUME TypeOK, EnteringHasStatus, [Next]_vars
             PROVE  EnteringHasStatus'
  OBVIOUS
<1>pc. pc \in [Threads -> PcType] /\ status \in [Threads -> InScope \cup {"Out"}]
       /\ expected \in InScope
  BY DEF TypeOK, ScopesTyped
<1> USE DEF scopeVars, threadVars, heapVars, gcVars
<1>1. ASSUME NEW t \in Threads, EnterSnapshot(t) PROVE EnteringHasStatus'
  BY <1>1, <1>pc DEF EnterSnapshot, EnteringHasStatus
<1>2. ASSUME NEW t \in Threads, EnterCount(t) \/ Exit(t)
      PROVE  EnteringHasStatus'
  BY <1>2, <1>pc DEF EnterCount, Exit, EnteringHasStatus
<1>3. ASSUME NEW t \in Threads, Begin(t) \/ Finish(t),
             ~EnterSnapshot(t), ~EnterCount(t), ~Exit(t)
      PROVE  EnteringHasStatus'
  <2>1. pc'[t] # "entering" /\ \A u \in Threads \ {t} : pc'[u] = pc[u]
    BY <1>3, <1>pc DEF Begin, Finish, AllocInit, DerefRetry, DerefBits,
      SwapInLock, SwapInRead, MigrateSnap, MigrateCheck, MigrateLock, MigratePublish, Write,
      SwapInAlloc, MigrateCopy, _flush, FlushStart, FlushRetry, FlushLock,
      FlushWrite, FlushClean, Free, DerefStart, AllocLocal, _deref, Return,
      Retry
  <2>2. status' = status
    BY <1>3 DEF Begin, Finish, AllocInit, DerefRetry, DerefBits,
      SwapInLock, SwapInRead, MigrateSnap, MigrateCheck, MigrateLock, MigratePublish, Write,
      SwapInAlloc, MigrateCopy, _flush, FlushStart, FlushRetry, FlushLock,
      FlushWrite, FlushClean, Free, DerefStart, AllocLocal, _deref
  <2> QED
    BY <2>1, <2>2 DEF EnteringHasStatus
<1>4. CASE Collector \/ UNCHANGED vars
  <2>1. pc' = pc /\ status' = status
    BY <1>4 DEF Collector, vars, pick_from_regions, SkipFreed, WriteBackDone,
      FlipExpected, WaitDone, MarkObj, SwapOutLock, SwapOutCopy,
      SwapOutWriteBack, PushFreeRegion
  <2> QED
    BY <2>1 DEF EnteringHasStatus
<1> QED
  BY <1>1, <1>2, <1>3, <1>4 DEF Next

\* Entering is counting, not reading the expected status; flipping and ending
\* the wait are the collector's own steps; every other step is a stutter.
LEMMA ScopesStep ==
  TypeOK /\ EnteringHasStatus /\ [Next]_vars => [Scopes!Next]_(Scopes!vars)
<1> SUFFICES ASSUME TypeOK, EnteringHasStatus, [Next]_vars
             PROVE  [Scopes!Next]_(Scopes!vars)
  OBVIOUS
<1>pc. pc \in [Threads -> PcType] /\ status \in [Threads -> InScope \cup {"Out"}]
       /\ expected \in InScope
  BY DEF TypeOK, ScopesTyped
<1> USE DEF scopeVars, threadVars, heapVars, gcVars
<1> DEFINE scope == [t \in Threads |->
                       IF pc[t] = "entering" THEN "Out" ELSE status[t]]
<1>1. ASSUME NEW t \in Threads, EnterSnapshot(t)
      PROVE  Scopes!Exit(t) \/ UNCHANGED Scopes!vars
  <2>1. scope'[t] = "Out" /\ \A u \in Threads \ {t} : scope'[u] = scope[u]
    BY <1>1, <1>pc DEF EnterSnapshot
  <2>2. scope' = [scope EXCEPT ![t] = "Out"]
    BY <2>1
  <2>3. expected' = expected /\ gc' = gc /\ races' = races
    BY <1>1 DEF EnterSnapshot
  <2>4. CASE scope[t] = "Out"
    BY <2>1, <2>3, <2>4 DEF Scopes!vars
  <2>5. CASE scope[t] # "Out"
    BY <2>2, <2>3, <2>5 DEF Scopes!Exit
  <2> QED
    BY <2>4, <2>5
<1>2. ASSUME NEW t \in Threads, EnterCount(t)
      PROVE  Scopes!Enter(t) \/ UNCHANGED Scopes!vars
  <2>1. scope[t] = "Out" /\ scope'[t] = status[t]
        /\ \A u \in Threads \ {t} : scope'[u] = scope[u]
    BY <1>2, <1>pc DEF EnterCount
  <2>2. scope' = [scope EXCEPT ![t] = status[t]]
    BY <2>1
  <2>3. expected' = expected /\ gc' = gc
        /\ ("late_enter" \in races' <=>
              "late_enter" \in races \/ status[t] # expected)
    BY <1>2 DEF EnterCount, Record
  <2>4. status[t] \in Scopes!Class
    BY <1>2 DEF EnterCount, EnteringHasStatus, InScope, Scopes!Class
  <2>5. ("late_enter" \in races') =
          ("late_enter" \in races \/ status[t] # expected)
    BY <2>3
  <2>6. (gc' = "wait") = (gc = "wait")
    BY <2>3
  <2> HIDE DEF scope
  <2>7. \E s \in Scopes!Class :
           /\ scope' = [scope EXCEPT ![t] = s]
           /\ ("late_enter" \in races') =
                ("late_enter" \in races \/ s # expected)
    BY <2>2, <2>4, <2>5
  <2> QED
    BY <2>1, <2>3, <2>6, <2>7, Zenon DEF scope, Scopes!Enter
<1>3. ASSUME NEW t \in Threads, Exit(t)
      PROVE  Scopes!Exit(t) \/ UNCHANGED Scopes!vars
  <2>1. scope'[t] = "Out" /\ \A u \in Threads \ {t} : scope'[u] = scope[u]
    BY <1>3, <1>pc DEF Exit
  <2>2. scope' = [scope EXCEPT ![t] = "Out"]
    BY <2>1
  <2>3. expected' = expected /\ gc' = gc /\ races' = races
    BY <1>3 DEF Exit
  <2>4. CASE scope[t] = "Out"
    BY <2>1, <2>3, <2>4 DEF Scopes!vars
  <2>5. CASE scope[t] # "Out"
    BY <2>2, <2>3, <2>5 DEF Scopes!Exit
  <2> QED
    BY <2>4, <2>5
<1>4. CASE FlipExpected
  <2>1. expected' = Scopes!other(expected) /\ gc # "wait"
    BY <1>4 DEF FlipExpected, Scopes!other, flip_status
  <2>2. (gc' = "wait") = TRUE
    BY <1>4 DEF FlipExpected
  <2>3. pc' = pc /\ status' = status /\ races' = races
    BY <1>4 DEF FlipExpected
  <2> QED
    BY <2>1, <2>2, <2>3, Zenon DEF Scopes!Flip, Scopes!Next
<1>5. CASE WaitDone
  <2>1. Scopes!OldClass = {}
    BY <1>5, <1>pc DEF WaitDone, Counted, Scopes!OldClass, Scopes!other,
      flip_status, InScope
  <2>2. gc = "wait" /\ (gc' = "wait") = FALSE
    BY <1>5 DEF WaitDone
  <2>3. expected' = expected /\ pc' = pc /\ status' = status /\ races' = races
    BY <1>5 DEF WaitDone
  <2> QED
    BY <2>1, <2>2, <2>3, Zenon DEF Scopes!EndWait, Scopes!Next
<1>6. ASSUME NEW t \in Threads,
             \/ AllocInit(t) \/ DerefRetry(t) \/ DerefBits(t) \/ SwapInLock(t)
             \/ SwapInRead(t) \/ MigrateSnap(t) \/ MigrateCheck(t) \/ MigrateLock(t)
             \/ MigratePublish(t) \/ Write(t)
             \/ \E c \in Cores : SwapInAlloc(t, c) \/ MigrateCopy(t, c)
             \/ FlushRetry(t) \/ FlushLock(t) \/ FlushWrite(t) \/ FlushClean(t)
             \/ \E p \in Ptrs : Free(t, p) \/ FlushStart(t, p)
             \/ \E p \in Ptrs, mut \in BOOLEAN : DerefStart(t, p, mut)
             \/ \E p \in Ptrs, c \in Cores : AllocLocal(t, p, c)
      PROVE  UNCHANGED Scopes!vars
  <2>1. pc[t] # "entering" /\ pc'[t] # "entering"
        /\ \A u \in Threads \ {t} : pc'[u] = pc[u]
    BY <1>6, <1>pc DEF AllocInit, DerefRetry, DerefBits, SwapInLock, SwapInRead,
      MigrateSnap, MigrateCheck, MigrateLock, MigratePublish, Write, SwapInAlloc, MigrateCopy,
      Free, DerefStart, AllocLocal, _flush, FlushStart, FlushRetry, FlushLock,
      FlushWrite, FlushClean, _deref, Return, Retry
  <2>2. /\ expected' = expected /\ status' = status /\ gc' = gc
        /\ "late_enter" \in races' <=> "late_enter" \in races
    BY <1>6 DEF AllocInit, DerefRetry, DerefBits, SwapInLock, SwapInRead,
      MigrateSnap, MigrateCheck, MigrateLock, MigratePublish, Write, SwapInAlloc, MigrateCopy,
      Free, DerefStart, AllocLocal, _flush, FlushStart, FlushRetry, FlushLock,
      FlushWrite, FlushClean, _deref, Record
  <2> QED
    BY <1>pc, <2>1, <2>2, QuietScopes
<1>7. CASE \/ pick_from_regions \/ SkipFreed \/ WriteBackDone
           \/ \E a \in Addr : MarkObj(a) \/ SwapOutLock(a)
           \/ \E p \in Ptrs, c \in Cores :
                SwapOutCopy(p, c) \/ SwapOutWriteBack(p, c)
           \/ \E r \in Regions : PushFreeRegion(r)
  <2>1. expected' = expected /\ status' = status /\ pc' = pc
        /\ (gc' = "wait" <=> gc = "wait")
        /\ ("late_enter" \in races' <=> "late_enter" \in races)
    BY <1>7 DEF pick_from_regions, SkipFreed, WriteBackDone, MarkObj,
      SwapOutLock, SwapOutCopy, SwapOutWriteBack, PushFreeRegion, Record
  <2> QED
    BY <1>pc, <2>1, QuietScopes
<1>8. CASE UNCHANGED vars
  BY <1>8, <1>pc, QuietScopes DEF vars
<1> QED
  BY <1>1, <1>2, <1>3, <1>4, <1>5, <1>6, <1>7, <1>8
  DEF Next, Collector, Begin, Finish, Scopes!Next

\* The pointers and the collector implement ScopeSpec: for any number of
\* threads, pointers and regions, the wait of wait_mutators_observation ends
\* only when nobody who entered in time is left in the old class.
THEOREM ScopesImplemented == Spec => UsesScopes
<1>1. Init => Scopes!Init
  BY DEF Init, Scopes!Init, Scopes!Class
<1>2. Init => EnteringHasStatus
  BY DEF Init, EnteringHasStatus
<1> QED
  BY <1>1, <1>2, EnteringStep, ScopesStep, TypeCorrect, PTL DEF Spec, UsesScopes, Scopes!Spec

-----------------------------------------------------------------------------
(* Memory that is being filled.                                            *)

\* Thread t has allocated memory and not yet written the object header.
Filling(t) == pc[t] \in {"alloc", "swap_read"}

\* The threads that hold a reference on region r.
Fillers(r) == {t \in Threads : Filling(t) /\ op[t].new[1] = r}

\* A core's region is on no list and belongs to no other core.
CoresOwn ==
  /\ \A c \in Cores : cur[c] # None => rstate[cur[c]] = "local"
  /\ \A c, d \in Cores : cur[c] = cur[d] /\ cur[c] # None => c = d

\* The reference count is the number of these threads: no reference is lost
\* or dropped twice, so a count of zero means that nobody is at work there.
RefsCounted == \A r \in Regions : refcnt[r] = Cardinality(Fillers(r))

\* Memory that is being filled is in no region of the round and in no free one.
FillsKept ==
  \A t \in Threads : Filling(t) => rstate[op[t].new[1]] \in {"local", "used"}

HeapInv == CoresOwn /\ RefsCounted /\ FillsKept

-----------------------------------------------------------------------------
\* The holders of references are finitely many.
LEMMA FillersFinite == \A r : IsFiniteSet(Fillers(r))
BY FS_Subset, ThreadsAssumption DEF Fillers

\* The invariant gives the property.
LEMMA HeapInvUse == TypeOK /\ HeapInv => InitBeforeVisit
<1> SUFFICES ASSUME TypeOK, HeapInv, NEW t \in Threads, Filling(t)
             PROVE  /\ rstate[op[t].new[1]] \in {"local", "used"}
                    /\ refcnt[op[t].new[1]] > 0
  BY DEF InitBeforeVisit, Filling
<1> DEFINE r == op[t].new[1]
<1>1. r \in Regions
  BY DEF TypeOK, OperandsTyped, Filling, Addr
<1>2. t \in Fillers(r)
  BY DEF Fillers
<1>3. Cardinality(Fillers(r)) # 0 /\ Cardinality(Fillers(r)) \in Nat
  BY <1>2, FillersFinite, FS_EmptySet, FS_CardinalityType
<1> QED
  BY <1>1, <1>3 DEF HeapInv, RefsCounted, FillsKept

\* A step by which no thread starts or stops filling memory, and that does not
\* touch the regions.
LEMMA HeapQuiet ==
  ASSUME HeapInv, UNCHANGED heapVars,
         \A t \in Threads : Filling(t)' <=> Filling(t),
         \A t \in Threads : Filling(t) => op'[t].new = op[t].new
  PROVE  HeapInv'
<1>1. \A r : Fillers(r)' = Fillers(r)
  BY DEF Fillers
<1> QED
  BY <1>1 DEF HeapInv, CoresOwn, RefsCounted, FillsKept, heapVars

\* An allocation gives address a in a region of core c; nothing that is being
\* filled changes hands, whether the core's region had room or a free region
\* replaced it.
LEMMA AllocOwn ==
  ASSUME TypeOK, HeapInv, NEW c \in Cores, NEW a \in Addr, NEW ref \in {0, 1},
         allocate_local_object(c, a, ref)
  PROVE  /\ CoresOwn'
         /\ \A r \in Regions : rstate[r] \in {"local", "used"} =>
                                 rstate'[r] \in {"local", "used"}
         /\ a[1] \in Regions /\ rstate'[a[1]] = "local"
         /\ refcnt' = [refcnt EXCEPT ![a[1]] = @ + ref]
<1>1. CASE HasRoom(c)
  BY <1>1 DEF HeapInv, CoresOwn, TypeOK, HeapTyped, HasRoom,
              allocate_local_object
<1>2. CASE ~HasRoom(c)
  <2>1. PICK f \in FreeRegions :
          /\ a = <<f, 1>>
          /\ rstate' = RefilledState(c, f)
          /\ cur' = [cur EXCEPT ![c] = f]
          /\ refcnt' = [refcnt EXCEPT ![f] = @ + ref]
    BY <1>2 DEF allocate_local_object
  <2>2. f \in Regions /\ rstate[f] = "free" /\ f # None
    BY <2>1, NamesAssumption DEF FreeRegions
  <2>3. \A d \in Cores : cur[d] # f
    BY <2>2 DEF HeapInv, CoresOwn
  <2>4. \A r \in Regions : rstate'[r] = IF r = f THEN "local"
                            ELSE IF r = cur[c] THEN "used" ELSE rstate[r]
    BY <2>1 DEF RefilledState
  <2>5. cur \in [Cores -> Regions \cup {None}]
    BY DEF TypeOK, HeapTyped
  <2>6. \A d \in Cores : cur'[d] = IF d = c THEN f ELSE cur[d]
    BY <2>1, <2>5
  <2>7. CoresOwn'
    BY <2>2, <2>3, <2>4, <2>5, <2>6 DEF HeapInv, CoresOwn
  <2> QED
    BY <2>1, <2>2, <2>4, <2>7
<1> QED
  BY <1>1, <1>2

\* The same for an allocation that fails.
LEMMA AllocFailOwn ==
  ASSUME TypeOK, HeapInv, NEW c \in Cores, allocate_local_object_fails(c)
  PROVE  /\ CoresOwn'
         /\ \A r \in Regions : rstate[r] \in {"local", "used"} =>
                                 rstate'[r] \in {"local", "used"}
         /\ refcnt' = refcnt
<1>1. cur \in [Cores -> Regions \cup {None}]
  BY DEF TypeOK, HeapTyped
<1>2. \A d \in Cores : cur'[d] = IF d = c THEN None ELSE cur[d]
  BY <1>1 DEF allocate_local_object_fails
<1>3. \A r \in Regions :
        rstate'[r] = IF r = cur[c] THEN "used" ELSE rstate[r]
  BY NamesAssumption DEF allocate_local_object_fails, RefilledState
<1>4. CoresOwn'
  BY <1>1, <1>2, <1>3 DEF HeapInv, CoresOwn
<1> QED
  BY <1>3, <1>4 DEF allocate_local_object_fails

\* The regions change as by an allocation that keeps no reference, and no thread
\* starts or stops filling memory.
LEMMA HeapMoved ==
  ASSUME TypeOK, HeapInv, CoresOwn',
         \A r \in Regions : rstate[r] \in {"local", "used"} =>
                              rstate'[r] \in {"local", "used"},
         \A r \in Regions : refcnt'[r] = refcnt[r],
         \A t \in Threads : Filling(t)' <=> Filling(t),
         \A t \in Threads : Filling(t) => op'[t].new = op[t].new
  PROVE  HeapInv'
<1>1. \A r : Fillers(r)' = Fillers(r)
  BY DEF Fillers
<1>2. \A t \in Threads : Filling(t) => op[t].new[1] \in Regions
  BY DEF TypeOK, OperandsTyped, Filling, Addr
<1> QED
  BY <1>1, <1>2 DEF HeapInv, RefsCounted, FillsKept

\* Thread t starts to fill memory at a: one more reference, one more thread.
LEMMA HeapTaken ==
  ASSUME TypeOK, HeapInv, NEW t \in Threads, NEW c \in Cores, NEW a \in Addr,
         allocate_local_object(c, a, 1), ~Filling(t), Filling(t)',
         op'[t].new = a,
         \A u \in Threads \ {t} : pc'[u] = pc[u] /\ op'[u] = op[u]
  PROVE  HeapInv'
<1>1. /\ CoresOwn'
      /\ \A r \in Regions : rstate[r] \in {"local", "used"} =>
                              rstate'[r] \in {"local", "used"}
      /\ a[1] \in Regions /\ rstate'[a[1]] = "local"
      /\ refcnt' = [refcnt EXCEPT ![a[1]] = @ + 1]
  BY AllocOwn
<1>2. \A r : Fillers(r)' = IF r = a[1] THEN Fillers(r) \cup {t} ELSE Fillers(r)
  BY DEF Fillers, Filling
<1>3. \A r : t \notin Fillers(r)
  BY DEF Fillers
<1>4. Cardinality(Fillers(a[1]) \cup {t}) = Cardinality(Fillers(a[1])) + 1
  BY <1>3, FillersFinite, FS_AddElement
<1>5. refcnt \in [Regions -> Int]
  BY DEF TypeOK, HeapTyped
<1>6. RefsCounted'
  <2> SUFFICES ASSUME NEW r \in Regions
               PROVE  refcnt'[r] = Cardinality(Fillers(r)')
    BY DEF RefsCounted
  <2>1. refcnt[r] = Cardinality(Fillers(r))
    BY DEF HeapInv, RefsCounted
  <2>2. CASE r = a[1]
    BY <1>1, <1>2, <1>4, <1>5, <2>1, <2>2
  <2>3. CASE r # a[1]
    BY <1>1, <1>2, <1>5, <2>1, <2>3
  <2> QED
    BY <2>2, <2>3
<1>7. FillsKept'
  <2>1. \A u \in Threads : Filling(u) => op[u].new[1] \in Regions
    BY DEF TypeOK, OperandsTyped, Filling, Addr
  <2> QED
    BY <1>1, <2>1 DEF HeapInv, FillsKept, Filling
<1> QED
  BY <1>1, <1>6, <1>7 DEF HeapInv

\* Thread t has written the header and drops its reference.
LEMMA HeapDropped ==
  ASSUME TypeOK, HeapInv, NEW t \in Threads, Filling(t), ~Filling(t)',
         refcnt' = [refcnt EXCEPT ![op[t].new[1]] = @ - 1],
         UNCHANGED <<rstate, cur>>,
         \A u \in Threads \ {t} : pc'[u] = pc[u] /\ op'[u] = op[u]
  PROVE  HeapInv'
<1> DEFINE q == op[t].new[1]
<1>1. q \in Regions /\ refcnt \in [Regions -> Int]
  BY DEF TypeOK, OperandsTyped, HeapTyped, Filling, Addr
<1>2. \A r : Fillers(r)' = IF r = q THEN Fillers(r) \ {t} ELSE Fillers(r)
  BY DEF Fillers, Filling
<1>3. t \in Fillers(q)
  BY DEF Fillers
<1>4. Cardinality(Fillers(q) \ {t}) = Cardinality(Fillers(q)) - 1
  <2> DEFINE S == Fillers(q)
  <2>1. IsFiniteSet(S) /\ t \in S
    BY <1>3, FillersFinite
  <2> HIDE DEF S
  <2>2. Cardinality(S \ {t}) = Cardinality(S) - 1
    BY <2>1, FS_RemoveElement
  <2> QED
    BY <2>2 DEF S
<1>5. RefsCounted'
  <2> SUFFICES ASSUME NEW r \in Regions
               PROVE  refcnt'[r] = Cardinality(Fillers(r)')
    BY DEF RefsCounted
  <2>1. refcnt[r] = Cardinality(Fillers(r))
    BY DEF HeapInv, RefsCounted
  <2>2. CASE r = q
    BY <1>1, <1>2, <1>4, <2>1, <2>2
  <2>3. CASE r # q
    BY <1>1, <1>2, <2>1, <2>3
  <2> QED
    BY <2>2, <2>3
<1>6. CoresOwn' /\ FillsKept'
  BY DEF HeapInv, CoresOwn, FillsKept, Filling
<1> QED
  BY <1>5, <1>6 DEF HeapInv

-----------------------------------------------------------------------------
\* Initially nothing is being filled.
LEMMA HeapInit == Init => HeapInv
<1> SUFFICES ASSUME Init PROVE HeapInv
  OBVIOUS
<1>1. \A t \in Threads : ~Filling(t)
  BY DEF Init, Filling
<1>2. \A r : Fillers(r) = {}
  BY <1>1 DEF Fillers
<1>3. RefsCounted
  BY <1>2, FS_EmptySet DEF Init, RefsCounted
<1>4. CoresOwn
  BY DEF Init, CoresOwn
<1> QED
  BY <1>1, <1>3, <1>4 DEF HeapInv, FillsKept

\* Every step keeps the invariant.  Allocations take a reference and
\* initialisations drop it, the collector picks a region only at count zero.
LEMMA HeapStep == TypeOK /\ HeapInv /\ [Next]_vars => HeapInv'
<1> SUFFICES ASSUME TypeOK, HeapInv, [Next]_vars PROVE HeapInv'
  OBVIOUS
<1>t. /\ pc \in [Threads -> PcType] /\ op \in [Threads -> OpType]
      /\ refcnt \in [Regions -> Int]
      /\ rstate \in [Regions -> {"free", "local", "used", "from"}]
  BY DEF TypeOK, ScopesTyped, OperandsTyped, HeapTyped
<1> USE DEF scopeVars, threadVars, gcVars
<1>1. ASSUME NEW t \in Threads, NEW p \in Ptrs, NEW c \in Cores,
             AllocLocal(t, p, c)
      PROVE  HeapInv'
  <2>1. ASSUME NEW a \in Addr, allocate_local_object(c, a, 1),
               op' = [op EXCEPT ![t] = [Idle EXCEPT !.ptr = p, !.new = a]],
               pc' = [pc EXCEPT ![t] = "alloc"]
        PROVE  HeapInv'
    <3>1. op'[t].new = a
      BY <2>1, <1>t DEF Idle
    <3>2. ~Filling(t) /\ Filling(t)'
      BY <1>1, <2>1, <1>t DEF AllocLocal, Filling
    <3>3. \A u \in Threads \ {t} : pc'[u] = pc[u] /\ op'[u] = op[u]
      BY <2>1, <1>t
    <3> QED
      BY <2>1, <3>1, <3>2, <3>3, HeapTaken
  <2>2. CASE allocate_local_object_fails(c) /\ UNCHANGED <<op, pc>>
    BY <2>2, AllocFailOwn, HeapMoved DEF Filling
  <2> QED
    BY <1>1, <2>1, <2>2 DEF AllocLocal
<1>2. ASSUME NEW t \in Threads, NEW c \in Cores, SwapInAlloc(t, c)
      PROVE  HeapInv'
  <2>1. ASSUME NEW a \in Addr, allocate_local_object(c, a, 1),
               op' = [op EXCEPT ![t].new = a],
               pc' = [pc EXCEPT ![t] = "swap_read"]
        PROVE  HeapInv'
    <3>1. op'[t].new = a
      BY <2>1, <1>t DEF OpType
    <3>2. ~Filling(t) /\ Filling(t)'
      BY <1>2, <2>1, <1>t DEF SwapInAlloc, Filling
    <3>3. \A u \in Threads \ {t} : pc'[u] = pc[u] /\ op'[u] = op[u]
      BY <2>1, <1>t
    <3> QED
      BY <2>1, <3>1, <3>2, <3>3, HeapTaken
  <2>2. CASE allocate_local_object_fails(c) /\ UNCHANGED <<op, pc>>
    BY <2>2, AllocFailOwn, HeapMoved DEF Filling
  <2> QED
    BY <1>2, <2>1, <2>2 DEF SwapInAlloc
<1>3. ASSUME NEW t \in Threads, AllocInit(t) \/ SwapInRead(t)
      PROVE  HeapInv'
  <2>1. Filling(t) /\ ~Filling(t)'
    BY <1>3, <1>t DEF AllocInit, SwapInRead, Retry, Filling
  <2>2. /\ refcnt' = [refcnt EXCEPT ![op[t].new[1]] = @ - 1]
        /\ UNCHANGED <<rstate, cur>>
    BY <1>3 DEF AllocInit, SwapInRead
  <2>3. \A u \in Threads \ {t} : pc'[u] = pc[u] /\ op'[u] = op[u]
    BY <1>3, <1>t DEF AllocInit, SwapInRead, Retry
  <2> QED
    BY <2>1, <2>2, <2>3, HeapDropped
<1>4. ASSUME NEW t \in Threads, NEW c \in Cores, MigrateCopy(t, c)
      PROVE  HeapInv'
  <2>1. \A u \in Threads \ {t} : pc'[u] = pc[u] /\ op'[u] = op[u]
    BY <1>4, <1>t DEF MigrateCopy, Retry
  <2>2. ~Filling(t) /\ ~Filling(t)'
    BY <1>4, <1>t DEF MigrateCopy, Retry, Filling
  <2>3. /\ \A u \in Threads : Filling(u)' <=> Filling(u)
        /\ \A u \in Threads : Filling(u) => op'[u].new = op[u].new
    BY <2>1, <2>2 DEF Filling
  <2>4. ASSUME NEW a \in Addr, allocate_local_object(c, a, 0) PROVE HeapInv'
    <3>1. \A r \in Regions : refcnt'[r] = refcnt[r]
      BY <2>4, <1>t, AllocOwn
    <3> QED
      BY <2>3, <2>4, <3>1, AllocOwn, HeapMoved
  <2>5. CASE allocate_local_object_fails(c)
    BY <2>3, <2>5, AllocFailOwn, HeapMoved
  <2> QED
    BY <1>4, <2>4, <2>5 DEF MigrateCopy
<1>5. ASSUME NEW p \in Ptrs, NEW c \in Cores,
             SwapOutCopy(p, c) \/ SwapOutWriteBack(p, c)
      PROVE  HeapInv'
  <2>1. pc' = pc /\ op' = op
    BY <1>5 DEF SwapOutCopy, SwapOutWriteBack
  <2>2. ASSUME NEW a \in Addr, allocate_local_object(c, a, 0) PROVE HeapInv'
    <3>1. \A r \in Regions : refcnt'[r] = refcnt[r]
      BY <2>2, <1>t, AllocOwn
    <3> QED
      BY <2>1, <2>2, <3>1, AllocOwn, HeapMoved DEF Filling
  <2>3. CASE allocate_local_object_fails(c)
    BY <2>1, <2>3, AllocFailOwn, HeapMoved DEF Filling
  <2>4. CASE UNCHANGED heapVars
    BY <2>1, <2>4, HeapQuiet DEF Filling
  <2> QED
    BY <1>5, <2>2, <2>3, <2>4 DEF SwapOutCopy, SwapOutWriteBack
<1>6. CASE pick_from_regions
  <2>1. PICK rs \in SUBSET {r \in Regions : rstate[r] = "used" /\ refcnt[r] = 0} :
          rstate' = [r \in Regions |-> IF r \in rs THEN "from" ELSE rstate[r]]
    BY <1>6 DEF pick_from_regions
  <2>2. pc' = pc /\ op' = op /\ cur' = cur /\ refcnt' = refcnt
    BY <1>6 DEF pick_from_regions
  <2>3. \A r : Fillers(r)' = Fillers(r)
    BY <2>2 DEF Fillers, Filling
  <2>4. \A r \in rs : Fillers(r) = {}
    BY FillersFinite, FS_EmptySet DEF HeapInv, RefsCounted
  <2>5. \A t \in Threads : Filling(t) => op[t].new[1] \in Regions \ rs
    BY <2>4 DEF TypeOK, OperandsTyped, Filling, Addr, Fillers
  <2>6. FillsKept'
    BY <2>1, <2>2, <2>5 DEF HeapInv, FillsKept, Filling
  <2>7. RefsCounted'
    BY <2>2, <2>3 DEF HeapInv, RefsCounted
  <2>8. CoresOwn'
    <3>1. \A c \in Cores : cur[c] # None => cur[c] \in Regions \ rs
      BY DEF HeapInv, CoresOwn, TypeOK, HeapTyped
    <3> QED
      BY <2>1, <2>2, <3>1 DEF HeapInv, CoresOwn
  <2> QED
    BY <2>6, <2>7, <2>8 DEF HeapInv
<1>7. ASSUME NEW r \in Regions, PushFreeRegion(r) PROVE HeapInv'
  <2>1. /\ pc' = pc /\ op' = op /\ cur' = cur /\ refcnt' = refcnt
        /\ rstate[r] = "from"
        /\ rstate' = [rstate EXCEPT ![r] = "free"]
    BY <1>7 DEF PushFreeRegion
  <2>2. \A q : Fillers(q)' = Fillers(q)
    BY <2>1 DEF Fillers, Filling
  <2>3. FillsKept'
    <3>1. \A t \in Threads : Filling(t) => op[t].new[1] \in Regions \ {r}
      BY <2>1 DEF TypeOK, OperandsTyped, Filling, Addr, HeapInv, FillsKept
    <3> QED
      BY <2>1, <3>1, <1>t DEF HeapInv, FillsKept, Filling
  <2>4. RefsCounted'
    BY <2>1, <2>2 DEF HeapInv, RefsCounted
  <2>5. CoresOwn'
    BY <2>1, <1>t DEF HeapInv, CoresOwn, TypeOK, HeapTyped
  <2> QED
    BY <2>3, <2>4, <2>5 DEF HeapInv
<1>8. ASSUME NEW t \in Threads,
             \/ EnterSnapshot(t) \/ EnterCount(t) \/ Exit(t) \/ Write(t)
             \/ DerefRetry(t) \/ DerefBits(t) \/ SwapInLock(t)
             \/ MigrateSnap(t) \/ MigrateCheck(t) \/ MigrateLock(t) \/ MigratePublish(t)
             \/ FlushRetry(t) \/ FlushLock(t) \/ FlushWrite(t) \/ FlushClean(t)
             \/ \E p \in Ptrs : Free(t, p) \/ FlushStart(t, p)
             \/ \E p \in Ptrs, mut \in BOOLEAN : DerefStart(t, p, mut)
      PROVE  HeapInv'
  <2>1. \A u \in Threads \ {t} : pc'[u] = pc[u] /\ op'[u] = op[u]
    BY <1>8, <1>t DEF EnterSnapshot, EnterCount, Exit, Write, DerefRetry,
      DerefBits, SwapInLock, MigrateSnap, MigrateCheck, MigrateLock, MigratePublish, Free,
      _flush, FlushStart, FlushRetry, FlushLock, FlushWrite, FlushClean,
      DerefStart, _deref, Return, Retry
  <2>2. ~Filling(t) /\ ~Filling(t)'
    BY <1>8, <1>t DEF EnterSnapshot, EnterCount, Exit, Write, DerefRetry,
      DerefBits, SwapInLock, MigrateSnap, MigrateCheck, MigrateLock, MigratePublish, Free,
      _flush, FlushStart, FlushRetry, FlushLock, FlushWrite, FlushClean,
      DerefStart, _deref, Return, Retry, Filling
  <2>3. UNCHANGED heapVars
    BY <1>8 DEF EnterSnapshot, EnterCount, Exit, Write, DerefRetry,
      DerefBits, SwapInLock, MigrateSnap, MigrateCheck, MigrateLock, MigratePublish, Free,
      _flush, FlushStart, FlushRetry, FlushLock, FlushWrite, FlushClean,
      DerefStart, _deref
  <2>4. /\ \A u \in Threads : Filling(u)' <=> Filling(u)
        /\ \A u \in Threads : Filling(u) => op'[u].new = op[u].new
    BY <2>1, <2>2 DEF Filling
  <2> QED
    BY <2>3, <2>4, HeapQuiet
<1>9. CASE \/ SkipFreed \/ FlipExpected \/ WaitDone \/ WriteBackDone
           \/ \E a \in Addr : MarkObj(a) \/ SwapOutLock(a)
           \/ UNCHANGED vars
  <2>1. pc' = pc /\ op' = op /\ UNCHANGED heapVars
    BY <1>9 DEF SkipFreed, FlipExpected, WaitDone, WriteBackDone, MarkObj,
      SwapOutLock, vars
  <2> QED
    BY <2>1, HeapQuiet DEF Filling
<1> QED
  BY <1>1, <1>2, <1>3, <1>4, <1>5, <1>6, <1>7, <1>8, <1>9
  DEF Next, Collector, Begin, Finish

\* Whatever races happen, memory that a thread is still filling is in a region
\* the thread holds a reference on, and the collector neither visits nor frees
\* that region.
THEOREM InitBeforeVisitHolds == Spec => []InitBeforeVisit
BY HeapInit, HeapStep, HeapInvUse, TypeCorrect, PTL DEF Spec

-----------------------------------------------------------------------------
(* What holds after any race.                                              *)

\* A thread is between enter and exit.
ScopePcs == {"in", "deref", "bits", "swap_in", "swap_alloc", "swap_read",
             "migrate", "migrate_check", "migrate_lock", "migrate_copy", "migrate_pub"}

\* A thread at such a step holds the lock of its object.
LockPcs == {"swap_alloc", "swap_read", "migrate_copy", "migrate_pub",
            "flush_write", "flush_clean"}

\* Raw pointers are used inside a scope only.
Scoped ==
  \A t \in Threads :
    /\ raw[t] # {} => pc[t] \in ScopePcs
    /\ pc[t] \in ScopePcs \cup {"entering"} => status[t] \in InScope

\* The object lock is held by the operation in progress.
Locked ==
  /\ \A t \in Threads : pc[t] \in LockPcs => lock[op[t].ptr] = t
  /\ \A p \in Ptrs : swap[p] # None => lock[p] = GC

\* A pointer that is in use has an object, unless it is just being given one.
Used ==
  /\ \A t \in Threads : pc[t] \in {"out", "entering", "in"} => op[t].ptr = None
  /\ \A t \in Threads : pc[t] = "alloc" =>
       /\ meta[op[t].ptr].state = "null"
       /\ \A u \in Threads : op[u].ptr = op[t].ptr => u = t
  /\ \A t \in Threads : op[t].ptr \in Ptrs /\ pc[t] # "alloc" =>
       meta[op[t].ptr].state # "null"
  /\ \A t \in Threads : pc[t] \in {"swap_alloc", "swap_read"} =>
       meta[op[t].ptr].state = "absent"
  /\ \A t \in Threads : \A w \in raw[t] : meta[w.ptr].state # "null"
  /\ \A p \in Ptrs : /\ meta[p].evac => meta[p].state = "present"
                     /\ swap[p] # None => meta[p].state # "null"

\* Free regions are empty, and only a round has regions of the round.
Rounds ==
  /\ \A r \in Regions : rstate[r] = "free" => bump[r] = 0
  /\ \A r \in Regions : rstate[r] = "from" => gc # "idle"
  /\ \A a \in todo : rstate[a[1]] = "from" /\ a[2] <= bump[a[1]]
  /\ gc \in {"idle", "wait", "free"} => todo = {}

Discipline == Scoped /\ Locked /\ Used /\ Rounds

-----------------------------------------------------------------------------
(* What holds as long as no race but split_object has happened.            *)

Calm == races \subseteq {"split_object"}

\* Slot a is handed out.
InHeap(a) == a[2] <= bump[a[1]]

Present(p) == meta[p].state = "present"

\* The object at a is where its pointer says it is.
Current(a) ==
  /\ obj[a].ptr \in Ptrs
  /\ Present(obj[a].ptr)
  /\ meta[obj[a].ptr].addr = a

\* Thread t has taken a slot that no pointer refers to yet.
Taking(t) == pc[t] \in {"alloc", "swap_read", "migrate_pub"}

\* Thread t has address a of pointer p, or is about to have it.
Holds(t, p, a) ==
  \/ \E w \in raw[t] : w.ptr = p /\ w.addr = a
  \/ pc[t] = "bits" /\ op[t].ptr = p /\ op[t].addr = a

\* A present pointer refers to a live object of its own.
Owned ==
  \A p \in Ptrs : Present(p) =>
    /\ InHeap(meta[p].addr)
    /\ obj[meta[p].addr].ptr = p
    /\ ~obj[meta[p].addr].freed

\* A slot that is being taken is nobody else's, and outside the round.
Taken ==
  \A t \in Threads : Taking(t) =>
    /\ InHeap(op[t].new)
    /\ rstate[op[t].new[1]] \in {"local", "used"}
    /\ \A p \in Ptrs : Present(p) => meta[p].addr # op[t].new
    /\ \A u \in Threads : Taking(u) /\ op[u].new = op[t].new => u = t
    /\ \A u \in Threads, p \in Ptrs : ~Holds(u, p, op[t].new)

\* A mutator that copies an object copies a marked one, and the copy is its.
Copying ==
  \A t \in Threads :
    /\ pc[t] \in {"migrate_copy", "migrate_pub"} => meta[op[t].ptr].evac
    /\ pc[t] = "migrate_pub" =>
         /\ op[t].addr = meta[op[t].ptr].addr
         /\ obj[op[t].new].ptr = op[t].ptr
         /\ ~obj[op[t].new].freed

\* The collector moves a marked object it has not dealt with yet.
Swapping ==
  \A p \in Ptrs : swap[p] # None =>
    /\ gc = "wb"
    /\ Present(p) /\ meta[p].evac
    /\ meta[p].addr = swap[p].addr
    /\ swap[p].addr \in todo

\* Marks are on objects in the regions of the round, and on all of them as
\* soon as mark_fm_ptrs is done.
Marked ==
  \A p \in Ptrs :
    /\ meta[p].evac => /\ rstate[meta[p].addr[1]] = "from"
                       /\ gc \in {"mark", "wait", "wb"}
    /\ Present(p) /\ rstate[meta[p].addr[1]] = "from" =>
         /\ gc # "free"
         /\ gc = "mark" => meta[p].evac \/ meta[p].addr \in todo
         /\ gc = "wait" => meta[p].evac
         /\ gc = "wb" => meta[p].evac /\ meta[p].addr \in todo

\* Every header the collector will look at is that of a freed object or of the
\* object its pointer refers to.
Headers ==
  \A a \in Addr :
    /\ InHeap(a)
    /\ rstate[a[1]] = "from" /\ gc \in {"wb", "free"} => a \in todo
    => \/ obj[a].freed
       \/ Current(a)
       \/ \E t \in Threads : Taking(t) /\ op[t].new = a

\* What a thread holds is memory of that object; in a region of the round only
\* threads the collector waits for have something.
Kept ==
  \A t \in Threads, p \in Ptrs, a \in Addr : Holds(t, p, a) =>
    /\ InHeap(a)
    /\ obj[a].ptr = p
    /\ rstate[a[1]] = "from" /\ gc \in {"wait", "wb", "free"} => status[t] # expected

Memory == Owned /\ Taken /\ Copying /\ Swapping /\ Marked /\ Headers /\ Kept
MemoryInv == Calm => Memory

-----------------------------------------------------------------------------
(* Frames.                                                                 *)

\* A mutator's step leaves the other threads and the collector alone.
LEMMA ThreadFrame ==
  ASSUME TypeOK, NEW t \in Threads, Begin(t) \/ Finish(t)
  PROVE  /\ \A u \in Threads \ {t} :
              pc'[u] = pc[u] /\ op'[u] = op[u] /\ raw'[u] = raw[u] /\ status'[u] = status[u]
         /\ expected' = expected /\ UNCHANGED gcVars /\ races \subseteq races'
<1>t. /\ pc \in [Threads -> PcType] /\ op \in [Threads -> OpType]
      /\ raw \in [Threads -> SUBSET RawType]
      /\ status \in [Threads -> InScope \cup {"Out"}]
  BY DEF TypeOK, ScopesTyped, OperandsTyped
<1>1. \A u \in Threads \ {t} : pc'[u] = pc[u]
  BY <1>t DEF Begin, Finish, EnterSnapshot, EnterCount, Exit, AllocLocal, AllocInit, Free,
    Write, DerefStart, DerefRetry, _deref, Return, DerefBits, SwapInLock, SwapInAlloc,
    SwapInRead, MigrateSnap, MigrateCheck, MigrateLock, MigrateCopy, MigratePublish, Retry, FlushStart,
    FlushRetry, _flush, FlushLock, FlushWrite, FlushClean, threadVars
<1>2. \A u \in Threads \ {t} : op'[u] = op[u]
  BY <1>t DEF Begin, Finish, EnterSnapshot, EnterCount, Exit, AllocLocal, AllocInit, Free,
    Write, DerefStart, DerefRetry, _deref, Return, DerefBits, SwapInLock, SwapInAlloc,
    SwapInRead, MigrateSnap, MigrateCheck, MigrateLock, MigrateCopy, MigratePublish, FlushStart,
    FlushRetry, _flush, FlushLock, FlushWrite, FlushClean, threadVars
<1>3. \A u \in Threads \ {t} : raw'[u] = raw[u]
  BY <1>t DEF Begin, Finish, EnterSnapshot, EnterCount, Exit, AllocLocal, AllocInit, Free,
    Write, DerefStart, DerefRetry, _deref, Return, DerefBits, SwapInLock, SwapInAlloc,
    SwapInRead, MigrateSnap, MigrateCheck, MigrateLock, MigrateCopy, MigratePublish, FlushStart,
    FlushRetry, _flush, FlushLock, FlushWrite, FlushClean, threadVars
<1>4. \A u \in Threads \ {t} : status'[u] = status[u]
  BY <1>t DEF Begin, Finish, EnterSnapshot, EnterCount, Exit, AllocLocal, AllocInit, Free,
    Write, DerefStart, DerefRetry, _deref, DerefBits, SwapInLock, SwapInAlloc,
    SwapInRead, MigrateSnap, MigrateCheck, MigrateLock, MigrateCopy, MigratePublish, FlushStart,
    FlushRetry, _flush, FlushLock, FlushWrite, FlushClean, scopeVars
<1>5. expected' = expected /\ UNCHANGED gcVars
  BY DEF Begin, Finish, EnterSnapshot, EnterCount, Exit, AllocLocal, AllocInit, Free,
    Write, DerefStart, DerefRetry, _deref, DerefBits, SwapInLock, SwapInAlloc,
    SwapInRead, MigrateSnap, MigrateCheck, MigrateLock, MigrateCopy, MigratePublish, FlushStart,
    FlushRetry, _flush, FlushLock, FlushWrite, FlushClean, scopeVars
<1>6. races \subseteq races'
  BY DEF Begin, Finish, EnterSnapshot, EnterCount, Exit, AllocLocal, AllocInit, Free,
    Write, DerefStart, DerefRetry, _deref, DerefBits, SwapInLock, SwapInAlloc,
    SwapInRead, MigrateSnap, MigrateCheck, MigrateLock, MigrateCopy, MigratePublish, FlushStart,
    FlushRetry, _flush, FlushLock, FlushWrite, FlushClean, Record
<1> QED
  BY <1>1, <1>2, <1>3, <1>4, <1>5, <1>6

\* The collector leaves the threads alone.
LEMMA CollectorFrame ==
  ASSUME Collector
  PROVE  UNCHANGED <<pc, op, raw, status>> /\ races \subseteq races'
BY DEF Collector, pick_from_regions, SkipFreed, FlipExpected, WaitDone, WriteBackDone,
  MarkObj, SwapOutLock, SwapOutCopy, SwapOutWriteBack, PushFreeRegion, Record, threadVars,
  scopeVars

-----------------------------------------------------------------------------
(* Scoped, Locked.                                                         *)

LEMMA ScopedStep == TypeOK /\ Scoped /\ [Next]_vars => Scoped'
<1> SUFFICES ASSUME TypeOK, Scoped, [Next]_vars PROVE Scoped'
  OBVIOUS
<1>t. /\ pc \in [Threads -> PcType] /\ raw \in [Threads -> SUBSET RawType]
      /\ status \in [Threads -> InScope \cup {"Out"}] /\ expected \in InScope
  BY DEF TypeOK, ScopesTyped, OperandsTyped
<1>1. ASSUME NEW t \in Threads, Begin(t) \/ Finish(t) PROVE Scoped'
  <2>1. \A u \in Threads \ {t} :
          pc'[u] = pc[u] /\ raw'[u] = raw[u] /\ status'[u] = status[u]
    BY <1>1, ThreadFrame
  <2>2. /\ raw'[t] # {} => pc'[t] \in ScopePcs
        /\ pc'[t] \in ScopePcs \cup {"entering"} => status'[t] \in InScope
    <3>0. /\ raw[t] # {} => pc[t] \in ScopePcs
          /\ pc[t] \in ScopePcs \cup {"entering"} => status[t] \in InScope
      BY DEF Scoped
    <3> USE DEF ScopePcs
    <3>1. CASE EnterSnapshot(t) \/ EnterCount(t) \/ Exit(t)
      BY <3>0, <3>1, <1>t DEF EnterSnapshot, EnterCount, Exit, scopeVars, Scoped
    <3>2. CASE ~(EnterSnapshot(t) \/ EnterCount(t) \/ Exit(t))
      <4>1. status' = status
        BY <1>1, <3>2 DEF Begin, Finish, AllocLocal, AllocInit, Free,
          Write, DerefStart, DerefRetry, _deref, DerefBits, SwapInLock, SwapInAlloc,
          SwapInRead, MigrateSnap, MigrateCheck, MigrateLock, MigrateCopy, MigratePublish, FlushStart,
          FlushRetry, _flush, FlushLock, FlushWrite, FlushClean, scopeVars
      <4>2. /\ pc'[t] \in ScopePcs <=> pc[t] \in ScopePcs
            /\ pc'[t] # "entering"
        BY <1>1, <1>t, <3>2 DEF Begin, Finish, AllocLocal, AllocInit, Free,
          Write, DerefStart, DerefRetry, _deref, Return, DerefBits, SwapInLock, SwapInAlloc,
          SwapInRead, MigrateSnap, MigrateCheck, MigrateLock, MigrateCopy, MigratePublish, Retry, FlushStart,
          FlushRetry, _flush, FlushLock, FlushWrite, FlushClean, threadVars
      <4>3. pc[t] \in ScopePcs \/ raw' = raw
        BY <1>1, <3>2 DEF Begin, Finish, AllocLocal, AllocInit, Free,
          Write, DerefStart, DerefRetry, DerefBits, SwapInLock, SwapInAlloc,
          SwapInRead, MigrateSnap, MigrateCheck, MigrateLock, MigrateCopy, MigratePublish, FlushStart,
          FlushRetry, _flush, FlushLock, FlushWrite, FlushClean, threadVars
      <4> QED
        BY <3>0, <4>1, <4>2, <4>3
    <3> QED
      BY <3>1, <3>2
  <2> QED
    BY <2>1, <2>2 DEF Scoped
<1>2. CASE Collector \/ UNCHANGED vars
  BY <1>2, CollectorFrame DEF Scoped, vars, threadVars, scopeVars
<1> QED
  BY <1>1, <1>2 DEF Next

\* A mutator takes or releases the lock of its own object.
LEMMA LockMoves ==
  ASSUME TypeOK, Locked, NEW t \in Threads, NEW p \in Ptrs, NEW x \in {None, t},
         lock[p] \in {None, t}, lock' = [lock EXCEPT ![p] = x], swap' = swap,
         \A u \in Threads \ {t} : pc'[u] = pc[u] /\ op'[u] = op[u],
         pc'[t] \in LockPcs => op'[t].ptr = p /\ x = t
  PROVE  Locked'
<1>1. lock \in [Ptrs -> Threads \cup {GC, None}]
  BY DEF TypeOK, PointersTyped
<1>2. \A u \in Threads : pc[u] \in LockPcs => op[u].ptr \in Ptrs
  BY DEF TypeOK, OperandsTyped, LockPcs
<1> QED
  BY <1>1, <1>2, NamesAssumption DEF Locked

LEMMA LockStays ==
  ASSUME Locked, NEW t \in Threads, UNCHANGED <<lock, swap>>,
         \A u \in Threads \ {t} : pc'[u] = pc[u] /\ op'[u] = op[u],
         pc'[t] \in LockPcs => pc[t] \in LockPcs /\ op'[t].ptr = op[t].ptr
  PROVE  Locked'
BY DEF Locked

LEMMA LockedStep == TypeOK /\ Locked /\ [Next]_vars => Locked'
<1> SUFFICES ASSUME TypeOK, Locked, [Next]_vars PROVE Locked'
  OBVIOUS
<1>t. /\ pc \in [Threads -> PcType] /\ op \in [Threads -> OpType]
      /\ lock \in [Ptrs -> Threads \cup {GC, None}]
      /\ swap \in [Ptrs -> SwapType \cup {None}]
  BY DEF TypeOK, ScopesTyped, OperandsTyped, PointersTyped, CollectorTyped
<1>p. \A t \in Threads : pc[t] \notin {"out", "entering", "in"} => op[t].ptr \in Ptrs
  BY DEF TypeOK, OperandsTyped
<1> USE DEF LockPcs
<1>1. ASSUME NEW t \in Threads,
             \/ SwapInRead(t) \/ MigrateLock(t) \/ MigratePublish(t)
             \/ FlushLock(t) \/ FlushClean(t)
             \/ SwapInLock(t) /\ meta[op[t].ptr].state # "present"
             \/ \E c \in Cores : MigrateCopy(t, c) /\ lock' # lock
      PROVE  Locked'
  <2>1. /\ \A u \in Threads \ {t} : pc'[u] = pc[u] /\ op'[u] = op[u]
        /\ swap' = swap
    BY <1>1, ThreadFrame DEF Finish, gcVars
  <2>2. op[t].ptr \in Ptrs /\ lock[op[t].ptr] \in {None, t}
    BY <1>1, <1>p DEF SwapInRead, MigrateLock, MigratePublish, FlushLock, FlushClean,
      SwapInLock, MigrateCopy, Locked
  <2>3. PICK x \in {None, t} :
          /\ lock' = [lock EXCEPT ![op[t].ptr] = x]
          /\ pc'[t] \in LockPcs => op'[t].ptr = op[t].ptr /\ x = t
    <3>1. ASSUME NEW x \in {None, t}, lock' = [lock EXCEPT ![op[t].ptr] = x],
                 pc'[t] \in LockPcs => op'[t].ptr = op[t].ptr /\ x = t
          PROVE  \E y \in {None, t} :
                   /\ lock' = [lock EXCEPT ![op[t].ptr] = y]
                   /\ pc'[t] \in LockPcs => op'[t].ptr = op[t].ptr /\ y = t
      BY <3>1
    <3>2. CASE SwapInRead(t) \/ MigratePublish(t) \/ FlushClean(t)
      BY <1>t, <3>1, <3>2 DEF SwapInRead, MigratePublish, FlushClean, Retry
    <3>3. CASE MigrateLock(t)
      BY <1>t, <3>1, <3>3 DEF MigrateLock
    <3>4. CASE FlushLock(t)
      <4>1. op'[t].ptr = op[t].ptr
        BY <1>t, <3>4 DEF FlushLock, OpType
      <4> QED
        BY <1>t, <3>1, <3>4, <4>1 DEF FlushLock
    <3>5. CASE SwapInLock(t) /\ meta[op[t].ptr].state # "present"
      BY <1>t, <3>1, <3>5 DEF SwapInLock
    <3>6. ASSUME NEW c \in Cores, MigrateCopy(t, c), lock' # lock
          PROVE  \E y \in {None, t} :
                   /\ lock' = [lock EXCEPT ![op[t].ptr] = y]
                   /\ pc'[t] \in LockPcs => op'[t].ptr = op[t].ptr /\ y = t
      BY <1>t, <3>1, <3>6 DEF MigrateCopy, Retry
    <3> QED
      BY <1>1, <3>2, <3>3, <3>4, <3>5, <3>6
  <2> QED
    BY <2>1, <2>2, <2>3, LockMoves
<1>2. ASSUME NEW t \in Threads,
             \/ EnterSnapshot(t) \/ EnterCount(t) \/ Exit(t) \/ Write(t)
             \/ AllocInit(t) \/ DerefRetry(t) \/ DerefBits(t) \/ MigrateSnap(t) \/ MigrateCheck(t)
             \/ FlushRetry(t) \/ FlushWrite(t)
             \/ SwapInLock(t) /\ meta[op[t].ptr].state = "present"
             \/ \E c \in Cores : \/ MigrateCopy(t, c) /\ lock' = lock
                                 \/ SwapInAlloc(t, c)
             \/ \E p \in Ptrs : Free(t, p) \/ FlushStart(t, p)
             \/ \E p \in Ptrs, mut \in BOOLEAN : DerefStart(t, p, mut)
             \/ \E p \in Ptrs, c \in Cores : AllocLocal(t, p, c)
      PROVE  Locked'
  <2>1. /\ \A u \in Threads \ {t} : pc'[u] = pc[u] /\ op'[u] = op[u]
        /\ swap' = swap
    BY <1>2, ThreadFrame DEF Begin, Finish, gcVars
  <2>2. lock' = lock
    BY <1>2 DEF EnterSnapshot, EnterCount, Exit, Write, AllocInit, DerefRetry, DerefBits,
      MigrateSnap, MigrateCheck, FlushRetry, FlushWrite, SwapInLock, SwapInAlloc, Free,
      FlushStart, DerefStart, AllocLocal, _deref, _flush
  <2>3. pc'[t] \in LockPcs => pc[t] \in LockPcs /\ op'[t].ptr = op[t].ptr
    <3>1. CASE FlushWrite(t) \/ \E c \in Cores : MigrateCopy(t, c) \/ SwapInAlloc(t, c)
      BY <1>t, <3>1 DEF FlushWrite, MigrateCopy, SwapInAlloc, OpType
    <3>2. CASE ~(FlushWrite(t) \/ \E c \in Cores : MigrateCopy(t, c) \/ SwapInAlloc(t, c))
      <4>1. CASE \/ EnterSnapshot(t) \/ EnterCount(t) \/ Exit(t) \/ Write(t) \/ AllocInit(t)
                 \/ MigrateSnap(t) \/ MigrateCheck(t)
                 \/ SwapInLock(t) /\ meta[op[t].ptr].state = "present"
        <5>1. pc'[t] \notin LockPcs
          BY <1>t, <4>1 DEF EnterSnapshot, EnterCount, Exit, Write, AllocInit,
            MigrateSnap, MigrateCheck, SwapInLock, Retry, threadVars
        <5> QED
          BY <5>1
      <4>2. CASE \/ DerefRetry(t) \/ DerefBits(t)
                 \/ \E p \in Ptrs, mut \in BOOLEAN : DerefStart(t, p, mut)
        <5>1. pc'[t] \notin LockPcs
          BY <1>t, <4>2 DEF DerefRetry, DerefBits, DerefStart, _deref, Return
        <5> QED
          BY <5>1
      <4>3. CASE \/ FlushRetry(t)
                 \/ \E p \in Ptrs : Free(t, p) \/ FlushStart(t, p)
                 \/ \E p \in Ptrs, c \in Cores : AllocLocal(t, p, c)
        <5>1. pc'[t] \notin LockPcs
          BY <1>t, <4>3 DEF FlushRetry, Free, FlushStart, AllocLocal, _flush, threadVars
        <5> QED
          BY <5>1
      <4>4. /\ ~FlushWrite(t)
            /\ \A c \in Cores : ~MigrateCopy(t, c) /\ ~SwapInAlloc(t, c)
        BY <3>2
      <4> HIDE DEF LockPcs
      <4>5. \/ EnterSnapshot(t) \/ EnterCount(t) \/ Exit(t) \/ Write(t)
            \/ AllocInit(t) \/ DerefRetry(t) \/ DerefBits(t) \/ MigrateSnap(t) \/ MigrateCheck(t)
            \/ FlushRetry(t)
            \/ SwapInLock(t) /\ meta[op[t].ptr].state = "present"
            \/ \E p \in Ptrs : Free(t, p) \/ FlushStart(t, p)
            \/ \E p \in Ptrs, mut \in BOOLEAN : DerefStart(t, p, mut)
            \/ \E p \in Ptrs, c \in Cores : AllocLocal(t, p, c)
        BY <1>2, <4>4, Zenon
      <4> QED
        BY <4>1, <4>2, <4>3, <4>5
    <3> QED
      BY <3>1, <3>2
  <2> QED
    BY <2>1, <2>2, <2>3, LockStays
<1>3. ASSUME NEW a \in Addr, SwapOutLock(a) PROVE Locked'
  <2>1. pc' = pc /\ op' = op
    BY <1>3 DEF SwapOutLock, threadVars
  <2>2. CASE lock' = lock /\ swap' = swap
    BY <2>1, <2>2 DEF Locked
  <2>3. CASE ~(lock' = lock /\ swap' = swap)
    <3> DEFINE p == obj[a].ptr
    <3>1. /\ lock[p] = None /\ lock' = [lock EXCEPT ![p] = GC]
          /\ \E s : swap' = [swap EXCEPT ![p] = s]
      BY <1>3, <2>3 DEF SwapOutLock
    <3>2. \A u \in Threads : pc[u] \in LockPcs => op[u].ptr \in Ptrs
      BY <1>p
    <3> QED
      BY <1>t, <2>1, <3>1, <3>2, NamesAssumption DEF Locked
  <2> QED
    BY <2>2, <2>3
<1>4. ASSUME NEW p \in Ptrs, NEW c \in Cores, SwapOutCopy(p, c) \/ SwapOutWriteBack(p, c)
      PROVE  Locked'
  <2>1. /\ pc' = pc /\ op' = op /\ lock[p] = GC
        /\ lock' = [lock EXCEPT ![p] = None] /\ swap' = [swap EXCEPT ![p] = None]
    BY <1>4 DEF SwapOutCopy, SwapOutWriteBack, SwapOutEnd, threadVars, Locked
  <2>2. \A u \in Threads : pc[u] \in LockPcs => op[u].ptr \in Ptrs
    BY <1>p
  <2> QED
    BY <1>t, <2>1, <2>2, NamesAssumption DEF Locked
<1>5. CASE \/ pick_from_regions \/ SkipFreed \/ FlipExpected \/ WaitDone \/ WriteBackDone
           \/ \E a \in Addr : MarkObj(a)
           \/ \E r \in Regions : PushFreeRegion(r)
           \/ UNCHANGED vars
  <2>1. UNCHANGED <<pc, op, lock, swap>>
    BY <1>5 DEF pick_from_regions, SkipFreed, FlipExpected, WaitDone, WriteBackDone,
      MarkObj, PushFreeRegion, threadVars, gcVars, vars
  <2> QED
    BY <2>1 DEF Locked
<1> QED
  BY <1>1, <1>2, <1>3, <1>4, <1>5 DEF Next, Collector, Begin, Finish

-----------------------------------------------------------------------------
(* Used.                                                                   *)

\* A mutator's step that gives no pointer an object and takes none away.
LEMMA UsedKept ==
  ASSUME TypeOK, Used, NEW t \in Threads, swap' = swap,
         \A u \in Threads \ {t} : pc'[u] = pc[u] /\ op'[u] = op[u] /\ raw'[u] = raw[u],
         \A p \in Ptrs : /\ meta'[p].state = meta[p].state
                         /\ meta'[p].evac => meta[p].evac,
         pc'[t] # "alloc",
         pc'[t] \in {"out", "entering", "in"} => op'[t].ptr = None,
         op'[t].ptr \in Ptrs => meta[op'[t].ptr].state # "null",
         pc'[t] \in {"swap_alloc", "swap_read"} =>
           op'[t].ptr \in Ptrs /\ meta[op'[t].ptr].state = "absent",
         \A w \in raw'[t] : w.ptr \in Ptrs /\ meta[w.ptr].state # "null"
  PROVE  Used'
<1>1. \A u \in Threads : /\ pc[u] \notin {"out", "entering", "in"} => op[u].ptr \in Ptrs
                         /\ \A w \in raw[u] : w.ptr \in Ptrs
  BY DEF TypeOK, OperandsTyped, RawType
<1>2. \A u \in Threads : pc'[u] \in {"out", "entering", "in"} => op'[u].ptr = None
  BY DEF Used
<1>3. \A u \in Threads : pc'[u] = "alloc" =>
        /\ meta'[op'[u].ptr].state = "null"
        /\ \A v \in Threads : op'[v].ptr = op'[u].ptr => v = u
  <2> SUFFICES ASSUME NEW u \in Threads, pc'[u] = "alloc"
               PROVE  /\ meta'[op'[u].ptr].state = "null"
                      /\ \A v \in Threads : op'[v].ptr = op'[u].ptr => v = u
    OBVIOUS
  <2>1. u # t /\ pc[u] = "alloc" /\ op'[u] = op[u] /\ op[u].ptr \in Ptrs
    BY <1>1
  <2>2. meta[op[u].ptr].state = "null"
    BY <2>1 DEF Used
  <2> QED
    BY <2>1, <2>2 DEF Used
<1>4. \A u \in Threads : op'[u].ptr \in Ptrs /\ pc'[u] # "alloc" =>
        meta'[op'[u].ptr].state # "null"
  BY DEF Used
<1>5. \A u \in Threads : pc'[u] \in {"swap_alloc", "swap_read"} =>
        meta'[op'[u].ptr].state = "absent"
  BY <1>1 DEF Used
<1>6. \A u \in Threads : \A w \in raw'[u] : meta'[w.ptr].state # "null"
  BY <1>1 DEF Used
<1>7. \A p \in Ptrs : /\ meta'[p].evac => meta'[p].state = "present"
                      /\ swap'[p] # None => meta'[p].state # "null"
  BY DEF Used
<1> QED
  BY <1>2, <1>3, <1>4, <1>5, <1>6, <1>7 DEF Used

LEMMA DerefUsed ==
  ASSUME TypeOK, Used, NEW t \in Threads, NEW p \in Ptrs, NEW mut \in BOOLEAN,
         _deref(t, p, mut), pc[t] # "alloc",
         \A u \in Threads \ {t} : pc'[u] = pc[u] /\ op'[u] = op[u] /\ raw'[u] = raw[u]
  PROVE  Used'
<1>t. /\ pc \in [Threads -> PcType] /\ op \in [Threads -> OpType]
      /\ raw \in [Threads -> SUBSET RawType] /\ meta \in [Ptrs -> MetaType]
  BY DEF TypeOK, ScopesTyped, OperandsTyped, PointersTyped
<1>1. UNCHANGED <<meta, swap>>
  BY DEF _deref, gcVars
<1>2. CASE meta[p].state = "null"
  <2>1. op'[t] = Idle /\ pc'[t] = "in" /\ raw' = raw
    BY <1>2, <1>t DEF _deref
  <2> QED
    BY <1>1, <1>t, <2>1, NamesAssumption, UsedKept DEF Idle, Used, RawType
<1>3. CASE meta[p].state # "null"
  <2>1. \/ op'[t] = Idle /\ pc'[t] = "in"
        \/ op'[t].ptr = p /\ pc'[t] \in {"swap_in", "migrate", "bits"}
    BY <1>3, <1>t DEF _deref, Return, Idle
  <2>2. \A w \in raw'[t] : w.ptr \in Ptrs /\ meta[w.ptr].state # "null"
    BY <1>3, <1>t DEF _deref, Return, Used, RawType
  <2>3. op'[t].ptr \in {p, None} /\ pc'[t] \in {"in", "swap_in", "migrate", "bits"}
        /\ (pc'[t] = "in" => op'[t].ptr = None)
    BY <2>1 DEF Idle
  <2> QED
    BY <1>1, <1>3, <2>2, <2>3, NamesAssumption, UsedKept
<1> QED
  BY <1>2, <1>3

LEMMA UsedStep == TypeOK /\ Locked /\ Used /\ [Next]_vars => Used'
<1> SUFFICES ASSUME TypeOK, Locked, Used, [Next]_vars PROVE Used'
  OBVIOUS
<1>t. /\ pc \in [Threads -> PcType] /\ op \in [Threads -> OpType]
      /\ raw \in [Threads -> SUBSET RawType] /\ meta \in [Ptrs -> MetaType]
      /\ lock \in [Ptrs -> Threads \cup {GC, None}]
      /\ swap \in [Ptrs -> SwapType \cup {None}]
  BY DEF TypeOK, ScopesTyped, OperandsTyped, PointersTyped, CollectorTyped
<1>p. \A t \in Threads : /\ pc[t] \notin {"out", "entering", "in"} => op[t].ptr \in Ptrs
                         /\ \A w \in raw[t] : w.ptr \in Ptrs
  BY DEF TypeOK, OperandsTyped, RawType
<1>n. None \notin Ptrs
  BY NamesAssumption
<1>f. ASSUME NEW t \in Threads, Begin(t) \/ Finish(t)
      PROVE  /\ \A u \in Threads \ {t} :
                  pc'[u] = pc[u] /\ op'[u] = op[u] /\ raw'[u] = raw[u]
             /\ swap' = swap
  BY <1>f, ThreadFrame DEF gcVars
<1>1. ASSUME NEW t \in Threads, NEW p \in Ptrs, NEW mut \in BOOLEAN, DerefStart(t, p, mut)
      PROVE  Used'
  <2>1. Begin(t)
    BY <1>1 DEF Begin
  <2> QED
    BY <1>1, <1>f, <2>1, DerefUsed DEF DerefStart
<1>2. ASSUME NEW t \in Threads, DerefRetry(t) PROVE Used'
  <2>1. Finish(t) /\ op[t].ptr \in Ptrs /\ op[t].mut \in BOOLEAN
    BY <1>2, <1>p, <1>t DEF Finish, DerefRetry, OpType
  <2> QED
    BY <1>2, <1>f, <2>1, DerefUsed DEF DerefRetry
<1>3. ASSUME NEW t \in Threads,
             \/ EnterSnapshot(t) \/ EnterCount(t) \/ Exit(t) \/ Write(t)
             \/ MigratePublish(t) \/ SwapInLock(t) \/ MigrateSnap(t) \/ MigrateCheck(t) \/ MigrateLock(t)
             \/ \E c \in Cores : SwapInAlloc(t, c) \/ MigrateCopy(t, c)
             \/ FlushLock(t) \/ FlushWrite(t)
      PROVE  Used'
  <2>1. Begin(t) \/ Finish(t)
    BY <1>3 DEF Begin, Finish
  <2>2. \A q \in Ptrs : meta'[q].state = meta[q].state /\ (meta'[q].evac => meta[q].evac)
    <3>1. CASE MigratePublish(t)
      BY <1>t, <3>1 DEF MigratePublish, mutator_copy, MetaType
    <3>2. CASE ~MigratePublish(t)
      BY <1>3, <3>2 DEF EnterSnapshot, EnterCount, Exit, Write, SwapInLock,
        MigrateSnap, MigrateCheck, MigrateLock, SwapInAlloc, MigrateCopy, FlushLock, FlushWrite
    <3> QED
      BY <3>1, <3>2
  <2>3. op'[t].ptr = op[t].ptr
    BY <1>3, <1>t DEF EnterSnapshot, EnterCount, Exit, Write, MigratePublish, SwapInLock,
      MigrateSnap, MigrateCheck, MigrateLock, SwapInAlloc, MigrateCopy, FlushLock, FlushWrite,
      OpType, threadVars
  <2>4. raw'[t] \subseteq raw[t]
    BY <1>3, <1>t DEF EnterSnapshot, EnterCount, Exit, Write, MigratePublish, SwapInLock,
      MigrateSnap, MigrateCheck, MigrateLock, SwapInAlloc, MigrateCopy, FlushLock, FlushWrite, threadVars
  <2>5. /\ pc[t] # "alloc" /\ pc'[t] # "alloc"
        /\ pc'[t] \in {"out", "entering", "in"} => pc[t] \in {"out", "entering", "in"}
        /\ pc'[t] \in {"swap_alloc", "swap_read"} =>
             \/ pc[t] \in {"swap_alloc", "swap_read"}
             \/ pc[t] = "swap_in" /\ meta[op[t].ptr].state # "present"
    BY <1>3, <1>t DEF EnterSnapshot, EnterCount, Exit, Write, MigratePublish, SwapInLock,
      MigrateSnap, MigrateCheck, MigrateLock, SwapInAlloc, MigrateCopy, FlushLock, FlushWrite, Retry,
      threadVars
  <2>6. op[t].ptr \in Ptrs => meta[op[t].ptr].state # "null"
    BY <2>5 DEF Used
  <2>7. pc'[t] \in {"swap_alloc", "swap_read"} =>
          op[t].ptr \in Ptrs /\ meta[op[t].ptr].state = "absent"
    <3>1. op[t].ptr \in Ptrs => meta[op[t].ptr].state \in {"null", "present", "absent"}
      BY <1>t DEF MetaType
    <3> QED
      BY <1>p, <2>5, <2>6, <3>1 DEF Used
  <2>8. \A w \in raw'[t] : w.ptr \in Ptrs /\ meta[w.ptr].state # "null"
    BY <1>p, <2>4 DEF Used
  <2>9. pc'[t] \in {"out", "entering", "in"} => op'[t].ptr = None
    BY <2>3, <2>5 DEF Used
  <2> QED
    BY <1>f, <2>1, <2>2, <2>3, <2>5, <2>6, <2>7, <2>8, <2>9, UsedKept
<1>4. ASSUME NEW t \in Threads, DerefBits(t) \/ FlushClean(t) PROVE Used'
  <2>1. Finish(t)
    BY <1>4 DEF Finish
  <2>2. op[t].ptr \in Ptrs /\ meta[op[t].ptr].state # "null"
    BY <1>4, <1>p DEF DerefBits, FlushClean, Used
  <2>3. \A q \in Ptrs : meta'[q].state = meta[q].state /\ meta'[q].evac = meta[q].evac
    BY <1>4, <1>t DEF DerefBits, FlushClean, MetaType
  <2>4. op'[t] = Idle /\ pc'[t] \in {"in", "out"}
    BY <1>4, <1>t DEF DerefBits, FlushClean, Return
  <2>5. \A w \in raw'[t] : w \in raw[t] \/ w.ptr = op[t].ptr
    BY <1>4, <1>t DEF DerefBits, FlushClean, Return
  <2>6. \A w \in raw'[t] : w.ptr \in Ptrs /\ meta[w.ptr].state # "null"
    BY <1>p, <2>2, <2>5 DEF Used
  <2>7. op'[t].ptr = None
    BY <2>4 DEF Idle
  <2> QED
    BY <1>f, <1>n, <2>1, <2>3, <2>4, <2>6, <2>7, UsedKept
<1>5. ASSUME NEW t \in Threads, NEW p \in Ptrs, _flush(t, p), pc[t] # "alloc",
             Begin(t) \/ Finish(t)
      PROVE  Used'
  <2>1. UNCHANGED <<meta, raw>>
    BY <1>5 DEF _flush
  <2>2. \/ op'[t] = Idle /\ pc'[t] = "out"
        \/ op'[t].ptr = p /\ pc'[t] = "flush_lock" /\ meta[p].state = "present"
    BY <1>5, <1>t DEF _flush, Idle
  <2>3. /\ op'[t].ptr \in Ptrs => meta[op'[t].ptr].state # "null"
        /\ pc'[t] \in {"out", "entering", "in"} => op'[t].ptr = None
        /\ pc'[t] \notin {"alloc", "swap_alloc", "swap_read"}
    BY <2>2, <1>n DEF Idle
  <2>4. \A w \in raw'[t] : w.ptr \in Ptrs /\ meta[w.ptr].state # "null"
    BY <1>p, <2>1 DEF Used
  <2> QED
    BY <1>f, <1>5, <2>1, <2>3, <2>4, UsedKept
<1>6. ASSUME NEW t \in Threads, FlushRetry(t) \/ \E p \in Ptrs : FlushStart(t, p)
      PROVE  Used'
  BY <1>5, <1>6, <1>p DEF FlushStart, FlushRetry, Begin, Finish
<1>7. ASSUME NEW t \in Threads, NEW p \in Ptrs, NEW c \in Cores, AllocLocal(t, p, c)
      PROVE  Used'
  <2>1. Begin(t)
    BY <1>7 DEF Begin
  <2>2. UNCHANGED <<meta, raw>> /\ pc[t] = "out"
    BY <1>7 DEF AllocLocal
  <2>3. CASE pc' = pc /\ op' = op
    BY <1>f, <2>1, <2>2, <2>3 DEF Used
  <2>4. CASE ~(pc' = pc /\ op' = op)
    <3>1. op'[t].ptr = p /\ pc'[t] = "alloc"
      BY <1>7, <1>t, <2>4 DEF AllocLocal, Idle
    <3>2. meta[p].state = "null" /\ \A u \in Threads : op[u].ptr # p
      BY <1>7 DEF AllocLocal, InUse
    <3>3. \A u \in Threads : pc'[u] = "alloc" =>
            /\ meta'[op'[u].ptr].state = "null"
            /\ \A v \in Threads : op'[v].ptr = op'[u].ptr => v = u
      BY <1>f, <2>1, <2>2, <3>1, <3>2 DEF Used
    <3>4. \A u \in Threads : pc'[u] # "alloc" => u # t
      BY <3>1
    <3> QED
      BY <1>f, <2>1, <2>2, <3>1, <3>3, <3>4 DEF Used
  <2> QED
    BY <2>3, <2>4
<1>8. ASSUME NEW t \in Threads, AllocInit(t) PROVE Used'
  <2>1. Finish(t)
    BY <1>8 DEF Finish
  <2> DEFINE p == op[t].ptr
  <2>2. p \in Ptrs /\ meta[p].state = "null" /\ \A u \in Threads \ {t} : op[u].ptr # p
    BY <1>8, <1>p DEF AllocInit, Used
  <2>3. /\ pc'[t] = "out" /\ op'[t].ptr = None /\ raw' = raw
        /\ meta'[p].state = "present"
        /\ \A q \in Ptrs \ {p} : meta'[q] = meta[q]
    BY <1>8, <1>t, <2>2 DEF AllocInit, Idle, set_present, Meta
  <2>4. \A q \in Ptrs : meta'[q].state = meta[q].state \/ (q = p /\ meta'[q].state # "null")
    BY <2>3
  <2> HIDE DEF p
  <2>5. \A u \in Threads : u # t => op'[u] = op[u] /\ pc'[u] = pc[u]
    BY <1>f, <2>1
  <2>6. \A u \in Threads : pc'[u] \in {"out", "entering", "in"} => op'[u].ptr = None
    BY <2>3, <2>5 DEF Used
  <2>7. \A u \in Threads : pc'[u] = "alloc" =>
          /\ meta'[op'[u].ptr].state = "null"
          /\ \A v \in Threads : op'[v].ptr = op'[u].ptr => v = u
    BY <1>p, <1>n, <2>2, <2>3, <2>5 DEF Used
  <2>8. \A u \in Threads : op'[u].ptr \in Ptrs /\ pc'[u] # "alloc" =>
          meta'[op'[u].ptr].state # "null"
    BY <1>n, <2>3, <2>4, <2>5 DEF Used
  <2>9. \A u \in Threads : pc'[u] \in {"swap_alloc", "swap_read"} =>
          meta'[op'[u].ptr].state = "absent"
    BY <1>p, <2>2, <2>3, <2>5 DEF Used
  <2>10. \A u \in Threads : \A w \in raw'[u] : meta'[w.ptr].state # "null"
    BY <1>p, <2>3, <2>4 DEF Used
  <2>11. \A q \in Ptrs : /\ meta'[q].evac => meta'[q].state = "present"
                         /\ swap'[q] # None => meta'[q].state # "null"
    BY <1>f, <2>1, <2>3 DEF Used
  <2> QED
    BY <2>6, <2>7, <2>8, <2>9, <2>10, <2>11 DEF Used
<1>9. ASSUME NEW t \in Threads, SwapInRead(t) PROVE Used'
  <2>1. Finish(t)
    BY <1>9 DEF Finish
  <2> DEFINE p == op[t].ptr
  <2>2. p \in Ptrs /\ meta[p].state = "absent" /\ lock[p] = t
    BY <1>9, <1>p DEF SwapInRead, Used, Locked, LockPcs
  <2>3. /\ pc'[t] = "deref" /\ op'[t].ptr = p /\ raw' = raw
        /\ meta'[p].state = "present"
        /\ \A q \in Ptrs \ {p} : meta'[q] = meta[q]
    BY <1>9, <1>t, <2>2 DEF SwapInRead, Retry, OpType, set_present, Meta
  <2>4. \A u \in Threads : pc[u] \in {"swap_alloc", "swap_read"} /\ op[u].ptr = p => u = t
    BY <2>2 DEF Locked, LockPcs
  <2> HIDE DEF p
  <2>5. \A u \in Threads : u # t => op'[u] = op[u] /\ pc'[u] = pc[u]
    BY <1>f, <2>1
  <2>6. \A u \in Threads : pc'[u] \in {"out", "entering", "in"} => op'[u].ptr = None
    BY <2>3, <2>5 DEF Used
  <2>7. \A u \in Threads : pc[u] = "alloc" => op[u].ptr # p
    BY <2>2 DEF Used
  <2>8. \A u \in Threads : pc'[u] = "alloc" =>
          /\ meta'[op'[u].ptr].state = "null"
          /\ \A v \in Threads : op'[v].ptr = op'[u].ptr => v = u
    BY <1>p, <2>3, <2>5, <2>7 DEF Used
  <2>9. \A u \in Threads : op'[u].ptr \in Ptrs /\ pc'[u] # "alloc" =>
          meta'[op'[u].ptr].state # "null"
    BY <2>3, <2>5 DEF Used
  <2>10. \A u \in Threads : pc'[u] \in {"swap_alloc", "swap_read"} =>
          meta'[op'[u].ptr].state = "absent"
    BY <1>p, <2>3, <2>4, <2>5 DEF Used
  <2>11. \A u \in Threads : \A w \in raw'[u] : meta'[w.ptr].state # "null"
    BY <1>p, <2>3 DEF Used
  <2>12. \A q \in Ptrs : /\ meta'[q].evac => meta'[q].state = "present"
                         /\ swap'[q] # None => meta'[q].state # "null"
    BY <1>f, <2>1, <2>3 DEF Used
  <2> QED
    BY <2>6, <2>8, <2>9, <2>10, <2>11, <2>12 DEF Used
<1>10. ASSUME NEW t \in Threads, NEW p \in Ptrs, Free(t, p) PROVE Used'
  <2>1. Begin(t)
    BY <1>10 DEF Begin
  <2>2. /\ lock[p] = None /\ meta[p].state = "present" /\ UNCHANGED <<pc, op, swap>>
        /\ pc[t] = "in"
        /\ \A u \in Threads \ {t} : op[u].ptr # p /\ \A w \in raw[u] : w.ptr # p
    BY <1>10 DEF Free, gcVars
  <2>3. /\ meta'[p] = Null
        /\ \A q \in Ptrs \ {p} : meta'[q] = meta[q]
    BY <1>10, <1>t DEF Free
  <2>4. \A u \in Threads : \A w \in raw'[u] : w \in raw[u] /\ w.ptr # p
    BY <1>10, <1>t, <2>2 DEF Free
  <2>5. \A u \in Threads : op[u].ptr # p
    BY <1>n, <2>2 DEF Used
  <2>6. swap[p] = None
    BY <2>2, NamesAssumption DEF Locked
  <2>7. ~Null.evac
    BY DEF Null, Meta
  <2>8. \A u \in Threads : pc'[u] = "alloc" =>
          /\ meta'[op'[u].ptr].state = "null"
          /\ \A v \in Threads : op'[v].ptr = op'[u].ptr => v = u
    BY <1>p, <2>2, <2>3, <2>5 DEF Used
  <2>9. \A u \in Threads : op'[u].ptr \in Ptrs /\ pc'[u] # "alloc" =>
          meta'[op'[u].ptr].state # "null"
    BY <2>2, <2>3, <2>5 DEF Used
  <2>10. \A u \in Threads : pc'[u] \in {"swap_alloc", "swap_read"} =>
          meta'[op'[u].ptr].state = "absent"
    BY <1>p, <2>2, <2>3, <2>5 DEF Used
  <2>11. \A u \in Threads : \A w \in raw'[u] : meta'[w.ptr].state # "null"
    BY <1>p, <2>3, <2>4 DEF Used
  <2>12. \A q \in Ptrs : /\ meta'[q].evac => meta'[q].state = "present"
                         /\ swap'[q] # None => meta'[q].state # "null"
    BY <2>2, <2>3, <2>6, <2>7 DEF Used
  <2>13. \A u \in Threads : pc'[u] \in {"out", "entering", "in"} => op'[u].ptr = None
    BY <2>2 DEF Used
  <2> QED
    BY <2>8, <2>9, <2>10, <2>11, <2>12, <2>13 DEF Used
<1>11. ASSUME UNCHANGED <<pc, op, raw>>,
              \A q \in Ptrs : /\ meta'[q].state = "null" <=> meta[q].state = "null"
                              /\ meta[q].state = "absent" => meta'[q].state = "absent"
                              /\ meta'[q].evac => meta'[q].state = "present"
                              /\ swap'[q] # None => meta'[q].state # "null"
       PROVE  Used'
  <2>8. \A u \in Threads : pc'[u] = "alloc" =>
          /\ meta'[op'[u].ptr].state = "null"
          /\ \A v \in Threads : op'[v].ptr = op'[u].ptr => v = u
    BY <1>p, <1>11 DEF Used
  <2>9. \A u \in Threads : op'[u].ptr \in Ptrs /\ pc'[u] # "alloc" =>
          meta'[op'[u].ptr].state # "null"
    BY <1>11 DEF Used
  <2>10. \A u \in Threads : pc'[u] \in {"swap_alloc", "swap_read"} =>
          meta'[op'[u].ptr].state = "absent"
    BY <1>p, <1>11 DEF Used
  <2>11. \A u \in Threads : \A w \in raw'[u] : meta'[w.ptr].state # "null"
    BY <1>p, <1>11 DEF Used
  <2>13. \A u \in Threads : pc'[u] \in {"out", "entering", "in"} => op'[u].ptr = None
    BY <1>11 DEF Used
  <2> QED
    BY <1>11, <2>8, <2>9, <2>10, <2>11, <2>13 DEF Used
<1>12. ASSUME NEW a \in Addr, MarkObj(a) PROVE Used'
  <2>1. \A q \in Ptrs : /\ meta'[q].state = meta[q].state
                        /\ meta'[q].evac => meta[q].evac \/ meta[q].state = "present"
    BY <1>12, <1>t DEF MarkObj, MetaType
  <2>2. UNCHANGED <<pc, op, raw, swap>>
    BY <1>12 DEF MarkObj, threadVars
  <2> QED
    BY <1>11, <2>1, <2>2 DEF Used
<1>13. ASSUME NEW a \in Addr, SwapOutLock(a) PROVE Used'
  <2>1. UNCHANGED <<pc, op, raw, meta>>
    BY <1>13 DEF SwapOutLock, threadVars
  <2>2. \A q \in Ptrs : swap'[q] # None => swap[q] # None \/ meta[q].evac
    BY <1>13, <1>t DEF SwapOutLock
  <2> QED
    BY <1>11, <2>1, <2>2 DEF Used
<1>14. ASSUME NEW p \in Ptrs, NEW c \in Cores, SwapOutCopy(p, c) PROVE Used'
  <2>1. UNCHANGED <<pc, op, raw>> /\ swap' = [swap EXCEPT ![p] = None]
    BY <1>14 DEF SwapOutCopy, SwapOutEnd, threadVars
  <2>2. \A q \in Ptrs : /\ meta'[q].state = meta[q].state
                        /\ meta'[q].evac => meta[q].evac
    BY <1>14, <1>t DEF SwapOutCopy, gc_copy, MetaType
  <2>3. \A q \in Ptrs : swap'[q] # None => swap[q] # None
    BY <1>t, <2>1
  <2> QED
    BY <1>11, <2>1, <2>2, <2>3 DEF Used
<1>15. ASSUME NEW p \in Ptrs, NEW c \in Cores, SwapOutWriteBack(p, c) PROVE Used'
  <2>1. UNCHANGED <<pc, op, raw>> /\ swap' = [swap EXCEPT ![p] = None] /\ swap[p] # None
    BY <1>15 DEF SwapOutWriteBack, SwapOutEnd, threadVars
  <2>2. /\ meta'[p].state = "absent" /\ ~meta'[p].evac
        /\ \A q \in Ptrs \ {p} : meta'[q] = meta[q]
    BY <1>15, <1>t DEF SwapOutWriteBack, gc_wb, Meta
  <2>3. \A q \in Ptrs : swap'[q] # None => swap[q] # None
    BY <1>t, <2>1
  <2>4. meta[p].state # "null"
    BY <2>1 DEF Used
  <2> QED
    BY <1>11, <2>1, <2>2, <2>3, <2>4 DEF Used
<1>16. CASE \/ pick_from_regions \/ SkipFreed \/ FlipExpected \/ WaitDone \/ WriteBackDone
            \/ \E r \in Regions : PushFreeRegion(r)
            \/ UNCHANGED vars
  <2>1. UNCHANGED <<pc, op, raw, meta, swap>>
    BY <1>16 DEF pick_from_regions, SkipFreed, FlipExpected, WaitDone, WriteBackDone,
      PushFreeRegion, threadVars, gcVars, vars
  <2> QED
    BY <1>11, <2>1 DEF Used
<1> QED
  BY <1>1, <1>2, <1>3, <1>4, <1>6, <1>7, <1>8, <1>9, <1>10, <1>12, <1>13, <1>14, <1>15, <1>16
  DEF Next, Collector, Begin, Finish

-----------------------------------------------------------------------------
(* Rounds.                                                                 *)

\* An allocation hands out one slot that was not handed out; the regions of the
\* round stay what they are.
LEMMA AllocSlot ==
  ASSUME TypeOK, HeapInv, Rounds, NEW c \in Cores, NEW a \in Addr, NEW ref \in {0, 1},
         allocate_local_object(c, a, ref)
  PROVE  /\ ~InHeap(a)
         /\ \A b \in Addr : InHeap(b)' <=> InHeap(b) \/ b = a
         /\ \A r \in Regions : /\ rstate'[r] = "from" <=> rstate[r] = "from"
                               /\ rstate[r] \in {"local", "used"} =>
                                    rstate'[r] \in {"local", "used"}
                               /\ rstate'[r] = "free" => bump'[r] = 0
         /\ a[1] \in Regions /\ rstate'[a[1]] = "local"
<1>t. /\ bump \in [Regions -> 0..Slots] /\ cur \in [Cores -> Regions \cup {None}]
      /\ rstate \in [Regions -> {"free", "local", "used", "from"}]
      /\ \A r \in Regions : bump[r] \in Nat
  BY SlotsAssumption DEF TypeOK, HeapTyped
<1>b. \A b \in Addr : b[1] \in Regions /\ b[2] \in Nat /\ b[2] > 0 /\ b = <<b[1], b[2]>>
  BY SlotsAssumption DEF Addr
<1>o. /\ \A r \in Regions : rstate[r] \in {"local", "used"} =>
                              rstate'[r] \in {"local", "used"}
      /\ a[1] \in Regions /\ rstate'[a[1]] = "local"
  BY AllocOwn
<1>1. CASE HasRoom(c)
  <2> DEFINE q == cur[c]
  <2>1. /\ q \in Regions /\ rstate[q] = "local"
        /\ a = <<q, bump[q] + 1>>
        /\ bump' = [bump EXCEPT ![q] = @ + 1] /\ rstate' = rstate
    BY <1>1, <1>t DEF HasRoom, allocate_local_object, HeapInv, CoresOwn
  <2> HIDE DEF q
  <2>2. /\ bump'[q] = bump[q] + 1 /\ a[1] = q /\ a[2] = bump[q] + 1
        /\ \A r \in Regions \ {q} : bump'[r] = bump[r]
    BY <1>t, <2>1
  <2>3. \A b \in Addr : InHeap(b)' <=> InHeap(b) \/ b = a
    <3> SUFFICES ASSUME NEW b \in Addr PROVE InHeap(b)' <=> InHeap(b) \/ b = a
      OBVIOUS
    <3>1. CASE b[1] # q
      BY <1>b, <2>2, <3>1 DEF InHeap
    <3>2. CASE b[1] = q
      <4>1. b = a <=> b[2] = bump[q] + 1
        BY <1>b, <2>1, <2>2, <3>2
      <4>2. bump[q] \in Nat /\ b[2] \in Nat
        BY <1>t, <1>b, <2>1
      <4> QED
        BY <2>2, <3>2, <4>1, <4>2 DEF InHeap
    <3> QED
      BY <3>1, <3>2
  <2>4. ~InHeap(a)
    BY <1>t, <2>1, <2>2 DEF InHeap
  <2>5. \A r \in Regions : rstate'[r] = "free" => bump'[r] = 0
    BY <2>1, <2>2 DEF Rounds
  <2> QED
    BY <1>o, <2>1, <2>3, <2>4, <2>5
<1>2. CASE ~HasRoom(c)
  <2>1. PICK f \in FreeRegions :
          /\ a = <<f, 1>>
          /\ rstate' = RefilledState(c, f)
          /\ bump' = [bump EXCEPT ![f] = 1]
    BY <1>2 DEF allocate_local_object
  <2>2. f \in Regions /\ rstate[f] = "free" /\ bump[f] = 0
    BY <2>1 DEF FreeRegions, Rounds
  <2>3. \A r \in Regions : rstate'[r] = IF r = f THEN "local"
                            ELSE IF r = cur[c] THEN "used" ELSE rstate[r]
    BY <2>1 DEF RefilledState
  <2>4. \A r \in Regions : r = cur[c] => rstate[r] = "local"
    BY NamesAssumption DEF HeapInv, CoresOwn
  <2>5. /\ bump'[f] = 1 /\ a[1] = f /\ a[2] = 1
        /\ \A r \in Regions \ {f} : bump'[r] = bump[r]
    BY <1>t, <2>1, <2>2
  <2>6. \A b \in Addr : InHeap(b)' <=> InHeap(b) \/ b = a
    <3> SUFFICES ASSUME NEW b \in Addr PROVE InHeap(b)' <=> InHeap(b) \/ b = a
      OBVIOUS
    <3>1. CASE b[1] # f
      BY <1>b, <2>5, <3>1 DEF InHeap
    <3>2. CASE b[1] = f
      <4>1. b = a <=> b[2] = 1
        BY <1>b, <2>1, <2>5, <3>2
      <4>2. b[2] \in Nat /\ b[2] > 0
        BY <1>b
      <4> QED
        BY <2>2, <2>5, <3>2, <4>1, <4>2 DEF InHeap
    <3> QED
      BY <3>1, <3>2
  <2>7. ~InHeap(a)
    BY <2>2, <2>5 DEF InHeap
  <2>8. \A r \in Regions : /\ rstate'[r] = "free" => bump'[r] = 0
                           /\ rstate'[r] = "from" <=> rstate[r] = "from"
    BY <2>2, <2>3, <2>4, <2>5 DEF Rounds
  <2> QED
    BY <1>o, <2>6, <2>7, <2>8
<1> QED
  BY <1>1, <1>2

LEMMA AllocNoSlot ==
  ASSUME TypeOK, HeapInv, Rounds, NEW c \in Cores, allocate_local_object_fails(c)
  PROVE  /\ \A b \in Addr : InHeap(b)' <=> InHeap(b)
         /\ \A r \in Regions : /\ rstate'[r] = "from" <=> rstate[r] = "from"
                               /\ rstate[r] \in {"local", "used"} =>
                                    rstate'[r] \in {"local", "used"}
                               /\ rstate'[r] = "free" => bump'[r] = 0
<1>1. bump' = bump
  BY DEF allocate_local_object_fails
<1>2. \A r \in Regions : rstate'[r] = IF r = cur[c] THEN "used" ELSE rstate[r]
  BY NamesAssumption DEF allocate_local_object_fails, RefilledState
<1>3. \A r \in Regions : r = cur[c] => rstate[r] = "local"
  BY NamesAssumption DEF HeapInv, CoresOwn
<1> QED
  BY <1>1, <1>2, <1>3, AllocFailOwn DEF InHeap, Rounds

\* A step that leaves the regions of the round and what is handed out there.
LEMMA RoundsKept ==
  ASSUME TypeOK, Rounds, gc' = gc, todo' \subseteq todo,
         \A b \in Addr : InHeap(b) => InHeap(b)',
         \A r \in Regions : /\ rstate'[r] = "from" <=> rstate[r] = "from"
                            /\ rstate'[r] = "free" => bump'[r] = 0
  PROVE  Rounds'
<1>1. \A a \in todo : a \in Addr /\ a[1] \in Regions
  BY DEF TypeOK, CollectorTyped, Addr
<1> QED
  BY <1>1 DEF Rounds, InHeap

LEMMA RoundsStep == TypeOK /\ HeapInv /\ Rounds /\ [Next]_vars => Rounds'
<1> SUFFICES ASSUME TypeOK, HeapInv, Rounds, [Next]_vars PROVE Rounds'
  OBVIOUS
<1>t. /\ rstate \in [Regions -> {"free", "local", "used", "from"}]
      /\ bump \in [Regions -> 0..Slots] /\ todo \in SUBSET Addr
  BY DEF TypeOK, HeapTyped, CollectorTyped
<1>a. ASSUME NEW c \in Cores, NEW a \in Addr, NEW ref \in {0, 1},
             allocate_local_object(c, a, ref), gc' = gc, todo' \subseteq todo
      PROVE  Rounds'
  BY <1>a, AllocSlot, RoundsKept
<1>b. ASSUME NEW c \in Cores, allocate_local_object_fails(c), gc' = gc, todo' \subseteq todo
      PROVE  Rounds'
  BY <1>b, AllocNoSlot, RoundsKept
<1>c. ASSUME UNCHANGED <<rstate, bump>>, gc' = gc, todo' \subseteq todo
      PROVE  Rounds'
  BY <1>c, RoundsKept DEF InHeap, Rounds
<1>1. ASSUME NEW t \in Threads, Begin(t) \/ Finish(t) PROVE Rounds'
  <2>1. gc' = gc /\ todo' \subseteq todo
    BY <1>1, ThreadFrame DEF gcVars
  <2>2. ASSUME NEW p \in Ptrs, NEW c \in Cores, AllocLocal(t, p, c) PROVE Rounds'
    BY <1>a, <1>b, <2>1, <2>2 DEF AllocLocal
  <2>3. ASSUME NEW c \in Cores, SwapInAlloc(t, c) \/ MigrateCopy(t, c) PROVE Rounds'
    BY <1>a, <1>b, <2>1, <2>3 DEF SwapInAlloc, MigrateCopy
  <2>4. CASE ~(\E c \in Cores : \/ \E p \in Ptrs : AllocLocal(t, p, c)
                                \/ SwapInAlloc(t, c) \/ MigrateCopy(t, c))
    <3>1. UNCHANGED <<rstate, bump>>
      BY <1>1, <2>4 DEF Begin, Finish, EnterSnapshot, EnterCount, Exit, AllocInit, Free,
        Write, DerefStart, DerefRetry, _deref, DerefBits, SwapInLock,
        SwapInRead, MigrateSnap, MigrateCheck, MigrateLock, MigratePublish, FlushStart,
        FlushRetry, _flush, FlushLock, FlushWrite, FlushClean, heapVars
    <3> QED
      BY <1>c, <2>1, <3>1
  <2> QED
    BY <2>2, <2>3, <2>4
<1>2. ASSUME NEW p \in Ptrs, NEW c \in Cores, SwapOutCopy(p, c) \/ SwapOutWriteBack(p, c)
      PROVE  Rounds'
  <2>1. gc' = gc /\ todo' \subseteq todo
    BY <1>2 DEF SwapOutCopy, SwapOutWriteBack, SwapOutEnd
  <2> QED
    BY <1>2, <1>a, <1>b, <1>c, <2>1 DEF SwapOutCopy, SwapOutWriteBack, heapVars
<1>3. CASE SkipFreed \/ \E a \in Addr : MarkObj(a) \/ SwapOutLock(a)
  BY <1>3, <1>c DEF SkipFreed, MarkObj, SwapOutLock, heapVars
<1>4. CASE FlipExpected \/ WriteBackDone
  BY <1>4 DEF FlipExpected, WriteBackDone, PhaseDone, heapVars, Rounds
<1>5. CASE WaitDone
  BY <1>5 DEF WaitDone, Allocated, FromRegions, heapVars, Rounds
<1>6. CASE pick_from_regions
  <2>1. PICK rs \in SUBSET {r \in Regions : rstate[r] = "used" /\ refcnt[r] = 0} :
          /\ rstate' = [r \in Regions |-> IF r \in rs THEN "from" ELSE rstate[r]]
          /\ todo' = Allocated(rs)
    BY <1>6 DEF pick_from_regions
  <2>2. bump' = bump /\ gc' = "mark"
    BY <1>6 DEF pick_from_regions
  <2>3. \A r \in Regions : rstate'[r] = IF r \in rs THEN "from" ELSE rstate[r]
    BY <2>1
  <2>4. \A a \in todo' : a[1] \in rs /\ a[2] <= bump[a[1]]
    BY <2>1 DEF Allocated
  <2> QED
    BY <2>2, <2>3, <2>4 DEF Rounds
<1>7. ASSUME NEW r \in Regions, PushFreeRegion(r) PROVE Rounds'
  <2>1. /\ rstate' = [rstate EXCEPT ![r] = "free"] /\ bump' = [bump EXCEPT ![r] = 0]
        /\ gc = "free" /\ todo' = todo /\ todo = {}
        /\ gc' = IF FromRegions = {r} THEN "idle" ELSE "free"
    BY <1>7 DEF PushFreeRegion, Rounds
  <2>2. \A q \in Regions : rstate'[q] = "free" => bump'[q] = 0
    BY <1>t, <2>1 DEF Rounds
  <2>3. \A q \in Regions : rstate'[q] = "from" => gc' # "idle"
    BY <1>t, <2>1 DEF FromRegions
  <2> QED
    BY <2>1, <2>2, <2>3 DEF Rounds
<1>8. CASE UNCHANGED vars
  BY <1>8 DEF vars, heapVars, gcVars, Rounds
<1> QED
  BY <1>1, <1>2, <1>3, <1>4, <1>5, <1>6, <1>7, <1>8 DEF Next, Collector

\* The discipline holds initially and in every step.
LEMMA DisciplineInit == Init => Discipline
BY NamesAssumption DEF Init, Discipline, Scoped, Locked, Used, Rounds, ScopePcs, LockPcs,
  Idle, Null, Meta

LEMMA DisciplineStep == TypeOK /\ HeapInv /\ Discipline /\ [Next]_vars => Discipline'
BY ScopedStep, LockedStep, UsedStep, RoundsStep DEF Discipline

-----------------------------------------------------------------------------
(* Memory: steps that move nothing.                                        *)

\* What the types say of the addresses that the invariant is about.
LEMMA AddressesTyped ==
  ASSUME TypeOK
  PROVE  /\ \A p \in Ptrs : Present(p) => meta[p].addr \in Addr /\ meta[p].addr[1] \in Regions
         /\ \A t \in Threads : Taking(t) =>
              /\ op[t].ptr \in Ptrs /\ op[t].new \in Addr /\ op[t].new[1] \in Regions
         /\ \A t \in Threads : pc[t] \in {"migrate_copy", "migrate_pub"} =>
              op[t].ptr \in Ptrs /\ op[t].addr \in Addr
         /\ \A t \in Threads, p \in Ptrs : \A a : Holds(t, p, a) => a \in Addr /\ a[1] \in Regions
         /\ \A a \in Addr : a[1] \in Regions
         /\ todo \subseteq Addr
<1>1. \A a \in Addr : a[1] \in Regions
  BY DEF Addr
<1>2. \A p \in Ptrs : Present(p) => meta[p].addr \in Addr
  BY DEF TypeOK, PointersTyped, Present
<1>3. \A t \in Threads : Taking(t) => op[t].ptr \in Ptrs /\ op[t].new \in Addr
  BY DEF TypeOK, OperandsTyped, Taking
<1>4. \A t \in Threads : pc[t] \in {"migrate_copy", "migrate_pub"} =>
        op[t].ptr \in Ptrs /\ op[t].addr \in Addr
  BY DEF TypeOK, OperandsTyped
<1>5. \A t \in Threads, p \in Ptrs : \A a : Holds(t, p, a) => a \in Addr
  BY DEF TypeOK, OperandsTyped, Holds, RawType
<1>6. todo \subseteq Addr
  BY DEF TypeOK, CollectorTyped
<1> QED
  BY <1>1, <1>2, <1>3, <1>4, <1>5, <1>6

\* Nothing is allocated, moved or freed; a thread may get hold of an object that
\* is not marked, or go on to copy a marked one.
LEMMA MemoryKept ==
  ASSUME TypeOK, Used, Memory, UNCHANGED gcVars, expected' = expected,
         \A b \in Addr : InHeap(b)' <=> InHeap(b),
         \A r \in Regions : /\ rstate'[r] = "from" <=> rstate[r] = "from"
                            /\ rstate[r] \in {"local", "used"} =>
                                 rstate'[r] \in {"local", "used"},
         \A b \in Addr : obj'[b].ptr = obj[b].ptr /\ obj'[b].freed = obj[b].freed,
         \A q \in Ptrs : /\ meta'[q].state = meta[q].state
                         /\ meta'[q].addr = meta[q].addr
                         /\ meta'[q].evac = meta[q].evac,
         \A u \in Threads : /\ Taking(u)' <=> Taking(u)
                            /\ Taking(u) => op'[u].new = op[u].new,
         \A u \in Threads : pc'[u] = "migrate_pub" =>
           /\ pc[u] = "migrate_pub"
           /\ op'[u].ptr = op[u].ptr /\ op'[u].addr = op[u].addr,
         \A u \in Threads : pc'[u] = "migrate_copy" =>
           op'[u].ptr \in Ptrs /\ meta[op'[u].ptr].evac,
         \A u \in Threads, q \in Ptrs, b \in Addr : Holds(u, q, b)' =>
           /\ status'[u] = status[u]
           /\ Holds(u, q, b) \/ (Present(q) /\ ~meta[q].evac /\ b = meta[q].addr)
  PROVE  Memory'
<1>t. /\ \A p \in Ptrs : Present(p) => meta[p].addr \in Addr /\ meta[p].addr[1] \in Regions
      /\ \A t \in Threads : Taking(t) =>
           /\ op[t].ptr \in Ptrs /\ op[t].new \in Addr /\ op[t].new[1] \in Regions
      /\ \A t \in Threads : pc[t] \in {"migrate_copy", "migrate_pub"} =>
           op[t].ptr \in Ptrs /\ op[t].addr \in Addr
      /\ \A a \in Addr : a[1] \in Regions
  BY AddressesTyped
<1>m. Owned /\ Taken /\ Copying /\ Swapping /\ Marked /\ Headers /\ Kept
  BY DEF Memory
<1>p. \A q \in Ptrs : Present(q)' <=> Present(q)
  BY DEF Present
<1>1. Owned'
  BY <1>t, <1>m, <1>p DEF Owned
<1>2. Taken'
  <2> SUFFICES ASSUME NEW t \in Threads, Taking(t)'
               PROVE  /\ InHeap(op[t].new)'
                      /\ rstate'[op'[t].new[1]] \in {"local", "used"}
                      /\ \A p \in Ptrs : Present(p)' => meta'[p].addr # op'[t].new
                      /\ \A u \in Threads : Taking(u)' /\ op'[u].new = op'[t].new => u = t
                      /\ \A u \in Threads, p \in Ptrs : ~Holds(u, p, op[t].new)'
    BY DEF Taken
  <2>1. /\ Taking(t) /\ op'[t].new = op[t].new /\ op[t].new \in Addr
        /\ op[t].new[1] \in Regions
    BY <1>t
  <2>2. /\ InHeap(op[t].new)
        /\ rstate[op[t].new[1]] \in {"local", "used"}
        /\ \A p \in Ptrs : Present(p) => meta[p].addr # op[t].new
        /\ \A u \in Threads : Taking(u) /\ op[u].new = op[t].new => u = t
        /\ \A u \in Threads, p \in Ptrs : ~Holds(u, p, op[t].new)
    BY <1>m, <2>1 DEF Taken
  <2>3. InHeap(op[t].new)'
    <3>1. (op[t].new)[2] <= bump'[(op[t].new)[1]]
      BY <2>1, <2>2 DEF InHeap
    <3> QED
      BY <2>1, <3>1 DEF InHeap
  <2>4. \A u \in Threads, p \in Ptrs : ~Holds(u, p, op[t].new)'
    <3> SUFFICES ASSUME NEW u \in Threads, NEW p \in Ptrs, Holds(u, p, op[t].new)'
                 PROVE  FALSE
      OBVIOUS
    <3>0. PICK b \in Addr : b = op[t].new /\ b = op'[t].new
      BY <2>1
    <3>1. Holds(u, p, b)'
      BY <3>0 DEF Holds
    <3>2. Holds(u, p, b) \/ (Present(p) /\ b = meta[p].addr)
      BY <3>1
    <3> QED
      BY <2>2, <3>0, <3>2
  <2> QED
    BY <1>p, <2>1, <2>2, <2>3, <2>4
<1>3. Copying'
  <2>1. \A t \in Threads : pc'[t] = "migrate_pub" => Taking(t)
    BY DEF Taking
  <2> QED
    BY <1>t, <1>m, <2>1 DEF Copying
<1>4. Swapping'
  BY <1>m, <1>p DEF Swapping, gcVars
<1>5. Marked'
  <2>1. \A q \in Ptrs : meta[q].evac => Present(q)
    BY DEF Used, Present
  <2> QED
    BY <1>t, <1>m, <1>p, <2>1 DEF Marked, gcVars
<1>6. Headers'
  <2> SUFFICES ASSUME NEW a \in Addr, InHeap(a)',
                      rstate'[a[1]] = "from" /\ gc' \in {"wb", "free"} => a \in todo'
               PROVE  \/ obj'[a].freed
                      \/ Current(a)'
                      \/ \E t \in Threads : Taking(t)' /\ op'[t].new = a
    BY DEF Headers
  <2>1. \/ obj[a].freed
        \/ Current(a)
        \/ \E t \in Threads : Taking(t) /\ op[t].new = a
    BY <1>t, <1>m DEF Headers, gcVars
  <2>2. Current(a) => Current(a)'
    BY <1>p DEF Current
  <2> QED
    BY <2>1, <2>2
<1>7. Kept'
  <2> SUFFICES ASSUME NEW t \in Threads, NEW p \in Ptrs, NEW a \in Addr, Holds(t, p, a)'
               PROVE  /\ InHeap(a)'
                      /\ obj'[a].ptr = p
                      /\ rstate'[a[1]] = "from" /\ gc' \in {"wait", "wb", "free"} =>
                           status'[t] # expected'
    BY DEF Kept
  <2>1. CASE Holds(t, p, a)
    BY <1>t, <1>m, <2>1 DEF Kept, gcVars
  <2>2. CASE Present(p) /\ ~meta[p].evac /\ a = meta[p].addr
    BY <1>t, <1>m, <2>2 DEF Owned, Marked, gcVars
  <2> QED
    BY <2>1, <2>2
<1> QED
  BY <1>1, <1>2, <1>3, <1>4, <1>5, <1>6, <1>7 DEF Memory

\* The same, for a step of thread t.
LEMMA MemoryKeptBy ==
  ASSUME TypeOK, Used, Memory, NEW t \in Threads, Begin(t) \/ Finish(t),
         \A b \in Addr : InHeap(b)' <=> InHeap(b),
         \A r \in Regions : /\ rstate'[r] = "from" <=> rstate[r] = "from"
                            /\ rstate[r] \in {"local", "used"} =>
                                 rstate'[r] \in {"local", "used"},
         \A b \in Addr : obj'[b].ptr = obj[b].ptr /\ obj'[b].freed = obj[b].freed,
         \A q \in Ptrs : /\ meta'[q].state = meta[q].state
                         /\ meta'[q].addr = meta[q].addr
                         /\ meta'[q].evac = meta[q].evac,
         ~Taking(t), ~Taking(t)',
         pc'[t] = "migrate_copy" => op'[t].ptr \in Ptrs /\ meta[op'[t].ptr].evac,
         \A q \in Ptrs, b \in Addr : Holds(t, q, b)' =>
           /\ status'[t] = status[t]
           /\ Holds(t, q, b) \/ (Present(q) /\ ~meta[q].evac /\ b = meta[q].addr)
  PROVE  Memory'
<1>1. /\ \A u \in Threads \ {t} :
           pc'[u] = pc[u] /\ op'[u] = op[u] /\ raw'[u] = raw[u] /\ status'[u] = status[u]
      /\ expected' = expected /\ UNCHANGED gcVars
  BY ThreadFrame
<1>2. \A u \in Threads : /\ Taking(u)' <=> Taking(u)
                         /\ Taking(u) => op'[u].new = op[u].new
  BY <1>1 DEF Taking
<1>3. \A u \in Threads : pc'[u] = "migrate_pub" =>
        /\ pc[u] = "migrate_pub"
        /\ op'[u].ptr = op[u].ptr /\ op'[u].addr = op[u].addr
  BY <1>1 DEF Taking
<1>4. \A u \in Threads : pc'[u] = "migrate_copy" =>
        op'[u].ptr \in Ptrs /\ meta[op'[u].ptr].evac
  BY <1>1, AddressesTyped DEF Memory, Copying
<1>5. \A u \in Threads, q \in Ptrs, b \in Addr : Holds(u, q, b)' =>
        /\ status'[u] = status[u]
        /\ Holds(u, q, b) \/ (Present(q) /\ ~meta[q].evac /\ b = meta[q].addr)
  BY <1>1 DEF Holds
<1> QED
  BY <1>1, <1>2, <1>3, <1>4, <1>5, MemoryKept

\* _deref hands out an object that is not marked, or changes nothing.
LEMMA DerefMemory ==
  ASSUME TypeOK, Used, Memory, NEW t \in Threads, Begin(t) \/ Finish(t), ~Taking(t),
         NEW p \in Ptrs, NEW mut \in BOOLEAN, _deref(t, p, mut), pc[t] # "bits"
  PROVE  Memory'
<1>t. /\ pc \in [Threads -> PcType] /\ op \in [Threads -> OpType]
      /\ raw \in [Threads -> SUBSET RawType]
  BY DEF TypeOK, ScopesTyped, OperandsTyped
<1>1. UNCHANGED <<meta, obj, rstate, bump, status>>
  BY DEF _deref, heapVars, scopeVars
<1>2. pc'[t] \in {"in", "swap_in", "migrate", "bits"}
  BY <1>t DEF _deref, Return
<1>3. \A w \in raw'[t] : \/ w \in raw[t]
                         \/ Present(p) /\ ~meta[p].evac /\ w.ptr = p /\ w.addr = meta[p].addr
  BY <1>t DEF _deref, Return, Present
<1>4. pc'[t] = "bits" => /\ Present(p) /\ ~meta[p].evac
                         /\ op'[t].ptr = p /\ op'[t].addr = meta[p].addr
  BY <1>t DEF _deref, Return, Present, Idle
<1>5. \A q \in Ptrs, b \in Addr : Holds(t, q, b)' =>
        Holds(t, q, b) \/ (Present(q) /\ ~meta[q].evac /\ b = meta[q].addr)
  BY <1>3, <1>4 DEF Holds
<1>6. ~Taking(t)'
  BY <1>2 DEF Taking
<1> QED
  BY <1>1, <1>2, <1>5, <1>6, MemoryKeptBy DEF InHeap

\* The steps of a mutator that move nothing.
LEMMA QuietMemory ==
  ASSUME TypeOK, HeapInv, Discipline, Memory, NEW t \in Threads,
         \/ EnterSnapshot(t) \/ EnterCount(t) \/ Exit(t) \/ Write(t)
         \/ SwapInLock(t) \/ MigrateSnap(t) \/ MigrateCheck(t) \/ MigrateLock(t)
         \/ FlushRetry(t) \/ FlushLock(t) \/ FlushWrite(t)
         \/ \E p \in Ptrs : FlushStart(t, p)
  PROVE  Memory'
<1>t. /\ pc \in [Threads -> PcType] /\ op \in [Threads -> OpType]
      /\ raw \in [Threads -> SUBSET RawType] /\ obj \in [Addr -> ObjType]
  BY DEF TypeOK, ScopesTyped, OperandsTyped, HeapTyped
<1>0. Begin(t) \/ Finish(t)
  BY DEF Begin, Finish
<1>1. UNCHANGED <<meta, rstate, bump>>
  BY DEF EnterSnapshot, EnterCount, Exit, Write, SwapInLock, MigrateSnap, MigrateCheck, MigrateLock,
    FlushRetry, FlushLock, FlushWrite, FlushStart, _flush, heapVars
<1>2. \A b \in Addr : obj'[b].ptr = obj[b].ptr /\ obj'[b].freed = obj[b].freed
  <2>1. CASE Write(t)
    BY <2>1, <1>t DEF Write, ObjType
  <2>2. CASE ~Write(t)
    BY <2>2 DEF EnterSnapshot, EnterCount, Exit, SwapInLock, MigrateSnap, MigrateCheck, MigrateLock,
      FlushRetry, FlushLock, FlushWrite, FlushStart, _flush
  <2> QED
    BY <2>1, <2>2
<1>3. /\ ~Taking(t) /\ ~Taking(t)' /\ pc'[t] # "bits"
      /\ pc'[t] = "migrate_copy" => MigrateLock(t)
  BY <1>t DEF EnterSnapshot, EnterCount, Exit, Write, SwapInLock, MigrateSnap, MigrateCheck, MigrateLock,
    FlushRetry, FlushLock, FlushWrite, FlushStart, _flush, Retry, threadVars, Taking
<1>4. MigrateLock(t) /\ pc'[t] = "migrate_copy" =>
        op'[t].ptr \in Ptrs /\ meta[op'[t].ptr].evac
  BY <1>t DEF MigrateLock, TypeOK, OperandsTyped
<1>5. raw'[t] \subseteq raw[t] /\ (raw'[t] # {} => status'[t] = status[t])
  <2>1. CASE EnterSnapshot(t)
    BY <2>1, <1>t DEF EnterSnapshot, Discipline, Scoped, ScopePcs
  <2>2. CASE Exit(t)
    BY <2>2, <1>t DEF Exit
  <2>3. CASE ~(EnterSnapshot(t) \/ Exit(t))
    BY <2>3 DEF EnterCount, Write, SwapInLock, MigrateSnap, MigrateCheck, MigrateLock,
      FlushRetry, FlushLock, FlushWrite, FlushStart, _flush, threadVars, scopeVars
  <2> QED
    BY <2>1, <2>2, <2>3
<1>6. \A q \in Ptrs, b \in Addr : Holds(t, q, b)' =>
        status'[t] = status[t] /\ Holds(t, q, b)
  BY <1>3, <1>5 DEF Holds
<1> QED
  BY <1>0, <1>1, <1>2, <1>3, <1>4, <1>6, MemoryKeptBy DEF InHeap, Discipline

\* The metadata bits of DerefBits and FlushClean.
LEMMA BitsMemory ==
  ASSUME TypeOK, HeapInv, Discipline, Memory, NEW t \in Threads,
         DerefBits(t) \/ FlushClean(t)
  PROVE  Memory'
<1>t. /\ pc \in [Threads -> PcType] /\ op \in [Threads -> OpType]
      /\ raw \in [Threads -> SUBSET RawType] /\ meta \in [Ptrs -> MetaType]
  BY DEF TypeOK, ScopesTyped, OperandsTyped, PointersTyped
<1>0. Begin(t) \/ Finish(t)
  BY DEF Begin, Finish
<1>1. UNCHANGED <<obj, rstate, bump, status>>
  BY DEF DerefBits, FlushClean, heapVars, scopeVars
<1>2. \A q \in Ptrs : /\ meta'[q].state = meta[q].state
                      /\ meta'[q].addr = meta[q].addr
                      /\ meta'[q].evac = meta[q].evac
  BY <1>t DEF DerefBits, FlushClean, MetaType
<1>3. /\ pc[t] \in {"bits", "flush_clean"} /\ pc'[t] \in {"in", "out"}
  BY <1>t DEF DerefBits, FlushClean, Return
<1>4. \A w \in raw'[t] : \/ w \in raw[t]
                         \/ pc[t] = "bits" /\ w.ptr = op[t].ptr /\ w.addr = op[t].addr
  BY <1>t DEF DerefBits, FlushClean, Return
<1>5. \A q \in Ptrs, b \in Addr : Holds(t, q, b)' => Holds(t, q, b)
  BY <1>3, <1>4 DEF Holds
<1>6. ~Taking(t) /\ ~Taking(t)'
  BY <1>3 DEF Taking
<1> QED
  BY <1>0, <1>1, <1>2, <1>3, <1>5, <1>6, MemoryKeptBy DEF InHeap, Discipline

\* Allocations that fail.
LEMMA FailMemory ==
  ASSUME TypeOK, HeapInv, Discipline, Memory, NEW t \in Threads, NEW c \in Cores,
         allocate_local_object_fails(c),
         SwapInAlloc(t, c) \/ MigrateCopy(t, c) \/ \E p \in Ptrs : AllocLocal(t, p, c),
         pc'[t] \in {pc[t], "deref"}, UNCHANGED obj
  PROVE  Memory'
<1>0. Begin(t) \/ Finish(t)
  BY DEF Begin, Finish
<1>1. UNCHANGED <<meta, raw, status>> /\ pc[t] \in {"out", "swap_alloc", "migrate_copy"}
  BY DEF SwapInAlloc, MigrateCopy, AllocLocal, scopeVars
<1>2. pc'[t] = "migrate_copy" => op'[t].ptr \in Ptrs /\ meta[op'[t].ptr].evac
  <2>1. pc[t] = "migrate_copy" => op[t].ptr \in Ptrs /\ meta[op[t].ptr].evac
    BY AddressesTyped DEF Memory, Copying
  <2>2. op'[t].ptr = op[t].ptr \/ pc'[t] # "migrate_copy"
    BY DEF SwapInAlloc, MigrateCopy, AllocLocal, Retry, TypeOK, OperandsTyped, OpType, ScopesTyped
  <2> QED
    BY <1>1, <2>1, <2>2
<1>3. \A q \in Ptrs, b \in Addr : Holds(t, q, b)' => Holds(t, q, b)
  BY <1>1 DEF Holds
<1>4. ~Taking(t) /\ ~Taking(t)'
  BY <1>1 DEF Taking
<1>5. /\ \A b \in Addr : InHeap(b)' <=> InHeap(b)
      /\ \A r \in Regions : /\ rstate'[r] = "from" <=> rstate[r] = "from"
                            /\ rstate[r] \in {"local", "used"} =>
                                 rstate'[r] \in {"local", "used"}
  BY AllocNoSlot DEF Discipline
<1> QED
  BY <1>0, <1>1, <1>2, <1>3, <1>4, <1>5, MemoryKeptBy DEF Discipline

-----------------------------------------------------------------------------
(* Memory: taking a slot and publishing it.                                *)

\* Thread t takes slot a; when it migrates an object, it copies it there too.
LEMMA SlotTaken ==
  ASSUME TypeOK, Used, Memory, NEW t \in Threads, NEW a \in Addr,
         \A u \in Threads \ {t} : pc'[u] = pc[u] /\ op'[u] = op[u],
         UNCHANGED <<raw, meta, expected, status>>, UNCHANGED gcVars,
         ~InHeap(a),
         \A b \in Addr : InHeap(b)' <=> InHeap(b) \/ b = a,
         \A r \in Regions : /\ rstate'[r] = "from" <=> rstate[r] = "from"
                            /\ rstate[r] \in {"local", "used"} =>
                                 rstate'[r] \in {"local", "used"},
         a[1] \in Regions, rstate'[a[1]] = "local",
         \A b \in Addr \ {a} : obj'[b] = obj[b],
         ~Taking(t), Taking(t)', op'[t].new = a,
         pc'[t] = "migrate_pub" =>
           /\ op'[t].ptr \in Ptrs
           /\ meta[op'[t].ptr].evac /\ meta[op'[t].ptr].addr = op'[t].addr
           /\ obj'[a].ptr = op'[t].ptr /\ ~obj'[a].freed
  PROVE  Memory'
<1>t. /\ \A p \in Ptrs : Present(p) => meta[p].addr \in Addr /\ meta[p].addr[1] \in Regions
      /\ \A u \in Threads : Taking(u) =>
           /\ op[u].ptr \in Ptrs /\ op[u].new \in Addr /\ op[u].new[1] \in Regions
      /\ \A b \in Addr : b[1] \in Regions
  BY AddressesTyped
<1>m. Owned /\ Taken /\ Copying /\ Swapping /\ Marked /\ Headers /\ Kept
  BY DEF Memory
<1>p. \A q \in Ptrs : Present(q)' <=> Present(q)
  BY DEF Present
<1>h. \A u \in Threads, q \in Ptrs : \A b : Holds(u, q, b)' => Holds(u, q, b)
  BY DEF Holds, Taking
<1>k. \A u \in Threads, q \in Ptrs : ~Holds(u, q, a)
  BY <1>m DEF Kept
<1>n. /\ \A q \in Ptrs : Present(q) => meta[q].addr # a
      /\ \A u \in Threads : Taking(u) => op[u].new # a
  BY <1>m DEF Owned, Taken
<1>1. Owned'
  BY <1>t, <1>m, <1>n, <1>p DEF Owned
<1>2. Taken'
  <2>1. ASSUME NEW u \in Threads, Taking(u)', NEW b \in Addr, b = op'[u].new
        PROVE  /\ InHeap(b)'
               /\ rstate'[b[1]] \in {"local", "used"}
               /\ \A p \in Ptrs : Present(p)' => meta'[p].addr # b
               /\ \A v \in Threads : Taking(v)' /\ op'[v].new = b => v = u
               /\ \A v \in Threads, p \in Ptrs : ~Holds(v, p, b)'
    <3>1. CASE u = t
      <4>1. b = a
        BY <2>1, <3>1
      <4>2. \A v \in Threads : Taking(v)' /\ op'[v].new = a => v = t
        BY <1>n DEF Taking
      <4> QED
        BY <1>h, <1>k, <1>n, <1>p, <3>1, <4>1, <4>2
    <3>2. CASE u # t
      <4>1. Taking(u) /\ op[u].new = b
        BY <2>1, <3>2 DEF Taking
      <4>2. /\ InHeap(b) /\ b # a
            /\ rstate[b[1]] \in {"local", "used"}
            /\ \A p \in Ptrs : Present(p) => meta[p].addr # b
            /\ \A v \in Threads : Taking(v) /\ op[v].new = b => v = u
            /\ \A v \in Threads, p \in Ptrs : ~Holds(v, p, b)
        BY <1>m, <1>n, <4>1 DEF Taken
      <4>3. \A v \in Threads : Taking(v)' /\ op'[v].new = b => v = u
        BY <4>2 DEF Taking
      <4> QED
        BY <1>t, <1>h, <1>p, <4>2, <4>3
    <3> QED
      BY <3>1, <3>2
  <2>2. \A u \in Threads : Taking(u)' => op'[u].new \in Addr
    BY <1>t DEF Taking
  <2> QED
    BY <2>1, <2>2 DEF Taken, InHeap, Holds
<1>3. Copying'
  <2> SUFFICES ASSUME NEW u \in Threads
               PROVE  /\ pc'[u] \in {"migrate_copy", "migrate_pub"} => meta'[op'[u].ptr].evac
                      /\ pc'[u] = "migrate_pub" =>
                           /\ op'[u].addr = meta'[op'[u].ptr].addr
                           /\ obj'[op'[u].new].ptr = op'[u].ptr
                           /\ ~obj'[op'[u].new].freed
    BY DEF Copying
  <2>1. CASE u = t
    BY <2>1 DEF Taking
  <2>2. CASE u # t
    <3>1. pc'[u] = "migrate_pub" => op[u].new \in Addr \ {a}
      BY <1>t, <1>n, <2>2 DEF Taking
    <3> QED
      BY <1>m, <2>2, <3>1 DEF Copying
  <2> QED
    BY <2>1, <2>2
<1>4. Swapping'
  BY <1>m, <1>p DEF Swapping, gcVars
<1>5. Marked'
  <2>1. \A q \in Ptrs : meta[q].evac => Present(q)
    BY DEF Used, Present
  <2> QED
    BY <1>t, <1>m, <1>p, <2>1 DEF Marked, gcVars
<1>6. Headers'
  <2> SUFFICES ASSUME NEW b \in Addr, InHeap(b)',
                      rstate'[b[1]] = "from" /\ gc' \in {"wb", "free"} => b \in todo'
               PROVE  \/ obj'[b].freed
                      \/ Current(b)'
                      \/ \E u \in Threads : Taking(u)' /\ op'[u].new = b
    BY DEF Headers
  <2>1. CASE b = a
    BY <2>1
  <2>2. CASE b # a
    <3>1. \/ obj[b].freed
          \/ Current(b)
          \/ \E u \in Threads : Taking(u) /\ op[u].new = b
      BY <1>t, <1>m, <2>2 DEF Headers, gcVars
    <3>2. Current(b) => Current(b)'
      BY <1>p, <2>2 DEF Current
    <3>3. \A u \in Threads : Taking(u) => Taking(u)' /\ op'[u].new = op[u].new
      BY DEF Taking
    <3> QED
      BY <2>2, <3>1, <3>2, <3>3
  <2> QED
    BY <2>1, <2>2
<1>7. Kept'
  <2> SUFFICES ASSUME NEW u \in Threads, NEW p \in Ptrs, NEW b \in Addr, Holds(u, p, b)'
               PROVE  /\ InHeap(b)'
                      /\ obj'[b].ptr = p
                      /\ rstate'[b[1]] = "from" /\ gc' \in {"wait", "wb", "free"} =>
                           status'[u] # expected'
    BY DEF Kept
  <2>1. Holds(u, p, b) /\ b # a
    BY <1>h, <1>k
  <2> QED
    BY <1>t, <1>m, <2>1 DEF Kept, gcVars
<1> QED
  BY <1>1, <1>2, <1>3, <1>4, <1>5, <1>6, <1>7 DEF Memory

\* Allocation and swap-in take a slot.
LEMMA TakeMemory ==
  ASSUME TypeOK, HeapInv, Discipline, Memory, NEW t \in Threads, NEW c \in Cores,
         NEW a \in Addr, allocate_local_object(c, a, 1),
         SwapInAlloc(t, c) \/ \E p \in Ptrs : AllocLocal(t, p, c),
         pc'[t] \in {"alloc", "swap_read"}, op'[t].new = a
  PROVE  Memory'
<1>1. UNCHANGED <<raw, meta, obj, expected, status>> /\ ~Taking(t) /\ Taking(t)'
  BY DEF SwapInAlloc, AllocLocal, scopeVars, Taking
<1>2. /\ \A u \in Threads \ {t} : pc'[u] = pc[u] /\ op'[u] = op[u]
      /\ UNCHANGED gcVars
  BY ThreadFrame DEF Begin, Finish
<1> QED
  BY <1>1, <1>2, AllocSlot, SlotTaken DEF Discipline

\* A mutator's copy of the object it migrates.
LEMMA CopyMemory ==
  ASSUME TypeOK, HeapInv, Discipline, Memory, NEW t \in Threads, NEW c \in Cores,
         NEW a \in Addr, MigrateCopy(t, c), allocate_local_object(c, a, 0),
         obj' = [obj EXCEPT ![a] = obj[op[t].addr]], op' = [op EXCEPT ![t].new = a],
         pc' = [pc EXCEPT ![t] = "migrate_pub"],
         op[t].addr = meta[op[t].ptr].addr
  PROVE  Memory'
<1>t. /\ pc \in [Threads -> PcType] /\ op \in [Threads -> OpType] /\ obj \in [Addr -> ObjType]
  BY DEF TypeOK, ScopesTyped, OperandsTyped, HeapTyped
<1>0. pc[t] = "migrate_copy" /\ UNCHANGED <<raw, meta, expected, status>>
  BY DEF MigrateCopy, scopeVars
<1>1. ~Taking(t) /\ Taking(t)'
  BY <1>0, <1>t DEF Taking
<1>2. /\ \A u \in Threads \ {t} : pc'[u] = pc[u] /\ op'[u] = op[u]
      /\ UNCHANGED gcVars
  BY ThreadFrame DEF Finish
<1>3. op[t].ptr \in Ptrs /\ op[t].addr \in Addr /\ meta[op[t].ptr].evac
  BY <1>0, AddressesTyped DEF Memory, Copying
<1>4. Present(op[t].ptr)
  BY <1>3 DEF Discipline, Used, Present
<1>5. obj[op[t].addr].ptr = op[t].ptr /\ ~obj[op[t].addr].freed
  BY <1>3, <1>4 DEF Memory, Owned
<1>6. /\ op'[t].new = a /\ op'[t].ptr = op[t].ptr /\ op'[t].addr = op[t].addr
      /\ obj'[a] = obj[op[t].addr] /\ \A b \in Addr \ {a} : obj'[b] = obj[b]
  BY <1>t DEF OpType
<1>7. /\ ~InHeap(a)
      /\ \A b \in Addr : InHeap(b)' <=> InHeap(b) \/ b = a
      /\ \A r \in Regions : /\ rstate'[r] = "from" <=> rstate[r] = "from"
                            /\ rstate[r] \in {"local", "used"} =>
                                 rstate'[r] \in {"local", "used"}
      /\ a[1] \in Regions /\ rstate'[a[1]] = "local"
  BY AllocSlot DEF Discipline
<1>8. pc'[t] = "migrate_pub" =>
        /\ op'[t].ptr \in Ptrs
        /\ meta[op'[t].ptr].evac /\ meta[op'[t].ptr].addr = op'[t].addr
        /\ obj'[a].ptr = op'[t].ptr /\ ~obj'[a].freed
  BY <1>3, <1>5, <1>6
<1>9. Used /\ op'[t].new = a /\ \A b \in Addr \ {a} : obj'[b] = obj[b]
  BY <1>6 DEF Discipline
<1> QED
  BY <1>0, <1>1, <1>2, <1>7, <1>8, <1>9, SlotTaken

\* Thread t gives pointer p the slot a it has taken; the object p had before, if
\* any, is freed.
LEMMA SlotPublished ==
  ASSUME TypeOK, Used, Memory, NEW t \in Threads, NEW p \in Ptrs, NEW a \in Addr,
         \A u \in Threads \ {t} : pc'[u] = pc[u] /\ op'[u] = op[u],
         UNCHANGED <<raw, rstate, bump, expected, status>>, UNCHANGED gcVars,
         Taking(t), op[t].new = a, pc'[t] \notin {"bits", "migrate_copy"}, ~Taking(t)',
         swap[p] = None,
         \A u \in Threads \ {t} :
           pc[u] \in {"migrate_copy", "migrate_pub"} => op[u].ptr # p,
         obj'[a].ptr = p, ~obj'[a].freed,
         \A b \in Addr \ {a} :
           /\ obj'[b].ptr = obj[b].ptr
           /\ obj'[b].freed <=> obj[b].freed \/ (Present(p) /\ b = meta[p].addr),
         meta'[p].state = "present", meta'[p].addr = a, ~meta'[p].evac,
         \A q \in Ptrs \ {p} : meta'[q] = meta[q]
  PROVE  Memory'
<1>t. /\ \A q \in Ptrs : Present(q) => meta[q].addr \in Addr /\ meta[q].addr[1] \in Regions
      /\ \A u \in Threads : Taking(u) =>
           /\ op[u].ptr \in Ptrs /\ op[u].new \in Addr /\ op[u].new[1] \in Regions
  BY AddressesTyped
<1>m. Owned /\ Taken /\ Copying /\ Swapping /\ Marked /\ Headers /\ Kept
  BY DEF Memory
<1>p. Present(p)' /\ \A q \in Ptrs \ {p} : Present(q)' <=> Present(q)
  BY DEF Present
<1>h. \A u \in Threads, q \in Ptrs : \A b : Holds(u, q, b)' => Holds(u, q, b)
  BY DEF Holds
<1>k. /\ InHeap(a) /\ rstate[a[1]] \in {"local", "used"}
      /\ \A q \in Ptrs : Present(q) => meta[q].addr # a
      /\ \A u \in Threads \ {t} : Taking(u) => op[u].new # a
      /\ \A u \in Threads, q \in Ptrs : ~Holds(u, q, a)
  BY <1>m DEF Taken
<1>g. \A u \in Threads : Taking(u)' => Taking(u) /\ u # t /\ op'[u] = op[u] /\ pc'[u] = pc[u]
  BY DEF Taking
<1>1. Owned'
  <2>1. \A q \in Ptrs \ {p} : Present(q) =>
          ~(Present(p) /\ meta[q].addr = meta[p].addr)
    BY <1>m DEF Owned
  <2> QED
    BY <1>t, <1>m, <1>p, <1>k, <2>1 DEF Owned, InHeap
<1>2. Taken'
  <2>1. ASSUME NEW u \in Threads, Taking(u)', NEW b \in Addr, b = op'[u].new
        PROVE  /\ InHeap(b)'
               /\ rstate'[b[1]] \in {"local", "used"}
               /\ \A q \in Ptrs : Present(q)' => meta'[q].addr # b
               /\ \A v \in Threads : Taking(v)' /\ op'[v].new = b => v = u
               /\ \A v \in Threads, q \in Ptrs : ~Holds(v, q, b)'
    <3>1. Taking(u) /\ op[u].new = b /\ b # a
      BY <1>g, <1>k, <2>1
    <3>2. /\ InHeap(b)
          /\ rstate[b[1]] \in {"local", "used"}
          /\ \A q \in Ptrs : Present(q) => meta[q].addr # b
          /\ \A v \in Threads : Taking(v) /\ op[v].new = b => v = u
          /\ \A v \in Threads, q \in Ptrs : ~Holds(v, q, b)
      BY <1>m, <3>1 DEF Taken
    <3> QED
      BY <1>g, <1>h, <1>p, <3>1, <3>2 DEF InHeap
  <2>2. \A u \in Threads : Taking(u)' => op'[u].new \in Addr
    BY <1>t, <1>g
  <2> QED
    BY <2>1, <2>2 DEF Taken, InHeap, Holds
<1>3. Copying'
  <2> SUFFICES ASSUME NEW u \in Threads, pc'[u] \in {"migrate_copy", "migrate_pub"}
               PROVE  /\ meta'[op'[u].ptr].evac
                      /\ pc'[u] = "migrate_pub" =>
                           /\ op'[u].addr = meta'[op'[u].ptr].addr
                           /\ obj'[op'[u].new].ptr = op'[u].ptr
                           /\ ~obj'[op'[u].new].freed
    BY DEF Copying
  <2>1. u # t
    BY DEF Taking
  <2>2. pc'[u] = pc[u] /\ op'[u] = op[u] /\ op[u].ptr \in Ptrs \ {p}
    BY <2>1, AddressesTyped
  <2>3. pc[u] = "migrate_pub" => /\ op[u].new \in Addr \ {a}
                                 /\ ~(Present(p) /\ op[u].new = meta[p].addr)
    BY <1>t, <1>k, <1>m, <2>1 DEF Taking, Taken
  <2> QED
    BY <1>m, <2>2, <2>3 DEF Copying
<1>4. Swapping'
  BY <1>m, <1>p DEF Swapping, gcVars
<1>5. Marked'
  <2>1. \A q \in Ptrs : meta[q].evac => Present(q)
    BY DEF Used, Present
  <2> QED
    BY <1>t, <1>k, <1>m, <1>p, <2>1 DEF Marked, gcVars
<1>6. Headers'
  <2> SUFFICES ASSUME NEW b \in Addr, InHeap(b)',
                      rstate'[b[1]] = "from" /\ gc' \in {"wb", "free"} => b \in todo'
               PROVE  \/ obj'[b].freed
                      \/ Current(b)'
                      \/ \E u \in Threads : Taking(u)' /\ op'[u].new = b
    BY DEF Headers
  <2>1. CASE b = a
    BY <1>p, <2>1 DEF Current
  <2>2. CASE b # a
    <3>1. \/ obj[b].freed
          \/ Current(b)
          \/ \E u \in Threads : Taking(u) /\ op[u].new = b
      BY <1>m DEF Headers, gcVars, InHeap
    <3>2. Current(b) => Current(b)' \/ obj'[b].freed
      BY <1>p, <2>2 DEF Current
    <3>3. \A u \in Threads \ {t} : Taking(u) => Taking(u)' /\ op'[u].new = op[u].new
      BY DEF Taking
    <3> QED
      BY <2>2, <3>1, <3>2, <3>3
  <2> QED
    BY <2>1, <2>2
<1>7. Kept'
  <2> SUFFICES ASSUME NEW u \in Threads, NEW q \in Ptrs, NEW b \in Addr, Holds(u, q, b)'
               PROVE  /\ InHeap(b)'
                      /\ obj'[b].ptr = q
                      /\ rstate'[b[1]] = "from" /\ gc' \in {"wait", "wb", "free"} =>
                           status'[u] # expected'
    BY DEF Kept
  <2>1. Holds(u, q, b) /\ b # a
    BY <1>h, <1>k
  <2> QED
    BY <1>m, <2>1 DEF Kept, gcVars, InHeap
<1> QED
  BY <1>1, <1>2, <1>3, <1>4, <1>5, <1>6, <1>7 DEF Memory

\* allocate_unique_ptr and swap_in set the pointer.
LEMMA PublishMemory ==
  ASSUME TypeOK, HeapInv, Discipline, Memory, NEW t \in Threads,
         AllocInit(t) \/ SwapInRead(t)
  PROVE  Memory'
<1> DEFINE p == op[t].ptr
           a == op[t].new
<1>t. /\ pc \in [Threads -> PcType] /\ obj \in [Addr -> ObjType] /\ meta \in [Ptrs -> MetaType]
  BY DEF TypeOK, ScopesTyped, HeapTyped, PointersTyped
<1>1. Taking(t) /\ p \in Ptrs /\ a \in Addr
  BY AddressesTyped DEF AllocInit, SwapInRead, Taking
<1>2. ~Present(p) /\ ~meta[p].evac
  BY <1>1 DEF AllocInit, SwapInRead, Present, Discipline, Used
<1>3. swap[p] = None
  BY <1>1, <1>2 DEF Memory, Swapping
<1>4. \A u \in Threads : pc[u] \in {"migrate_copy", "migrate_pub"} => op[u].ptr # p
  BY <1>2 DEF Memory, Copying
<1>5. /\ \A u \in Threads \ {t} : pc'[u] = pc[u] /\ op'[u] = op[u]
      /\ expected' = expected /\ UNCHANGED gcVars
  BY ThreadFrame DEF Finish
<1>6. UNCHANGED <<raw, rstate, bump, status>>
  BY DEF AllocInit, SwapInRead, scopeVars
<1>7. pc'[t] \notin {"bits", "migrate_copy"} /\ ~Taking(t)'
  BY <1>t DEF AllocInit, SwapInRead, Retry, Taking
<1>8. /\ obj'[a].ptr = p /\ ~obj'[a].freed
      /\ \A b \in Addr \ {a} : obj'[b] = obj[b]
  BY <1>1, <1>t DEF AllocInit, SwapInRead
<1>9. /\ meta'[p].state = "present" /\ meta'[p].addr = a /\ ~meta'[p].evac
      /\ \A q \in Ptrs \ {p} : meta'[q] = meta[q]
  BY <1>1, <1>t DEF AllocInit, SwapInRead, set_present, Meta
<1>10. Used
  BY DEF Discipline
<1>11. \A b \in Addr \ {a} :
         /\ obj'[b].ptr = obj[b].ptr
         /\ obj'[b].freed <=> obj[b].freed \/ (Present(p) /\ b = meta[p].addr)
  BY <1>2, <1>8
<1>12. PICK pp \in Ptrs, aa \in Addr : pp = p /\ aa = a
  BY <1>1
<1> HIDE DEF p, a
<1>13. op[t].new = aa
  BY <1>12 DEF a
<1> QED
  BY <1>1, <1>3, <1>4, <1>5, <1>6, <1>7, <1>8, <1>9, <1>10, <1>11, <1>12, <1>13, SlotPublished

\* A mutator publishes its copy.
LEMMA MigrateMemory ==
  ASSUME TypeOK, HeapInv, Discipline, Memory, NEW t \in Threads, MigratePublish(t)
  PROVE  Memory'
<1> DEFINE p == op[t].ptr
           a == op[t].new
<1>t. /\ pc \in [Threads -> PcType] /\ obj \in [Addr -> ObjType] /\ meta \in [Ptrs -> MetaType]
      /\ lock \in [Ptrs -> Threads \cup {GC, None}]
  BY DEF TypeOK, ScopesTyped, HeapTyped, PointersTyped
<1>1. pc[t] = "migrate_pub" /\ Taking(t) /\ p \in Ptrs /\ a \in Addr /\ op[t].addr \in Addr
  BY AddressesTyped DEF MigratePublish, Taking
<1>2. /\ meta[p].evac /\ op[t].addr = meta[p].addr
      /\ obj[a].ptr = p /\ ~obj[a].freed
  BY <1>1 DEF Memory, Copying
<1>3. Present(p) /\ meta[p].addr # a
  BY <1>1, <1>2 DEF Discipline, Used, Present, Memory, Taken
<1>4. lock[p] = t
  BY <1>1 DEF Discipline, Locked, LockPcs
<1>5. swap[p] = None /\ \A u \in Threads \ {t} :
           pc[u] \in {"migrate_copy", "migrate_pub"} => op[u].ptr # p
  BY <1>1, <1>4, NamesAssumption DEF Discipline, Locked, LockPcs
<1>6. /\ \A u \in Threads \ {t} : pc'[u] = pc[u] /\ op'[u] = op[u]
      /\ expected' = expected /\ UNCHANGED gcVars
  BY ThreadFrame DEF Finish
<1>7. UNCHANGED <<raw, rstate, bump, status>>
  BY DEF MigratePublish, heapVars, scopeVars
<1>8. pc'[t] \notin {"bits", "migrate_copy"} /\ ~Taking(t)'
  BY <1>t DEF MigratePublish, Retry, Taking
<1>9. \A b \in Addr : /\ obj'[b].ptr = obj[b].ptr
                      /\ obj'[b].freed <=> obj[b].freed \/ b = op[t].addr
  BY <1>1, <1>t DEF MigratePublish, ObjType
<1>10. /\ meta'[p].state = "present" /\ meta'[p].addr = a /\ ~meta'[p].evac
       /\ \A q \in Ptrs \ {p} : meta'[q] = meta[q]
  BY <1>1, <1>3, <1>t DEF MigratePublish, mutator_copy, MetaType, Present
<1>11. Used
  BY DEF Discipline
<1>12. /\ obj'[a].ptr = p /\ ~obj'[a].freed
       /\ \A b \in Addr \ {a} :
            /\ obj'[b].ptr = obj[b].ptr
            /\ obj'[b].freed <=> obj[b].freed \/ (Present(p) /\ b = meta[p].addr)
  BY <1>1, <1>2, <1>3, <1>9
<1>13. PICK pp \in Ptrs, aa \in Addr : pp = p /\ aa = a
  BY <1>1
<1> HIDE DEF p, a
<1>14. op[t].new = aa
  BY <1>13 DEF a
<1> QED
  BY <1>1, <1>5, <1>6, <1>7, <1>8, <1>10, <1>11, <1>12, <1>13, <1>14, SlotPublished

\* free: the object is marked freed, nobody has its address any more.
LEMMA FreeMemory ==
  ASSUME TypeOK, HeapInv, Discipline, Memory, NEW t \in Threads, NEW p \in Ptrs, Free(t, p)
  PROVE  Memory'
<1> DEFINE o == meta[p].addr
<1>t. /\ obj \in [Addr -> ObjType] /\ meta \in [Ptrs -> MetaType]
      /\ raw \in [Threads -> SUBSET RawType]
      /\ \A q \in Ptrs : Present(q) => meta[q].addr \in Addr /\ meta[q].addr[1] \in Regions
      /\ \A u \in Threads : Taking(u) =>
           /\ op[u].ptr \in Ptrs /\ op[u].new \in Addr /\ op[u].new[1] \in Regions
  BY AddressesTyped DEF TypeOK, OperandsTyped, HeapTyped, PointersTyped
<1>m. Owned /\ Taken /\ Copying /\ Swapping /\ Marked /\ Headers /\ Kept
  BY DEF Memory
<1>1. /\ Present(p) /\ lock[p] = None /\ pc[t] = "in"
      /\ UNCHANGED <<pc, op, rstate, bump, expected, status>> /\ UNCHANGED gcVars
      /\ \A u \in Threads \ {t} : op[u].ptr # p
  BY DEF Free, Present, heapVars, scopeVars
<1>2. /\ o \in Addr
      /\ \A b \in Addr : /\ obj'[b].ptr = obj[b].ptr
                         /\ obj'[b].freed <=> obj[b].freed \/ b = o
  BY <1>1, <1>t DEF Free, ObjType
<1>3. /\ meta'[p].state = "null" /\ ~meta'[p].evac
      /\ \A q \in Ptrs \ {p} : meta'[q] = meta[q]
  BY <1>t DEF Free, Null, Meta
<1>4. \A u \in Threads : \A w \in raw'[u] : w \in raw[u]
  BY <1>t DEF Free
<1>5. swap[p] = None /\ \A u \in Threads : op[u].ptr # p
  BY <1>1, NamesAssumption DEF Discipline, Locked, Used
<1>p. ~Present(p)' /\ \A q \in Ptrs \ {p} : Present(q)' <=> Present(q)
  BY <1>3 DEF Present
<1>h. \A u \in Threads, q \in Ptrs : \A b : Holds(u, q, b)' => Holds(u, q, b)
  BY <1>1, <1>4 DEF Holds
<1>g. \A u \in Threads : Taking(u)' <=> Taking(u)
  BY <1>1 DEF Taking
<1>o. /\ \A q \in Ptrs \ {p} : Present(q) => meta[q].addr # o
      /\ \A u \in Threads : Taking(u) => op[u].new # o
  BY <1>m, <1>1 DEF Owned, Taken
<1> HIDE DEF o
<1>6. Owned'
  BY <1>t, <1>m, <1>p, <1>1, <1>2, <1>3, <1>o DEF Owned, InHeap
<1>7. Taken'
  BY <1>m, <1>p, <1>h, <1>g, <1>1, <1>3 DEF Taken, InHeap, Holds
<1>8. Copying'
  <2>1. \A u \in Threads : pc[u] \in {"migrate_copy", "migrate_pub"} => op[u].ptr \in Ptrs \ {p}
    BY <1>5, AddressesTyped
  <2>2. \A u \in Threads : pc[u] = "migrate_pub" => op[u].new \in Addr /\ op[u].new # o
    BY <1>t, <1>o DEF Taking
  <2> QED
    BY <1>m, <1>1, <1>2, <1>3, <2>1, <2>2 DEF Copying
<1>9. Swapping'
  BY <1>m, <1>p, <1>1, <1>3, <1>5 DEF Swapping, gcVars
<1>10. Marked'
  BY <1>m, <1>p, <1>1, <1>3 DEF Marked, gcVars
<1>11. Headers'
  <2> SUFFICES ASSUME NEW b \in Addr, InHeap(b)',
                      rstate'[b[1]] = "from" /\ gc' \in {"wb", "free"} => b \in todo'
               PROVE  \/ obj'[b].freed
                      \/ Current(b)'
                      \/ \E u \in Threads : Taking(u)' /\ op'[u].new = b
    BY DEF Headers
  <2>1. \/ obj[b].freed
        \/ Current(b)
        \/ \E u \in Threads : Taking(u) /\ op[u].new = b
    BY <1>m, <1>1 DEF Headers, gcVars, InHeap
  <2>2. Current(b) => Current(b)' \/ obj'[b].freed
    BY <1>p, <1>2, <1>3 DEF Current, o
  <2> QED
    BY <1>1, <1>2, <1>g, <2>1, <2>2
<1>12. Kept'
  BY <1>m, <1>h, <1>1, <1>2 DEF Kept, gcVars, InHeap
<1> QED
  BY <1>6, <1>7, <1>8, <1>9, <1>10, <1>11, <1>12 DEF Memory

-----------------------------------------------------------------------------
(* Memory: the collector.                                                  *)

\* What the collector is about to visit is current, unless it is freed.
LEMMA VisitsCurrent ==
  ASSUME TypeOK, Discipline, Memory, NEW a \in todo, ~obj[a].freed
  PROVE  /\ a \in Addr /\ rstate[a[1]] = "from"
         /\ obj[a].ptr \in Ptrs /\ Present(obj[a].ptr) /\ meta[obj[a].ptr].addr = a
<1>1. a \in Addr /\ rstate[a[1]] = "from" /\ InHeap(a)
  BY AddressesTyped DEF Discipline, Rounds, InHeap
<1>2. \A t \in Threads : Taking(t) => op[t].new # a
  BY <1>1 DEF Memory, Taken
<1>3. Current(a)
  BY <1>1, <1>2 DEF Memory, Headers
<1> QED
  BY <1>1, <1>3 DEF Current

\* Marking, skipping and locking: objects stay where they are.
LEMMA VisitMemory ==
  ASSUME TypeOK, Discipline, Memory, UNCHANGED <<pc, op, raw, obj, rstate, bump, gc, status, expected>>,
         NEW a \in todo, todo' \in {todo, todo \ {a}},
         todo' # todo => \/ obj[a].freed
                         \/ gc = "mark" /\ ~obj[a].freed /\ meta'[obj[a].ptr].evac,
         \A q \in Ptrs : /\ meta'[q].state = meta[q].state /\ meta'[q].addr = meta[q].addr
                         /\ meta[q].evac => meta'[q].evac
                         /\ meta'[q].evac /\ ~meta[q].evac =>
                              gc = "mark" /\ ~obj[a].freed /\ q = obj[a].ptr,
         \A q \in Ptrs : swap'[q] # None =>
           swap[q] = swap'[q] \/ (/\ gc = "wb" /\ ~obj[a].freed /\ q = obj[a].ptr
                                  /\ meta[q].evac /\ swap'[q].addr = a /\ todo' = todo)
  PROVE  Memory'
<1>t. /\ \A q \in Ptrs : Present(q) => meta[q].addr \in Addr /\ meta[q].addr[1] \in Regions
      /\ \A u \in Threads : pc[u] \in {"migrate_copy", "migrate_pub"} => op[u].ptr \in Ptrs
  BY AddressesTyped
<1>m. Owned /\ Taken /\ Copying /\ Swapping /\ Marked /\ Headers /\ Kept
  BY DEF Memory
<1>p. \A q \in Ptrs : Present(q)' <=> Present(q)
  BY DEF Present
<1>v. ~obj[a].freed => /\ rstate[a[1]] = "from" /\ obj[a].ptr \in Ptrs /\ Present(obj[a].ptr)
                       /\ meta[obj[a].ptr].addr = a
  BY VisitsCurrent
<1>o. obj[a].freed => \A q \in Ptrs : Present(q) => meta[q].addr # a
  BY <1>m DEF Owned
<1>e. \A q \in Ptrs : meta[q].evac => Present(q)
  BY DEF Discipline, Used, Present
<1>1. Owned'
  BY <1>m, <1>p DEF Owned, InHeap
<1>2. Taken'
  BY <1>m, <1>p DEF Taken, InHeap, Holds, Taking
<1>3. Copying'
  BY <1>t, <1>m DEF Copying
<1>4. Swapping'
  <2> SUFFICES ASSUME NEW q \in Ptrs, swap'[q] # None
               PROVE  /\ gc' = "wb" /\ Present(q)' /\ meta'[q].evac
                      /\ meta'[q].addr = swap'[q].addr /\ swap'[q].addr \in todo'
    BY DEF Swapping
  <2>1. CASE swap[q] = swap'[q]
    <3>1. /\ gc = "wb" /\ Present(q) /\ meta[q].evac /\ meta[q].addr = swap[q].addr
          /\ swap[q].addr \in todo
      BY <1>m, <2>1 DEF Swapping
    <3>2. todo' # todo => meta[q].addr # a
      BY <1>o, <3>1
    <3> QED
      BY <1>p, <2>1, <3>1, <3>2
  <2>2. CASE swap[q] # swap'[q]
    BY <1>p, <1>v, <2>2
  <2> QED
    BY <2>1, <2>2
<1>5. Marked'
  <2> SUFFICES ASSUME NEW q \in Ptrs
               PROVE  /\ meta'[q].evac => /\ rstate'[meta'[q].addr[1]] = "from"
                                          /\ gc' \in {"mark", "wait", "wb"}
                      /\ Present(q)' /\ rstate'[meta'[q].addr[1]] = "from" =>
                           /\ gc' # "free"
                           /\ gc' = "mark" => meta'[q].evac \/ meta'[q].addr \in todo'
                           /\ gc' = "wait" => meta'[q].evac
                           /\ gc' = "wb" => meta'[q].evac /\ meta'[q].addr \in todo'
    BY DEF Marked
  <2>1. meta'[q].evac => /\ rstate'[meta'[q].addr[1]] = "from"
                         /\ gc' \in {"mark", "wait", "wb"}
    BY <1>m, <1>v DEF Marked
  <2>2. ASSUME Present(q), rstate[meta[q].addr[1]] = "from"
        PROVE  /\ gc # "free"
               /\ gc = "mark" => meta'[q].evac \/ meta[q].addr \in todo'
               /\ gc = "wait" => meta'[q].evac
               /\ gc = "wb" => meta'[q].evac /\ meta[q].addr \in todo'
    <3>1. /\ gc # "free"
          /\ gc = "mark" => meta[q].evac \/ meta[q].addr \in todo
          /\ gc = "wait" => meta[q].evac
          /\ gc = "wb" => meta[q].evac /\ meta[q].addr \in todo
      BY <1>m, <2>2 DEF Marked
    <3>2. ~obj[a].freed /\ meta[q].addr = a => q = obj[a].ptr
      BY <1>m, <2>2 DEF Owned
    <3>3. meta[q].addr \in todo => meta[q].addr \in todo' \/ (gc = "mark" /\ meta'[q].evac)
      BY <1>o, <2>2, <3>2
    <3> QED
      BY <3>1, <3>3
  <2> QED
    BY <1>p, <2>1, <2>2
<1>6. Headers'
  <2> SUFFICES ASSUME NEW b \in Addr, InHeap(b)',
                      rstate'[b[1]] = "from" /\ gc' \in {"wb", "free"} => b \in todo'
               PROVE  \/ obj'[b].freed
                      \/ Current(b)'
                      \/ \E u \in Threads : Taking(u)' /\ op'[u].new = b
    BY DEF Headers
  <2>1. \/ obj[b].freed
        \/ Current(b)
        \/ \E u \in Threads : Taking(u) /\ op[u].new = b
    BY <1>m DEF Headers, InHeap
  <2>2. Current(b) => Current(b)'
    BY <1>p DEF Current
  <2> QED
    BY <2>1, <2>2 DEF Taking
<1>7. Kept'
  BY <1>m DEF Kept, InHeap, Holds
<1> QED
  BY <1>1, <1>2, <1>3, <1>4, <1>5, <1>6, <1>7 DEF Memory

LEMMA MarkMemory ==
  ASSUME TypeOK, Discipline, Memory,
         SkipFreed \/ \E a \in Addr : MarkObj(a) \/ SwapOutLock(a)
  PROVE  Memory'
<1>t. meta \in [Ptrs -> MetaType] /\ swap \in [Ptrs -> SwapType \cup {None}]
  BY DEF TypeOK, PointersTyped, CollectorTyped
<1>0. UNCHANGED <<pc, op, raw, obj, rstate, bump, gc, status, expected>>
  BY DEF SkipFreed, MarkObj, SwapOutLock, threadVars, heapVars, scopeVars
<1>1. CASE SkipFreed
  <2>1. PICK a \in todo : obj[a].freed /\ todo' = todo \ {a}
    BY <1>1 DEF SkipFreed
  <2>2. UNCHANGED <<meta, swap>>
    BY <1>1 DEF SkipFreed
  <2> QED
    BY <1>0, <2>1, <2>2, VisitMemory
<1>2. ASSUME NEW a \in Addr, MarkObj(a) PROVE Memory'
  <2>1. a \in todo /\ ~obj[a].freed /\ gc = "mark" /\ todo' = todo \ {a} /\ swap' = swap
    BY <1>2 DEF MarkObj
  <2>2. obj[a].ptr \in Ptrs /\ Present(obj[a].ptr)
    BY <2>1, VisitsCurrent
  <2>3. meta' = [meta EXCEPT ![obj[a].ptr].evac = TRUE]
    BY <1>2, <2>2 DEF MarkObj, Present
  <2>4. /\ meta'[obj[a].ptr].evac
        /\ \A q \in Ptrs : /\ meta'[q].state = meta[q].state /\ meta'[q].addr = meta[q].addr
                           /\ meta[q].evac => meta'[q].evac
                           /\ meta'[q].evac /\ ~meta[q].evac => q = obj[a].ptr
    BY <1>t, <2>2, <2>3 DEF MetaType
  <2> QED
    BY <1>0, <2>1, <2>4, VisitMemory
<1>3. ASSUME NEW a \in Addr, SwapOutLock(a) PROVE Memory'
  <2>1. a \in todo /\ ~obj[a].freed /\ gc = "wb" /\ meta' = meta
    BY <1>3 DEF SwapOutLock
  <2>2. obj[a].ptr \in Ptrs /\ meta[obj[a].ptr].evac
    BY <2>1, VisitsCurrent DEF Memory, Marked
  <2>3. /\ todo' = todo
        /\ swap' = [swap EXCEPT ![obj[a].ptr] =
             [addr |-> a, hot |-> meta[obj[a].ptr].hot = 0, dirty |-> meta[obj[a].ptr].dirty]]
    BY <1>3, <2>2 DEF SwapOutLock
  <2>4. \A q \in Ptrs : swap'[q] # None =>
           swap[q] = swap'[q] \/ (q = obj[a].ptr /\ meta[q].evac /\ swap'[q].addr = a)
    BY <1>t, <2>2, <2>3
  <2> QED
    BY <1>0, <2>1, <2>3, <2>4, VisitMemory
<1> QED
  BY <1>1, <1>2, <1>3

\* The collector takes the object of p from its region: to slot a, or to far
\* memory.
LEMMA ObjectLeaves ==
  ASSUME TypeOK, Discipline, Memory, NEW p \in Ptrs, swap[p] # None,
         UNCHANGED <<pc, op, raw, gc, status, expected>>,
         todo' = todo \ {swap[p].addr}, swap' = [swap EXCEPT ![p] = None],
         \A b \in Addr : InHeap(b) => InHeap(b)' /\ obj'[b] = obj[b],
         \A b \in Addr : InHeap(b)' /\ ~InHeap(b) => meta'[p].addr = b,
         \A r \in Regions : /\ rstate'[r] = "from" <=> rstate[r] = "from"
                            /\ rstate[r] \in {"local", "used"} =>
                                 rstate'[r] \in {"local", "used"},
         \A q \in Ptrs \ {p} : meta'[q] = meta[q],
         ~meta'[p].evac,
         Present(p)' => /\ meta'[p].addr \in Addr /\ ~InHeap(meta'[p].addr)
                        /\ rstate'[(meta'[p].addr)[1]] # "from"
                        /\ InHeap(meta[p].addr)'
                        /\ obj'[meta'[p].addr].ptr = p /\ ~obj'[meta'[p].addr].freed,
         ~Present(p)' => \A b \in Addr : InHeap(b)' => InHeap(b)
  PROVE  Memory'
<1>t. /\ \A q \in Ptrs : Present(q) => meta[q].addr \in Addr /\ meta[q].addr[1] \in Regions
      /\ \A u \in Threads : Taking(u) =>
           /\ op[u].ptr \in Ptrs /\ op[u].new \in Addr /\ op[u].new[1] \in Regions
      /\ \A b \in Addr : b[1] \in Regions
      /\ swap \in [Ptrs -> SwapType \cup {None}]
  BY AddressesTyped DEF TypeOK, CollectorTyped
<1>m. Owned /\ Taken /\ Copying /\ Swapping /\ Marked /\ Headers /\ Kept
  BY DEF Memory
<1>p. \A q \in Ptrs \ {p} : Present(q)' <=> Present(q)
  BY DEF Present
<1>1. /\ gc = "wb" /\ Present(p) /\ meta[p].evac /\ meta[p].addr = swap[p].addr
      /\ swap[p].addr \in todo /\ rstate[swap[p].addr[1]] = "from"
  BY <1>m DEF Swapping, Marked
<1>2. \A q \in Ptrs \ {p} : Present(q) => meta[q].addr # swap[p].addr
  BY <1>m, <1>1 DEF Owned
<1>3. \A u \in Threads : pc[u] \in {"migrate_copy", "migrate_pub"} => op[u].ptr \in Ptrs \ {p}
  BY NamesAssumption, AddressesTyped DEF Discipline, Locked, LockPcs
<1>h. \A u \in Threads, q \in Ptrs : \A b : Holds(u, q, b)' <=> Holds(u, q, b)
  BY DEF Holds
<1>g. \A u \in Threads : Taking(u)' <=> Taking(u)
  BY DEF Taking
<1>4. Owned'
  <2>1. ASSUME NEW q \in Ptrs \ {p}, Present(q)'
        PROVE  /\ InHeap(meta[q].addr)' /\ obj'[meta'[q].addr].ptr = q
               /\ ~obj'[meta'[q].addr].freed
    <3>1. /\ Present(q) /\ meta'[q] = meta[q] /\ meta[q].addr \in Addr
          /\ InHeap(meta[q].addr) /\ obj[meta[q].addr].ptr = q /\ ~obj[meta[q].addr].freed
      BY <1>t, <1>m, <1>p, <2>1 DEF Owned
    <3> QED
      BY <3>1 DEF InHeap
  <2> QED
    BY <2>1 DEF Owned
<1>5. Taken'
  <2>1. ASSUME NEW u \in Threads, Taking(u), NEW b \in Addr, b = op[u].new
        PROVE  /\ InHeap(b)'
               /\ rstate'[b[1]] \in {"local", "used"}
               /\ \A q \in Ptrs : Present(q)' => meta'[q].addr # b
               /\ \A v \in Threads : Taking(v) /\ op[v].new = b => v = u
               /\ \A v \in Threads, q \in Ptrs : ~Holds(v, q, b)'
    <3>1. /\ InHeap(b)
          /\ rstate[b[1]] \in {"local", "used"}
          /\ \A q \in Ptrs : Present(q) => meta[q].addr # b
          /\ \A v \in Threads : Taking(v) /\ op[v].new = b => v = u
          /\ \A v \in Threads, q \in Ptrs : ~Holds(v, q, b)
      BY <1>m, <2>1 DEF Taken
    <3>2. Present(p)' => meta'[p].addr # b
      BY <3>1
    <3> QED
      BY <1>t, <1>p, <1>h, <3>1, <3>2
  <2>2. \A u \in Threads : Taking(u)' => Taking(u) /\ op'[u].new = op[u].new /\ op[u].new \in Addr
    BY <1>t, <1>g
  <2> QED
    BY <1>g, <2>1, <2>2 DEF Taken, InHeap, Holds
<1>6. Copying'
  <2>1. \A u \in Threads : pc[u] = "migrate_pub" => op[u].new \in Addr /\ InHeap(op[u].new)
    BY <1>t, <1>m DEF Taking, Taken
  <2> QED
    BY <1>m, <1>3, <2>1 DEF Copying
<1>7. Swapping'
  <2> SUFFICES ASSUME NEW q \in Ptrs, swap'[q] # None
               PROVE  /\ gc' = "wb" /\ Present(q)' /\ meta'[q].evac
                      /\ meta'[q].addr = swap'[q].addr /\ swap'[q].addr \in todo'
    BY DEF Swapping
  <2>1. q # p /\ swap'[q] = swap[q]
    BY <1>t
  <2> QED
    BY <1>m, <1>p, <1>2, <2>1 DEF Swapping
<1>8. Marked'
  <2>1. \A q \in Ptrs : meta[q].evac => Present(q)
    BY DEF Discipline, Used, Present
  <2>2. ASSUME NEW q \in Ptrs \ {p}
        PROVE  /\ meta[q].evac => /\ rstate'[meta[q].addr[1]] = "from"
                                  /\ gc' \in {"mark", "wait", "wb"}
               /\ Present(q) /\ rstate'[meta[q].addr[1]] = "from" =>
                    meta[q].evac /\ meta[q].addr \in todo'
    BY <1>t, <1>m, <1>1, <1>2, <2>1 DEF Marked
  <2> QED
    BY <1>p, <1>1, <2>2 DEF Marked
<1>9. Headers'
  <2> SUFFICES ASSUME NEW b \in Addr, InHeap(b)',
                      rstate'[b[1]] = "from" /\ gc' \in {"wb", "free"} => b \in todo'
               PROVE  \/ obj'[b].freed
                      \/ Current(b)'
                      \/ \E u \in Threads : Taking(u)' /\ op'[u].new = b
    BY DEF Headers
  <2>1. CASE ~InHeap(b)
    <3>1. Present(p)' /\ b = meta'[p].addr
      BY <2>1
    <3> QED
      BY <3>1 DEF Current
  <2>2. CASE InHeap(b)
    <3>0. b # swap[p].addr
      BY <1>1, <1>t
    <3>1. \/ obj[b].freed
          \/ Current(b)
          \/ \E u \in Threads : Taking(u) /\ op[u].new = b
      BY <1>t, <1>m, <2>2 DEF Headers
    <3>2. Current(b) => Current(b)'
      BY <1>p, <1>1, <2>2, <3>0 DEF Current
    <3> QED
      BY <1>g, <2>2, <3>1, <3>2
  <2> QED
    BY <2>1, <2>2
<1>10. Kept'
  <2> SUFFICES ASSUME NEW u \in Threads, NEW q \in Ptrs, NEW b \in Addr, Holds(u, q, b)'
               PROVE  /\ InHeap(b)'
                      /\ obj'[b].ptr = q
                      /\ rstate'[b[1]] = "from" /\ gc' \in {"wait", "wb", "free"} =>
                           status'[u] # expected'
    BY DEF Kept
  <2> QED
    BY <1>t, <1>m, <1>h DEF Kept
<1> QED
  BY <1>4, <1>5, <1>6, <1>7, <1>8, <1>9, <1>10 DEF Memory

LEMMA SwapOutMemory ==
  ASSUME TypeOK, HeapInv, Discipline, Memory, NEW p \in Ptrs, NEW c \in Cores,
         SwapOutCopy(p, c) \/ SwapOutWriteBack(p, c)
  PROVE  Memory'
<1>t. /\ meta \in [Ptrs -> MetaType] /\ obj \in [Addr -> ObjType]
      /\ \A q \in Ptrs : Present(q) => meta[q].addr \in Addr
  BY AddressesTyped DEF TypeOK, PointersTyped, HeapTyped
<1>0. /\ swap[p] # None /\ UNCHANGED <<pc, op, raw, gc, status, expected>>
      /\ todo' = todo \ {swap[p].addr} /\ swap' = [swap EXCEPT ![p] = None]
  BY DEF SwapOutCopy, SwapOutWriteBack, SwapOutEnd, threadVars, scopeVars
<1>1. /\ Present(p) /\ meta[p].addr = swap[p].addr /\ swap[p].addr \in Addr
      /\ obj[swap[p].addr].ptr = p /\ ~obj[swap[p].addr].freed
  BY <1>0, <1>t DEF Memory, Swapping, Owned
<1>2. CASE SwapOutCopy(p, c)
  <2>1. PICK a \in Addr : /\ allocate_local_object(c, a, 0)
                          /\ obj' = [obj EXCEPT ![a] = obj[swap[p].addr]]
                          /\ meta' = [meta EXCEPT ![p] = gc_copy(@, a)]
    BY <1>2 DEF SwapOutCopy
  <2>2. /\ ~InHeap(a)
        /\ \A b \in Addr : InHeap(b)' <=> InHeap(b) \/ b = a
        /\ \A r \in Regions : /\ rstate'[r] = "from" <=> rstate[r] = "from"
                              /\ rstate[r] \in {"local", "used"} =>
                                   rstate'[r] \in {"local", "used"}
        /\ a[1] \in Regions /\ rstate'[a[1]] = "local"
    BY <2>1, AllocSlot DEF Discipline
  <2>3. /\ obj'[a].ptr = p /\ ~obj'[a].freed
        /\ \A b \in Addr \ {a} : obj'[b] = obj[b]
    BY <1>1, <1>t, <2>1
  <2>4. /\ meta'[p].addr = a /\ ~meta'[p].evac
        /\ \A q \in Ptrs \ {p} : meta'[q] = meta[q]
        /\ Present(p)'
    BY <1>1, <1>t, <2>1 DEF gc_copy, MetaType, Present
  <2>5. \A b \in Addr : InHeap(b) => InHeap(b)' /\ obj'[b] = obj[b]
    BY <2>2, <2>3
  <2>6. /\ meta'[p].addr \in Addr /\ ~InHeap(meta'[p].addr)
        /\ rstate'[(meta'[p].addr)[1]] # "from"
        /\ InHeap(meta[p].addr)'
        /\ obj'[meta'[p].addr].ptr = p /\ ~obj'[meta'[p].addr].freed
    BY <2>2, <2>3, <2>4 DEF InHeap
  <2>7. \A b \in Addr : InHeap(b)' /\ ~InHeap(b) => meta'[p].addr = b
    BY <2>2, <2>4
  <2> QED
    BY <1>0, <2>2, <2>4, <2>5, <2>6, <2>7, ObjectLeaves
<1>3. CASE SwapOutWriteBack(p, c)
  <2>1. /\ obj' = obj /\ ~meta'[p].evac /\ ~Present(p)'
        /\ \A q \in Ptrs \ {p} : meta'[q] = meta[q]
    BY <1>t, <1>3 DEF SwapOutWriteBack, gc_wb, Meta, Present
  <2>2. /\ \A b \in Addr : InHeap(b)' <=> InHeap(b)
        /\ \A r \in Regions : /\ rstate'[r] = "from" <=> rstate[r] = "from"
                              /\ rstate[r] \in {"local", "used"} =>
                                   rstate'[r] \in {"local", "used"}
    <3>1. CASE UNCHANGED heapVars
      BY <3>1 DEF heapVars, InHeap
    <3>2. CASE allocate_local_object_fails(c)
      BY <3>2, AllocNoSlot DEF Discipline
    <3> QED
      BY <1>3, <3>1, <3>2 DEF SwapOutWriteBack
  <2> QED
    BY <1>0, <2>1, <2>2, ObjectLeaves
<1> QED
  BY <1>2, <1>3

\* Whoever holds an address is counted under its status.
LEMMA HoldersCounted ==
  ASSUME TypeOK, Discipline, GracePeriod, Calm, gc # "wait",
         NEW t \in Threads, NEW p \in Ptrs, NEW a, Holds(t, p, a)
  PROVE  status[t] = expected
<1>1. pc[t] \in ScopePcs
  BY DEF Holds, Discipline, Scoped, ScopePcs
<1>2. status[t] \in InScope /\ pc[t] # "entering"
  BY <1>1 DEF Discipline, Scoped, ScopePcs
<1>3. status[t] # flip_status(expected)
  BY <1>2 DEF GracePeriod, Calm, Counted
<1> QED
  BY <1>2, <1>3 DEF flip_status, InScope, TypeOK, ScopesTyped

\* The phases of a round.
LEMMA PhaseMemory ==
  ASSUME TypeOK, Discipline, GracePeriod, Calm, Memory,
         FlipExpected \/ WaitDone \/ WriteBackDone
  PROVE  Memory'
<1>t. /\ \A q \in Ptrs : Present(q) => meta[q].addr \in Addr /\ meta[q].addr[1] \in Regions
      /\ \A b \in Addr : b[1] \in Regions
  BY AddressesTyped
<1>m. Owned /\ Taken /\ Copying /\ Swapping /\ Marked /\ Headers /\ Kept
  BY DEF Memory
<1>0. UNCHANGED <<pc, op, raw, meta, obj, rstate, bump, status, swap>>
  BY DEF FlipExpected, WaitDone, WriteBackDone, threadVars, heapVars, scopeVars
<1>p. \A q \in Ptrs : Present(q)' <=> Present(q)
  BY <1>0 DEF Present
<1>e. \A q \in Ptrs : meta[q].evac => Present(q)
  BY DEF Discipline, Used, Present
<1>1. Owned' /\ Taken' /\ Copying'
  BY <1>0, <1>m, <1>p DEF Owned, Taken, Copying, InHeap, Holds, Taking
<1>h. \A u \in Threads, q \in Ptrs : \A b : Holds(u, q, b)' <=> Holds(u, q, b)
  BY <1>0 DEF Holds
<1>c. \A b \in Addr : Current(b)' <=> Current(b)
  BY <1>0, <1>p DEF Current
<1>2. CASE FlipExpected
  <2>1. gc = "mark" /\ gc' = "wait" /\ todo = {} /\ todo' = todo
        /\ expected' = flip_status(expected)
    BY <1>2 DEF FlipExpected, PhaseDone
  <2>2. Swapping'
    BY <1>0, <1>m, <2>1 DEF Swapping
  <2>3. Marked'
    BY <1>0, <1>m, <1>p, <2>1 DEF Marked
  <2>4. Headers'
    BY <1>0, <1>m, <1>c, <2>1 DEF Headers, InHeap, Taking
  <2>5. Kept'
    <3>1. \A u \in Threads, q \in Ptrs, b \in Addr : Holds(u, q, b) => status[u] # expected'
      BY <2>1, HoldersCounted DEF flip_status
    <3> QED
      BY <1>0, <1>m, <1>h, <3>1 DEF Kept, InHeap
  <2> QED
    BY <1>1, <2>2, <2>3, <2>4, <2>5 DEF Memory
<1>3. CASE WaitDone
  <2>1. gc = "wait" /\ gc' = "wb" /\ todo' = Allocated(FromRegions) /\ expected' = expected
    BY <1>3 DEF WaitDone, scopeVars
  <2>2. Swapping'
    BY <1>0, <1>m, <2>1 DEF Swapping
  <2>3. \A q \in Ptrs : Present(q) /\ rstate[meta[q].addr[1]] = "from" => meta[q].addr \in todo'
    BY <1>t, <1>m, <2>1 DEF Allocated, FromRegions, Owned, InHeap
  <2>4. Marked'
    BY <1>0, <1>m, <1>p, <2>1, <2>3 DEF Marked
  <2>5. Headers'
    BY <1>0, <1>m, <1>c, <2>1 DEF Headers, InHeap, Taking
  <2>6. Kept'
    BY <1>0, <1>m, <1>h, <2>1 DEF Kept, InHeap
  <2> QED
    BY <1>1, <2>2, <2>4, <2>5, <2>6 DEF Memory
<1>4. CASE WriteBackDone
  <2>1. gc = "wb" /\ gc' = "free" /\ todo = {} /\ todo' = todo /\ expected' = expected
    BY <1>4 DEF WriteBackDone, PhaseDone, scopeVars
  <2>2. Swapping'
    BY <1>0, <1>m, <2>1 DEF Swapping
  <2>3. \A q \in Ptrs : ~(Present(q) /\ rstate[meta[q].addr[1]] = "from")
    BY <1>m, <2>1 DEF Marked
  <2>4. Marked'
    BY <1>0, <1>m, <1>p, <1>e, <2>1, <2>3 DEF Marked
  <2>5. Headers'
    BY <1>0, <1>m, <1>c, <2>1 DEF Headers, InHeap, Taking
  <2>6. Kept'
    BY <1>0, <1>m, <1>h, <2>1 DEF Kept, InHeap
  <2> QED
    BY <1>1, <2>2, <2>4, <2>5, <2>6 DEF Memory
<1> QED
  BY <1>2, <1>3, <1>4

\* A round begins: nobody is copying anything, and nothing that is being filled
\* is picked.
LEMMA PickMemory ==
  ASSUME TypeOK, HeapInv, HeapInv', Discipline, Memory, pick_from_regions
  PROVE  Memory'
<1>t. /\ \A q \in Ptrs : Present(q) => meta[q].addr \in Addr /\ meta[q].addr[1] \in Regions
      /\ \A u \in Threads : Taking(u) => op[u].new \in Addr /\ op[u].new[1] \in Regions
      /\ \A b \in Addr : b[1] \in Regions
  BY AddressesTyped
<1>m. Owned /\ Taken /\ Copying /\ Swapping /\ Marked /\ Headers /\ Kept
  BY DEF Memory
<1>0. /\ UNCHANGED <<pc, op, raw, meta, obj, bump, status, expected, swap>>
      /\ gc = "idle" /\ gc' = "mark"
  BY DEF pick_from_regions, threadVars, scopeVars
<1>1. PICK rs \in SUBSET {r \in Regions : rstate[r] = "used" /\ refcnt[r] = 0} :
        /\ rstate' = [r \in Regions |-> IF r \in rs THEN "from" ELSE rstate[r]]
        /\ todo' = Allocated(rs)
  BY DEF pick_from_regions
<1>p. \A q \in Ptrs : Present(q)' <=> Present(q)
  BY <1>0 DEF Present
<1>e. \A q \in Ptrs : ~meta[q].evac
  BY <1>0, <1>m DEF Marked
<1>h. \A u \in Threads, q \in Ptrs : \A b : Holds(u, q, b)' <=> Holds(u, q, b)
  BY <1>0 DEF Holds
<1>c. \A b \in Addr : Current(b)' <=> Current(b)
  BY <1>0, <1>p DEF Current
<1>f. \A u \in Threads : pc[u] \notin {"migrate_copy", "migrate_pub"}
  BY <1>e, <1>m, AddressesTyped DEF Copying
<1>2. Owned'
  BY <1>0, <1>m, <1>p DEF Owned, InHeap
<1>3. Taken'
  <2>1. \A u \in Threads : Taking(u)' => Filling(u)'
    BY <1>0, <1>f DEF Taking, Filling
  <2>2. \A u \in Threads : Taking(u)' => rstate'[op'[u].new[1]] \in {"local", "used"}
    BY <2>1 DEF HeapInv, FillsKept
  <2> QED
    BY <1>0, <1>m, <1>p, <2>2 DEF Taken, InHeap, Holds, Taking
<1>4. Copying'
  BY <1>0, <1>f DEF Copying
<1>5. Swapping'
  BY <1>0, <1>m DEF Swapping
<1>6. Marked'
  <2>1. \A q \in Ptrs : Present(q) /\ rstate'[meta[q].addr[1]] = "from" => meta[q].addr \in todo'
    <3> SUFFICES ASSUME NEW q \in Ptrs, Present(q), rstate'[meta[q].addr[1]] = "from"
                 PROVE  meta[q].addr \in todo'
      OBVIOUS
    <3>1. meta[q].addr[1] \in rs
      BY <1>t, <1>0, <1>1 DEF Discipline, Rounds
    <3>2. meta[q].addr \in Addr /\ InHeap(meta[q].addr)
      BY <1>t, <1>m DEF Owned
    <3> QED
      BY <1>1, <3>1, <3>2 DEF Allocated, InHeap
  <2> QED
    BY <1>0, <1>e, <1>p, <2>1 DEF Marked
<1>7. Headers'
  BY <1>0, <1>m, <1>c DEF Headers, InHeap, Taking
<1>8. Kept'
  BY <1>0, <1>m, <1>h DEF Kept, InHeap
<1> QED
  BY <1>2, <1>3, <1>4, <1>5, <1>6, <1>7, <1>8 DEF Memory

\* A region is reused: nothing refers to it and nobody holds anything in it.
LEMMA PushMemory ==
  ASSUME TypeOK, Discipline, Discipline', GracePeriod, Calm, Memory,
         NEW r \in Regions, PushFreeRegion(r)
  PROVE  Memory'
<1>t. /\ \A q \in Ptrs : Present(q) => meta[q].addr \in Addr /\ meta[q].addr[1] \in Regions
      /\ \A u \in Threads : Taking(u) => op[u].new \in Addr /\ op[u].new[1] \in Regions
      /\ \A b \in Addr : b[1] \in Regions
      /\ bump \in [Regions -> 0..Slots] /\ obj \in [Addr -> ObjType]
      /\ rstate \in [Regions -> {"free", "local", "used", "from"}]
  BY AddressesTyped DEF TypeOK, HeapTyped
<1>b. \A b \in Addr : b[2] \in Nat /\ b[2] > 0
  BY SlotsAssumption DEF Addr
<1>m. Owned /\ Taken /\ Copying /\ Swapping /\ Marked /\ Headers /\ Kept
  BY DEF Memory
<1>0. /\ UNCHANGED <<pc, op, raw, meta, status, expected, swap, todo>>
      /\ gc = "free" /\ gc' \in {"free", "idle"} /\ rstate[r] = "from" /\ todo = {}
  BY DEF PushFreeRegion, threadVars, scopeVars, Discipline, Rounds
<1>1. /\ rstate'[r] = "free" /\ bump'[r] = 0
      /\ \A q \in Regions \ {r} : rstate'[q] = rstate[q] /\ bump'[q] = bump[q]
      /\ \A b \in Addr : b[1] # r => obj'[b] = obj[b]
  BY <1>t DEF PushFreeRegion
<1>2. \A b \in Addr : b[1] # r => (InHeap(b)' <=> InHeap(b))
  BY <1>t, <1>1 DEF InHeap
<1>p. \A q \in Ptrs : Present(q)' <=> Present(q)
  BY <1>0 DEF Present
<1>o. \A q \in Ptrs : Present(q) => meta[q].addr[1] # r
  BY <1>0, <1>m DEF Marked
<1>e. \A q \in Ptrs : ~meta[q].evac
  BY <1>0, <1>m DEF Marked
<1>f. \A u \in Threads : pc[u] \notin {"migrate_copy", "migrate_pub"}
  BY <1>e, <1>m, AddressesTyped DEF Copying
<1>h. \A u \in Threads, q \in Ptrs : \A b : Holds(u, q, b)' <=> Holds(u, q, b)
  BY <1>0 DEF Holds
<1>k. \A u \in Threads, q \in Ptrs, b \in Addr : Holds(u, q, b) => rstate[b[1]] # "from"
  <2> SUFFICES ASSUME NEW u \in Threads, NEW q \in Ptrs, NEW b \in Addr, Holds(u, q, b),
                      rstate[b[1]] = "from"
               PROVE  FALSE
    OBVIOUS
  <2>1. status[u] # expected
    BY <1>0, <1>m DEF Kept
  <2>2. status[u] = expected
    BY <1>0, HoldersCounted
  <2> QED
    BY <2>1, <2>2
<1>3. Owned'
  <2>1. ASSUME NEW q \in Ptrs, Present(q), NEW b \in Addr, b = meta[q].addr
        PROVE  InHeap(b)' /\ obj'[b].ptr = q /\ ~obj'[b].freed
    BY <1>m, <1>o, <1>1, <1>2, <2>1 DEF Owned
  <2> QED
    BY <1>0, <1>t, <1>p, <2>1 DEF Owned, InHeap
<1>4. Taken'
  <2>1. ASSUME NEW u \in Threads, Taking(u), NEW b \in Addr, b = op[u].new
        PROVE  InHeap(b)' /\ rstate'[b[1]] \in {"local", "used"}
    <3>1. InHeap(b) /\ rstate[b[1]] \in {"local", "used"}
      BY <1>m, <2>1 DEF Taken
    <3>2. b[1] \in Regions \ {r}
      BY <1>0, <1>t, <3>1
    <3> QED
      BY <1>1, <1>2, <3>1, <3>2
  <2>2. \A u \in Threads : Taking(u) =>
          InHeap(op[u].new)' /\ rstate'[op[u].new[1]] \in {"local", "used"}
    BY <1>0, <1>t, <2>1 DEF InHeap
  <2> QED
    BY <1>0, <1>m, <1>p, <2>2 DEF Taken, Holds, Taking
<1>5. Copying'
  BY <1>0, <1>f DEF Copying
<1>6. Swapping'
  BY <1>0, <1>m DEF Swapping
<1>7. Marked'
  <2>1. \A q \in Ptrs : Present(q) => rstate'[meta[q].addr[1]] # "from"
    BY <1>0, <1>t, <1>m, <1>1 DEF Marked
  <2> QED
    BY <1>0, <1>e, <1>p, <2>1 DEF Marked
<1>8. Headers'
  <2> SUFFICES ASSUME NEW b \in Addr, InHeap(b)',
                      rstate'[b[1]] = "from" /\ gc' \in {"wb", "free"} => b \in todo'
               PROVE  \/ obj'[b].freed
                      \/ Current(b)'
                      \/ \E u \in Threads : Taking(u)' /\ op'[u].new = b
    BY DEF Headers
  <2>1. b[1] # r
    BY <1>1, <1>b DEF InHeap
  <2>2. rstate[b[1]] # "from"
    <3>1. rstate'[b[1]] # "from"
      BY <1>0, <1>t DEF Discipline, Rounds
    <3> QED
      BY <1>t, <1>1, <2>1, <3>1
  <2>3. \/ obj[b].freed
        \/ Current(b)
        \/ \E u \in Threads : Taking(u) /\ op[u].new = b
    BY <1>m, <1>2, <2>1, <2>2 DEF Headers
  <2>4. Current(b) => Current(b)'
    BY <1>0, <1>1, <1>p, <2>1 DEF Current
  <2> QED
    BY <1>0, <1>1, <2>1, <2>3, <2>4 DEF Taking
<1>9. Kept'
  <2> SUFFICES ASSUME NEW u \in Threads, NEW q \in Ptrs, NEW b \in Addr, Holds(u, q, b)'
               PROVE  /\ InHeap(b)'
                      /\ obj'[b].ptr = q
                      /\ rstate'[b[1]] # "from"
    BY DEF Kept
  <2>1. Holds(u, q, b) /\ rstate[b[1]] # "from" /\ b[1] \in Regions \ {r}
    BY <1>0, <1>t, <1>h, <1>k
  <2> QED
    BY <1>m, <1>1, <1>2, <2>1 DEF Kept
<1> QED
  BY <1>3, <1>4, <1>5, <1>6, <1>7, <1>8, <1>9 DEF Memory

-----------------------------------------------------------------------------
(* The theorems about memory.                                              *)

LEMMA MemoryInit == Init => Memory
<1> SUFFICES ASSUME Init PROVE Memory
  OBVIOUS
<1>1. /\ \A p \in Ptrs : ~Present(p) /\ ~meta[p].evac
      /\ \A t \in Threads : pc[t] = "out" /\ raw[t] = {}
      /\ \A p \in Ptrs : swap[p] = None
  BY DEF Init, Present, Null, Meta
<1>2. \A a \in Addr : ~InHeap(a)
  BY SlotsAssumption DEF Init, InHeap, Addr
<1>3. \A t \in Threads : ~Taking(t) /\ \A p \in Ptrs : \A a : ~Holds(t, p, a)
  BY <1>1 DEF Taking, Holds
<1> QED
  BY <1>1, <1>2, <1>3 DEF Memory, Owned, Taken, Copying, Swapping, Marked, Headers, Kept

LEMMA MemoryStep ==
  ASSUME TypeOK, HeapInv, HeapInv', Discipline, Discipline', GracePeriod, MemoryInv, [Next]_vars
  PROVE  MemoryInv'
<1> SUFFICES ASSUME Calm' PROVE Memory'
  BY DEF MemoryInv
<1>1. ASSUME NEW t \in Threads, Begin(t) \/ Finish(t) PROVE Memory'
  <2>t. pc \in [Threads -> PcType] /\ op \in [Threads -> OpType]
    BY DEF TypeOK, ScopesTyped, OperandsTyped
  <2>0. races \subseteq races'
    BY <1>1, ThreadFrame
  <2>c. Memory
    BY <2>0 DEF MemoryInv, Calm
  <2>1. CASE \/ EnterSnapshot(t) \/ EnterCount(t) \/ Exit(t) \/ Write(t)
             \/ SwapInLock(t) \/ MigrateSnap(t) \/ MigrateCheck(t) \/ MigrateLock(t)
             \/ FlushRetry(t) \/ FlushLock(t) \/ FlushWrite(t)
             \/ \E p \in Ptrs : FlushStart(t, p)
    BY <2>c, <2>1, QuietMemory
  <2>2. CASE DerefBits(t) \/ FlushClean(t)
    BY <2>c, <2>2, BitsMemory
  <2>3. ASSUME NEW p \in Ptrs, NEW mut \in BOOLEAN, DerefStart(t, p, mut) PROVE Memory'
    <3>1. ~Taking(t) /\ pc[t] # "bits"
      BY <2>3 DEF DerefStart, Taking
    <3> QED
      BY <1>1, <2>c, <2>3, <3>1, DerefMemory DEF DerefStart, Discipline
  <2>4. CASE DerefRetry(t)
    <3>1. ~Taking(t) /\ pc[t] # "bits" /\ op[t].ptr \in Ptrs /\ op[t].mut \in BOOLEAN
      BY <2>4, <2>t DEF DerefRetry, Taking, TypeOK, OperandsTyped, OpType
    <3> QED
      BY <1>1, <2>c, <2>4, <3>1, DerefMemory DEF DerefRetry, Discipline
  <2>5. CASE AllocInit(t) \/ SwapInRead(t)
    BY <2>c, <2>5, PublishMemory
  <2>6. CASE MigratePublish(t)
    BY <2>c, <2>6, MigrateMemory
  <2>7. ASSUME NEW p \in Ptrs, Free(t, p) PROVE Memory'
    BY <2>c, <2>7, FreeMemory
  <2>8. ASSUME NEW p \in Ptrs, NEW c \in Cores, AllocLocal(t, p, c) PROVE Memory'
    <3>1. CASE allocate_local_object_fails(c) /\ UNCHANGED <<op, pc>>
      BY <2>c, <2>8, <3>1, FailMemory DEF AllocLocal
    <3>2. ASSUME NEW a \in Addr, allocate_local_object(c, a, 1),
                 op' = [op EXCEPT ![t] = [Idle EXCEPT !.ptr = p, !.new = a]],
                 pc' = [pc EXCEPT ![t] = "alloc"]
          PROVE  Memory'
      <4>1. pc'[t] = "alloc" /\ op'[t].new = a
        BY <2>t, <3>2 DEF Idle
      <4> QED
        BY <2>c, <2>8, <3>2, <4>1, TakeMemory
    <3> QED
      BY <2>8, <3>1, <3>2 DEF AllocLocal
  <2>9. ASSUME NEW c \in Cores, SwapInAlloc(t, c) PROVE Memory'
    <3>1. CASE allocate_local_object_fails(c) /\ UNCHANGED <<op, pc>>
      BY <2>c, <2>9, <3>1, FailMemory DEF SwapInAlloc
    <3>2. ASSUME NEW a \in Addr, allocate_local_object(c, a, 1),
                 op' = [op EXCEPT ![t].new = a], pc' = [pc EXCEPT ![t] = "swap_read"]
          PROVE  Memory'
      <4>1. pc'[t] = "swap_read" /\ op'[t].new = a
        BY <2>t, <3>2 DEF OpType
      <4> QED
        BY <2>c, <2>9, <3>2, <4>1, TakeMemory
    <3> QED
      BY <2>9, <3>1, <3>2 DEF SwapInAlloc
  <2>10. ASSUME NEW c \in Cores, MigrateCopy(t, c) PROVE Memory'
    <3>1. CASE allocate_local_object_fails(c) /\ Retry(t) /\ obj' = obj
      <4>1. pc'[t] = "deref"
        BY <2>t, <3>1 DEF Retry
      <4> QED
        BY <2>c, <2>10, <3>1, <4>1, FailMemory
    <3>2. ASSUME NEW a \in Addr, allocate_local_object(c, a, 0),
                 obj' = [obj EXCEPT ![a] = obj[op[t].addr]], op' = [op EXCEPT ![t].new = a],
                 pc' = [pc EXCEPT ![t] = "migrate_pub"],
                 op[t].addr # meta[op[t].ptr].addr => "stale_migrate" \in races'
          PROVE  Memory'
      <4>1. op[t].addr = meta[op[t].ptr].addr
        BY <3>2 DEF Calm
      <4> QED
        BY <2>c, <2>10, <3>2, <4>1, CopyMemory
    <3> QED
      BY <2>10, <3>1, <3>2 DEF MigrateCopy
  <2> QED
    BY <1>1, <2>1, <2>2, <2>3, <2>4, <2>5, <2>6, <2>7, <2>8, <2>9, <2>10 DEF Begin, Finish
<1>2. CASE Collector
  <2>c. Calm /\ Memory
    BY <1>2, CollectorFrame DEF MemoryInv, Calm
  <2>1. CASE SkipFreed \/ \E a \in Addr : MarkObj(a) \/ SwapOutLock(a)
    BY <2>c, <2>1, MarkMemory
  <2>2. ASSUME NEW p \in Ptrs, NEW c \in Cores, SwapOutCopy(p, c) \/ SwapOutWriteBack(p, c)
        PROVE  Memory'
    BY <2>c, <2>2, SwapOutMemory
  <2>3. CASE FlipExpected \/ WaitDone \/ WriteBackDone
    BY <2>c, <2>3, PhaseMemory
  <2>4. CASE pick_from_regions
    BY <2>c, <2>4, PickMemory
  <2>5. ASSUME NEW r \in Regions, PushFreeRegion(r) PROVE Memory'
    BY <2>c, <2>5, PushMemory
  <2> QED
    BY <1>2, <2>1, <2>2, <2>3, <2>4, <2>5 DEF Collector
<1>3. CASE UNCHANGED vars
  <2>c. Memory
    BY <1>3 DEF MemoryInv, Calm, vars
  <2>1. UNCHANGED <<pc, op, raw, status, expected, meta, obj, rstate, bump, gc, todo, swap>>
    BY <1>3 DEF vars, threadVars, scopeVars, heapVars, gcVars
  <2> QED
    BY <2>c, <2>1 DEF Memory, Owned, Taken, Copying, Swapping, Marked, Headers, Kept, InHeap,
      Present, Current, Taking, Holds
<1> QED
  BY <1>1, <1>2, <1>3 DEF Next

\* The invariant gives the two properties.
LEMMA MemoryUse ==
  ASSUME TypeOK, Discipline, MemoryInv
  PROVE  RawIsOwned /\ ReclaimedIsDead
<1>b. \A b \in Addr : b[1] \in Regions /\ b[2] \in Nat /\ b[2] > 0
  BY SlotsAssumption DEF Addr
<1>1. \A b \in Addr : InHeap(b) => rstate[b[1]] # "free"
  BY <1>b DEF InHeap, Discipline, Rounds
<1>2. RawIsOwned
  <2> SUFFICES ASSUME Calm, NEW t \in Threads, NEW w \in raw[t]
               PROVE  rstate[w.addr[1]] # "free" /\ obj[w.addr].ptr = w.ptr
    BY DEF RawIsOwned, Calm
  <2>1. w.ptr \in Ptrs /\ w.addr \in Addr
    BY DEF TypeOK, OperandsTyped, RawType
  <2>2. Holds(t, w.ptr, w.addr)
    BY DEF Holds
  <2> QED
    BY <1>1, <2>1, <2>2 DEF MemoryInv, Memory, Kept
<1>3. ReclaimedIsDead
  <2> SUFFICES ASSUME Calm, NEW p \in Ptrs, Present(p)
               PROVE  /\ rstate[meta[p].addr[1]] # "free"
                      /\ gc = "free" => rstate[meta[p].addr[1]] # "from"
    BY DEF ReclaimedIsDead, Calm, Present
  <2>1. meta[p].addr \in Addr /\ InHeap(meta[p].addr)
    BY AddressesTyped DEF MemoryInv, Memory, Owned
  <2> QED
    BY <1>1, <2>1 DEF MemoryInv, Memory, Marked
<1> QED
  BY <1>2, <1>3

\* Everything the proofs above rest on.
SafetyInv == TypeOK /\ HeapInv /\ Discipline /\ GracePeriod /\ MemoryInv

LEMMA SafetyInit == Init => SafetyInv
<1>1. Init => GracePeriod
  BY DEF Init, GracePeriod, Counted, flip_status
<1> QED
  BY <1>1, TypeInit, HeapInit, DisciplineInit, MemoryInit DEF SafetyInv, MemoryInv

LEMMA SafetyStep == SafetyInv /\ [Next]_vars => SafetyInv'
BY TypeStep, HeapStep, DisciplineStep, GraceStep, MemoryStep DEF SafetyInv

\* As long as no race but the copying of an object in use has happened, a raw
\* pointer refers to memory of its own object until its scope ends, whatever
\* the collector and the other mutators do in the meantime.
THEOREM RawIsOwnedHolds == Spec => []RawIsOwned
<1>1. SafetyInv => RawIsOwned
  BY MemoryUse DEF SafetyInv
<1> QED
  BY <1>1, SafetyInit, SafetyStep, PTL DEF Spec

\* As long as no race but the copying of an object in use has happened, no
\* region is reused while a pointer still refers to an object in it.
THEOREM ReclaimedIsDeadHolds == Spec => []ReclaimedIsDead
<1>1. SafetyInv => ReclaimedIsDead
  BY MemoryUse DEF SafetyInv
<1> QED
  BY <1>1, SafetyInit, SafetyStep, PTL DEF Spec

-----------------------------------------------------------------------------
(* What holds of the writes to pointer p as long as no race has happened.  *)

\* The copy a dereference would reach has every write.
Fresh(p) ==
  /\ Present(p) => obj[meta[p].addr].fresh
  /\ meta[p].state = "absent" => remote[p]

\* A clean object has its writes in far memory, too.
Clean(p) == Present(p) /\ ~meta[p].dirty => remote[p]

\* What a thread holds is where the pointer is, and dirty if it may be written.
HeldCurrent(p) ==
  \A t \in Threads :
    /\ \A a \in Addr : Holds(t, p, a) => Present(p) /\ meta[p].addr = a
    /\ \A w \in raw[t] : w.ptr = p /\ w.mut => meta[p].dirty

\* Who copies an object has it to himself and has every write.
CopyAlone(p) ==
  /\ \A t \in Threads : pc[t] = "migrate_pub" /\ op[t].ptr = p =>
       /\ obj[op[t].new].fresh
       /\ \A u \in Threads, a \in Addr : ~Holds(u, p, a)
  /\ swap[p] # None => swap[p].dirty = meta[p].dirty

\* What is flushed is dirty until clear_dirty.
Flushing(p) ==
  \A t \in Threads : op[t].ptr = p =>
    /\ pc[t] = "flush_lock" => op[t].snap.state = "present" /\ op[t].snap.dirty
    /\ pc[t] \in {"flush_write", "flush_clean"} => Present(p) /\ meta[p].dirty

Writes(p) == Fresh(p) /\ Clean(p) /\ HeldCurrent(p) /\ CopyAlone(p) /\ Flushing(p)
WritesInv == races = {} => \A p \in Ptrs : Writes(p)

\* The step leaves the writes to p alone.
WritePcs == {"migrate_pub", "flush_lock", "flush_write", "flush_clean"}
Untouched(p) ==
  /\ meta'[p].state = meta[p].state
  /\ meta'[p].addr = meta[p].addr
  /\ meta'[p].dirty = meta[p].dirty
  /\ remote'[p] = remote[p]
  /\ swap'[p] = swap[p]
  /\ Present(p) => obj'[meta[p].addr].fresh = obj[meta[p].addr].fresh
  /\ \A t \in Threads :
       /\ \A w \in raw'[t] : w.ptr = p => w \in raw[t]
       /\ pc'[t] = "bits" /\ op'[t].ptr = p => pc[t] = "bits" /\ op[t] = op'[t]
       /\ pc'[t] \in WritePcs /\ op'[t].ptr = p =>
            /\ pc[t] = pc'[t] /\ op[t] = op'[t]
            /\ pc[t] = "migrate_pub" => obj'[op[t].new].fresh = obj[op[t].new].fresh

LEMMA WritesKept ==
  ASSUME NEW p \in Ptrs, Writes(p), Untouched(p)
  PROVE  Writes(p)'
<1>h. \A t \in Threads : \A a : Holds(t, p, a)' => Holds(t, p, a)
  BY DEF Holds, Untouched
<1>p. Present(p)' <=> Present(p)
  BY DEF Present, Untouched
<1>1. Fresh(p)' /\ Clean(p)'
  BY <1>p DEF Writes, Fresh, Clean, Untouched, Present
<1>2. HeldCurrent(p)'
  BY <1>h, <1>p DEF Writes, HeldCurrent, Untouched
<1>3. CopyAlone(p)'
  <2>1. ASSUME NEW t \in Threads, pc'[t] = "migrate_pub", op'[t].ptr = p
        PROVE  /\ obj'[op'[t].new].fresh
               /\ \A u \in Threads, a \in Addr : ~Holds(u, p, a)'
    BY <1>h, <2>1 DEF Writes, CopyAlone, Untouched, WritePcs
  <2>2. swap'[p] # None => swap'[p].dirty = meta'[p].dirty
    BY DEF Writes, CopyAlone, Untouched
  <2> QED
    BY <2>1, <2>2 DEF CopyAlone
<1>4. Flushing(p)'
  BY <1>p DEF Writes, Flushing, Untouched, WritePcs
<1> QED
  BY <1>1, <1>2, <1>3, <1>4 DEF Writes

\* Nobody holds what the collector moves, and who holds it sees it unlocked.
LEMMA SwapAlone ==
  ASSUME TypeOK, Discipline, GracePeriod, races = {}, Memory, NEW p \in Ptrs, Writes(p),
         swap[p] # None, NEW t \in Threads, NEW a \in Addr
  PROVE  ~Holds(t, p, a)
<1> SUFFICES ASSUME Holds(t, p, a) PROVE FALSE
  OBVIOUS
<1>1. gc = "wb" /\ rstate[a[1]] = "from"
  <2>1. Present(p) /\ a = meta[p].addr
    BY DEF Writes, HeldCurrent
  <2> QED
    BY <2>1, AddressesTyped DEF Memory, Swapping, Marked
<1>2. status[t] # expected
  BY <1>1 DEF Memory, Kept
<1>3. status[t] = expected
  BY <1>1, HoldersCounted DEF Calm
<1> QED
  BY <1>2, <1>3

\* A step of thread t leaves a pointer it is not about alone.
LEMMA OthersUntouched ==
  ASSUME TypeOK, Discipline, Memory, NEW t \in Threads, Begin(t) \/ Finish(t),
         NEW q \in Ptrs,
         /\ meta'[q].state = meta[q].state
         /\ meta'[q].addr = meta[q].addr
         /\ meta'[q].dirty = meta[q].dirty,
         remote'[q] = remote[q],
         \A w \in raw'[t] : w.ptr = q => w \in raw[t],
         pc'[t] \in WritePcs \cup {"bits"} => op'[t].ptr # q,
         \A a \in Addr : InHeap(a) => \/ obj'[a].fresh = obj[a].fresh
                                      \/ obj[a].ptr # q
                                      \/ Taking(t) /\ a = op[t].new
  PROVE  Untouched(q)
<1>1. /\ \A u \in Threads \ {t} : pc'[u] = pc[u] /\ op'[u] = op[u] /\ raw'[u] = raw[u]
      /\ swap' = swap
  BY ThreadFrame DEF gcVars
<1>2. Present(q) => obj'[meta[q].addr].fresh = obj[meta[q].addr].fresh
  <2>1. Present(q) => /\ meta[q].addr \in Addr /\ InHeap(meta[q].addr)
                      /\ obj[meta[q].addr].ptr = q
                      /\ ~(Taking(t) /\ meta[q].addr = op[t].new)
    BY AddressesTyped DEF Memory, Owned, Taken
  <2> QED
    BY <2>1
<1>3. \A u \in Threads \ {t} : pc[u] = "migrate_pub" /\ op[u].ptr = q =>
        obj'[op[u].new].fresh = obj[op[u].new].fresh
  <2>1. \A u \in Threads \ {t} : pc[u] = "migrate_pub" =>
          /\ op[u].new \in Addr /\ InHeap(op[u].new) /\ obj[op[u].new].ptr = op[u].ptr
          /\ ~(Taking(t) /\ op[u].new = op[t].new)
    BY AddressesTyped DEF Memory, Taken, Taking, Copying
  <2> QED
    BY <2>1
<1> QED
  BY <1>1, <1>2, <1>3 DEF Untouched, WritePcs

\* Steps of a mutator that touch no pointer.
LEMMA QuietWrites ==
  ASSUME TypeOK, Discipline, Memory, \A p \in Ptrs : Writes(p), NEW t \in Threads,
         \/ EnterSnapshot(t) \/ EnterCount(t) \/ Exit(t)
         \/ SwapInLock(t) \/ MigrateSnap(t) \/ MigrateCheck(t) \/ MigrateLock(t)
         \/ \E c \in Cores : \/ SwapInAlloc(t, c)
                             \/ \E p \in Ptrs : AllocLocal(t, p, c)
                             \/ MigrateCopy(t, c) /\ Retry(t) /\ obj' = obj
  PROVE  \A p \in Ptrs : Writes(p)'
<1>t. /\ pc \in [Threads -> PcType] /\ raw \in [Threads -> SUBSET RawType]
  BY DEF TypeOK, ScopesTyped, OperandsTyped
<1>0. Begin(t) \/ Finish(t)
  BY DEF Begin, Finish
<1>1. UNCHANGED <<meta, obj, remote>>
  BY DEF EnterSnapshot, EnterCount, Exit, SwapInLock, MigrateSnap, MigrateCheck, MigrateLock,
    SwapInAlloc, AllocLocal, MigrateCopy
<1>2. raw'[t] \subseteq raw[t]
  BY <1>t DEF EnterSnapshot, EnterCount, Exit, SwapInLock, MigrateSnap, MigrateCheck, MigrateLock,
    SwapInAlloc, AllocLocal, MigrateCopy
<1>3. pc'[t] \notin WritePcs \cup {"bits"}
  <2>1. CASE Retry(t)
    BY <2>1, <1>t DEF Retry, WritePcs
  <2>2. CASE ~Retry(t)
    BY <2>2, <1>t DEF EnterSnapshot, EnterCount, Exit, SwapInLock, MigrateSnap, MigrateCheck, MigrateLock,
      SwapInAlloc, AllocLocal, WritePcs
  <2> QED
    BY <2>1, <2>2
<1>4. \A p \in Ptrs : Untouched(p)
  BY <1>0, <1>1, <1>2, <1>3, OthersUntouched
<1> QED
  BY <1>4, WritesKept

\* Steps of the collector that touch no pointer.
LEMMA CollectorWrites ==
  ASSUME TypeOK, Discipline, GracePeriod, Calm, Memory, \A p \in Ptrs : Writes(p),
         \/ pick_from_regions \/ SkipFreed \/ FlipExpected \/ WaitDone \/ WriteBackDone
         \/ \E a \in Addr : MarkObj(a)
         \/ \E r \in Regions : PushFreeRegion(r)
  PROVE  \A p \in Ptrs : Writes(p)'
<1>t. /\ meta \in [Ptrs -> MetaType] /\ obj \in [Addr -> ObjType]
  BY DEF TypeOK, PointersTyped, HeapTyped
<1>1. UNCHANGED <<pc, op, raw, remote, swap>>
  BY DEF pick_from_regions, SkipFreed, FlipExpected, WaitDone, WriteBackDone, MarkObj,
    PushFreeRegion, threadVars
<1>2. \A p \in Ptrs : /\ meta'[p].state = meta[p].state
                      /\ meta'[p].addr = meta[p].addr
                      /\ meta'[p].dirty = meta[p].dirty
  <2>1. ASSUME NEW a \in Addr, MarkObj(a)
        PROVE \A p \in Ptrs : /\ meta'[p].state = meta[p].state
                              /\ meta'[p].addr = meta[p].addr
                              /\ meta'[p].dirty = meta[p].dirty
    BY <1>t, <2>1 DEF MarkObj, MetaType
  <2> QED
    BY <2>1 DEF pick_from_regions, SkipFreed, FlipExpected, WaitDone, WriteBackDone,
      PushFreeRegion
<1>3. /\ \A p \in Ptrs : Present(p) => obj'[meta[p].addr].fresh = obj[meta[p].addr].fresh
      /\ \A t \in Threads : pc[t] = "migrate_pub" => obj'[op[t].new].fresh = obj[op[t].new].fresh
  <2>1. ASSUME NEW r \in Regions, PushFreeRegion(r)
        PROVE  /\ \A p \in Ptrs : Present(p) => obj'[meta[p].addr].fresh = obj[meta[p].addr].fresh
               /\ \A t \in Threads : pc[t] = "migrate_pub" => obj'[op[t].new].fresh = obj[op[t].new].fresh
    <3>1. /\ gc = "free" /\ rstate[r] = "from"
          /\ \A a \in Addr : a[1] # r => obj'[a] = obj[a]
      BY <2>1 DEF PushFreeRegion
    <3>2. \A p \in Ptrs : Present(p) => meta[p].addr \in Addr /\ meta[p].addr[1] # r
      BY <3>1, AddressesTyped DEF Memory, Marked
    <3>3. \A t \in Threads : pc[t] = "migrate_pub" => op[t].new \in Addr /\ op[t].new[1] # r
      BY <3>1, AddressesTyped DEF Memory, Taken, Taking
    <3> QED
      BY <3>1, <3>2, <3>3
  <2> QED
    BY <2>1 DEF pick_from_regions, SkipFreed, FlipExpected, WaitDone, WriteBackDone, MarkObj
<1>4. \A p \in Ptrs : Untouched(p)
  BY <1>1, <1>2, <1>3 DEF Untouched
<1> QED
  BY <1>4, WritesKept

\* _deref hands out an object that nobody is moving.
LEMMA DerefWrites ==
  ASSUME TypeOK, Discipline, Memory, \A p \in Ptrs : Writes(p), NEW t \in Threads,
         Begin(t) \/ Finish(t), ~Taking(t),
         NEW p \in Ptrs, NEW mut \in BOOLEAN, _deref(t, p, mut), pc[t] # "bits"
  PROVE  \A q \in Ptrs : Writes(q)'
<1>t. /\ pc \in [Threads -> PcType] /\ op \in [Threads -> OpType]
      /\ raw \in [Threads -> SUBSET RawType]
  BY DEF TypeOK, ScopesTyped, OperandsTyped
<1>0. /\ \A u \in Threads \ {t} : pc'[u] = pc[u] /\ op'[u] = op[u] /\ raw'[u] = raw[u]
      /\ swap' = swap
  BY ThreadFrame DEF gcVars
<1>1. UNCHANGED <<meta, obj, remote>>
  BY DEF _deref
<1>2. pc'[t] \in {"in", "swap_in", "migrate", "bits"}
  BY <1>t DEF _deref, Return
<1>3. \A w \in raw'[t] : \/ w \in raw[t]
                         \/ /\ Present(p) /\ ~meta[p].evac /\ w.ptr = p /\ w.addr = meta[p].addr
                            /\ w.mut => mut \/ \E v \in raw[t] : v.ptr = p /\ v.mut
                            /\ mut => meta[p].dirty
  BY <1>t DEF _deref, Return, Present
<1>4. pc'[t] = "bits" => /\ Present(p) /\ ~meta[p].evac
                         /\ op'[t].ptr = p /\ op'[t].addr = meta[p].addr
  BY <1>t DEF _deref, Return, Present, Idle
<1>5. ASSUME NEW q \in Ptrs, q # p PROVE Writes(q)'
  <2>1. /\ \A w \in raw'[t] : w.ptr = q => w \in raw[t]
        /\ pc'[t] \in WritePcs \cup {"bits"} => op'[t].ptr # q
    BY <1>2, <1>3, <1>4, <1>5 DEF WritePcs
  <2>2. Untouched(q)
    BY <1>1, <2>1, OthersUntouched
  <2> QED
    BY <2>2, WritesKept
<1>6. Writes(p)'
  <2>1. Present(p)' <=> Present(p)
    BY <1>1 DEF Present
  <2>2. \A u \in Threads, a \in Addr : Holds(u, p, a)' =>
          Holds(u, p, a) \/ (Present(p) /\ ~meta[p].evac /\ a = meta[p].addr)
    <3>1. \A u \in Threads \ {t}, a \in Addr : Holds(u, p, a)' => Holds(u, p, a)
      BY <1>0 DEF Holds
    <3>2. \A a \in Addr : Holds(t, p, a)' =>
            Holds(t, p, a) \/ (Present(p) /\ ~meta[p].evac /\ a = meta[p].addr)
      BY <1>3, <1>4 DEF Holds
    <3> QED
      BY <3>1, <3>2
  <2>3. Fresh(p)' /\ Clean(p)'
    BY <1>1, <2>1 DEF Writes, Fresh, Clean
  <2>4. HeldCurrent(p)'
    <3>1. \A u \in Threads : \A w \in raw'[u] : w.ptr = p /\ w.mut => meta[p].dirty
      BY <1>0, <1>3 DEF Writes, HeldCurrent
    <3> QED
      BY <1>1, <2>1, <2>2, <3>1 DEF Writes, HeldCurrent
  <2>5. CopyAlone(p)'
    <3>1. \A u \in Threads : pc[u] = "migrate_pub" /\ op[u].ptr = p => meta[p].evac
      BY DEF Memory, Copying
    <3>2. \A u \in Threads : pc'[u] = "migrate_pub" => pc[u] = "migrate_pub" /\ op'[u] = op[u]
      BY <1>0, <1>2
    <3> QED
      BY <1>0, <1>1, <2>2, <3>1, <3>2 DEF Writes, CopyAlone
  <2>6. Flushing(p)'
    BY <1>0, <1>1, <1>2, <2>1 DEF Writes, Flushing
  <2> QED
    BY <2>3, <2>4, <2>5, <2>6 DEF Writes
<1> QED
  BY <1>5, <1>6

\* DerefBits sets the dirty bit before the address is handed out.
LEMMA BitsWrites ==
  ASSUME TypeOK, Discipline, GracePeriod, races = {}, races' = {}, Memory,
         \A p \in Ptrs : Writes(p), NEW t \in Threads, DerefBits(t)
  PROVE  \A p \in Ptrs : Writes(p)'
<1>t. /\ pc \in [Threads -> PcType] /\ op \in [Threads -> OpType]
      /\ raw \in [Threads -> SUBSET RawType] /\ meta \in [Ptrs -> MetaType]
  BY DEF TypeOK, ScopesTyped, OperandsTyped, PointersTyped
<1>f. Begin(t) \/ Finish(t)
  BY DEF Finish
<1>0. /\ \A u \in Threads \ {t} : pc'[u] = pc[u] /\ op'[u] = op[u] /\ raw'[u] = raw[u]
      /\ swap' = swap
  BY <1>f, ThreadFrame DEF gcVars
<1>p. PICK p \in Ptrs, b \in Addr, mut \in BOOLEAN :
        p = op[t].ptr /\ b = op[t].addr /\ mut = op[t].mut
  BY <1>t DEF DerefBits, TypeOK, OperandsTyped, OpType
<1>1. /\ pc[t] = "bits" /\ pc'[t] = "in" /\ UNCHANGED <<obj, remote>>
  BY <1>t DEF DerefBits, Return
<1>h. Holds(t, p, b)
  BY <1>1, <1>p DEF Holds
<1>2. Present(p) /\ meta[p].addr = b /\ swap[p] = None
  BY <1>h, SwapAlone DEF Writes, HeldCurrent
<1>3. \A q \in Ptrs : /\ meta'[q].state = meta[q].state
                      /\ meta'[q].addr = meta[q].addr
                      /\ meta'[q].dirty = (meta[q].dirty \/ (q = p /\ mut))
  BY <1>t, <1>p, <1>2 DEF DerefBits, MetaType, OpType, Present
<1>4. \A w \in raw'[t] : \/ w \in raw[t]
                         \/ /\ w.ptr = p /\ w.addr = b
                            /\ w.mut => mut \/ \E v \in raw[t] : v.ptr = p /\ v.mut
  <2>1. Return(t, p, mut, b)
    BY <1>p DEF DerefBits
  <2> QED
    BY <1>t, <2>1 DEF Return
<1>5. ASSUME NEW q \in Ptrs, q # p PROVE Writes(q)'
  <2>1. /\ \A w \in raw'[t] : w.ptr = q => w \in raw[t]
        /\ pc'[t] \notin WritePcs \cup {"bits"}
        /\ meta'[q].dirty = meta[q].dirty
    BY <1>t, <1>1, <1>3, <1>4, <1>5 DEF WritePcs, MetaType
  <2>2. Untouched(q)
    BY <1>f, <1>1, <1>3, <2>1, OthersUntouched
  <2> QED
    BY <2>2, WritesKept
<1>6. Writes(p)'
  <2>1. Present(p)' /\ Present(p)
    BY <1>2, <1>3 DEF Present
  <2>2. \A u \in Threads, a \in Addr : Holds(u, p, a)' => Holds(u, p, a)
    <3>1. \A u \in Threads \ {t}, a \in Addr : Holds(u, p, a)' => Holds(u, p, a)
      BY <1>0 DEF Holds
    <3>2. \A a \in Addr : Holds(t, p, a)' => Holds(t, p, a)
      BY <1>1, <1>4, <1>p DEF Holds
    <3> QED
      BY <3>1, <3>2
  <2>3. Fresh(p)' /\ Clean(p)'
    BY <1>1, <1>3, <2>1 DEF Writes, Fresh, Clean, Present
  <2>4. HeldCurrent(p)'
    <3>1. \A u \in Threads : \A w \in raw'[u] : w.ptr = p /\ w.mut => meta'[p].dirty
      BY <1>0, <1>3, <1>4 DEF Writes, HeldCurrent
    <3> QED
      BY <1>3, <2>1, <2>2, <3>1 DEF Writes, HeldCurrent
  <2>5. CopyAlone(p)'
    <3>1. \A u \in Threads : pc'[u] = "migrate_pub" => pc[u] = "migrate_pub" /\ op'[u] = op[u]
      BY <1>0, <1>1
    <3> QED
      BY <1>0, <1>1, <1>2, <2>2, <3>1 DEF Writes, CopyAlone
  <2>6. Flushing(p)'
    <3>1. meta[p].dirty => meta'[p].dirty
      BY <1>3
    <3> QED
      BY <1>0, <1>1, <2>1, <3>1 DEF Writes, Flushing
  <2> QED
    BY <2>3, <2>4, <2>5, <2>6 DEF Writes
<1> QED
  BY <1>5, <1>6

\* A write goes to the copy the pointer refers to, and no other is being made.
LEMMA WriteWrites ==
  ASSUME TypeOK, Discipline, Memory, \A p \in Ptrs : Writes(p), NEW t \in Threads, Write(t)
  PROVE  \A p \in Ptrs : Writes(p)'
<1>t. /\ obj \in [Addr -> ObjType] /\ remote \in [Ptrs -> BOOLEAN]
      /\ raw \in [Threads -> SUBSET RawType]
  BY DEF TypeOK, HeapTyped, PointersTyped, OperandsTyped
<1>f. Begin(t) \/ Finish(t)
  BY DEF Begin
<1>0. pc[t] = "in" /\ UNCHANGED <<pc, op, raw, meta, swap>>
  BY DEF Write, threadVars, gcVars
<1>1. PICK w \in raw[t] :
        /\ w.mut
        /\ obj' = [a \in Addr |-> IF obj[a].ptr = w.ptr /\ a # w.addr
                                THEN [obj[a] EXCEPT !.fresh = FALSE] ELSE obj[a]]
        /\ remote' = [remote EXCEPT ![w.ptr] = FALSE]
  BY DEF Write
<1>2. w.ptr \in Ptrs /\ w.addr \in Addr /\ Holds(t, w.ptr, w.addr)
  BY <1>t DEF RawType, Holds
<1>3. Present(w.ptr) /\ meta[w.ptr].addr = w.addr /\ meta[w.ptr].dirty
  BY <1>1, <1>2 DEF Writes, HeldCurrent
<1>4. \A a \in Addr : obj[a].ptr # w.ptr \/ a = w.addr => obj'[a] = obj[a]
  BY <1>1
<1>5. ASSUME NEW q \in Ptrs, q # w.ptr PROVE Writes(q)'
  <2>1. /\ remote'[q] = remote[q]
        /\ pc'[t] \notin WritePcs \cup {"bits"}
        /\ \A a \in Addr : obj'[a].fresh = obj[a].fresh \/ obj[a].ptr # q
    BY <1>t, <1>0, <1>1, <1>4, <1>5 DEF WritePcs
  <2>2. Untouched(q)
    BY <1>f, <1>0, <2>1, OthersUntouched
  <2> QED
    BY <2>2, WritesKept
<1>6. Writes(w.ptr)'
  <2>1. PICK p \in Ptrs : p = w.ptr
    BY <1>2
  <2>2. /\ \A u \in Threads : \A a : Holds(u, p, a)' <=> Holds(u, p, a)
        /\ Present(p)' <=> Present(p)
    BY <1>0 DEF Holds, Present
  <2>3. Fresh(p)' /\ Clean(p)'
    BY <1>0, <1>2, <1>3, <1>4, <2>1, <2>2 DEF Writes, Fresh, Clean, Present
  <2>4. HeldCurrent(p)' /\ Flushing(p)'
    BY <1>0, <2>2 DEF Writes, HeldCurrent, Flushing
  <2>5. CopyAlone(p)'
    <3>1. \A u \in Threads : ~(pc[u] = "migrate_pub" /\ op[u].ptr = p)
      BY <1>2, <2>1 DEF Writes, CopyAlone
    <3> QED
      BY <1>0, <3>1 DEF Writes, CopyAlone
  <2> QED
    BY <2>1, <2>3, <2>4, <2>5 DEF Writes
<1> QED
  BY <1>5, <1>6

\* A pointer that nobody holds, copies or flushes changes as a whole.
LEMMA WholeWrites ==
  ASSUME NEW p \in Ptrs, Flushing(p), swap'[p] = None, Fresh(p)', Clean(p)',
         \A u \in Threads :
           /\ \A w \in raw'[u] : w.ptr # p
           /\ pc'[u] \in {"bits", "migrate_pub", "flush_write", "flush_clean"} => op'[u].ptr # p
           /\ pc'[u] = "flush_lock" => pc[u] = "flush_lock" /\ op'[u] = op[u]
  PROVE  Writes(p)'
BY DEF Writes, HeldCurrent, CopyAlone, Flushing, Holds

\* allocate_unique_ptr and swap_in publish a copy that has every write.
LEMMA PublishWrites ==
  ASSUME TypeOK, Discipline, Memory, \A p \in Ptrs : Writes(p), NEW t \in Threads,
         AllocInit(t) \/ SwapInRead(t)
  PROVE  \A p \in Ptrs : Writes(p)'
<1>t. /\ pc \in [Threads -> PcType] /\ op \in [Threads -> OpType] /\ obj \in [Addr -> ObjType]
      /\ raw \in [Threads -> SUBSET RawType] /\ meta \in [Ptrs -> MetaType]
      /\ remote \in [Ptrs -> BOOLEAN] /\ lock \in [Ptrs -> Threads \cup {GC, None}]
  BY DEF TypeOK, ScopesTyped, OperandsTyped, PointersTyped, HeapTyped
<1>f. Begin(t) \/ Finish(t)
  BY DEF Finish
<1>0. /\ \A u \in Threads \ {t} : pc'[u] = pc[u] /\ op'[u] = op[u]
      /\ swap' = swap /\ raw' = raw
  BY <1>f, ThreadFrame DEF gcVars, AllocInit, SwapInRead
<1>1. pc[t] \in {"alloc", "swap_read"} /\ Taking(t) /\ pc'[t] \in {"out", "deref"}
  BY <1>t DEF AllocInit, SwapInRead, Taking, Retry
<1>p. PICK p \in Ptrs, a \in Addr : p = op[t].ptr /\ a = op[t].new
  BY <1>1, AddressesTyped
<1>2. /\ ~Present(p)
      /\ pc[t] = "swap_read" => meta[p].state = "absent"
  BY <1>1, <1>p DEF Discipline, Used, Present
<1>3. /\ swap[p] = None
      /\ \A u \in Threads \ {t} : pc[u] \in LockPcs => op[u].ptr # p
  <2>1. CASE pc[t] = "alloc"
    BY <2>1, <1>p, <1>t DEF Discipline, Used, LockPcs
  <2>2. CASE pc[t] = "swap_read"
    <3>1. lock[p] = t
      BY <1>p, <2>2 DEF Discipline, Locked, LockPcs
    <3> QED
      BY <3>1, NamesAssumption DEF Discipline, Locked
  <2> QED
    BY <1>1, <2>1, <2>2
<1>4. \A u \in Threads, b \in Addr : ~Holds(u, p, b)
  BY <1>2 DEF Writes, HeldCurrent
<1>5. /\ \A b \in Addr \ {a} : obj'[b] = obj[b]
      /\ \A q \in Ptrs \ {p} : meta'[q] = meta[q] /\ remote'[q] = remote[q]
  BY <1>t, <1>p DEF AllocInit, SwapInRead
<1>6. Fresh(p)' /\ Clean(p)'
  <2>1. CASE AllocInit(t)
    BY <1>t, <1>p, <2>1 DEF AllocInit, Fresh, Clean, Present, set_present, Meta
  <2>2. CASE SwapInRead(t)
    <3>1. remote[p] /\ remote'[p] = remote[p]
      BY <1>2, <2>2 DEF SwapInRead, Writes, Fresh
    <3> QED
      BY <1>t, <1>p, <2>2, <3>1 DEF SwapInRead, Fresh, Clean, Present, set_present, Meta
  <2> QED
    BY <2>1, <2>2
<1>7. ASSUME NEW q \in Ptrs, q # p PROVE Writes(q)'
  <2>1. /\ pc'[t] \notin WritePcs \cup {"bits"}
        /\ \A b \in Addr : obj'[b].fresh = obj[b].fresh \/ (Taking(t) /\ b = op[t].new)
    BY <1>1, <1>5, <1>p DEF WritePcs
  <2>2. Untouched(q)
    BY <1>f, <1>0, <1>5, <1>7, <2>1, OthersUntouched
  <2> QED
    BY <2>2, WritesKept
<1>8. Writes(p)'
  <2>1. \A u \in Threads : /\ \A w \in raw[u] : w.ptr # p
                           /\ pc[u] = "bits" => op[u].ptr # p
    BY <1>t, <1>4 DEF Holds, RawType, TypeOK, OperandsTyped
  <2>2. \A u \in Threads \ {t} :
          /\ \A w \in raw'[u] : w.ptr # p
          /\ pc'[u] \in {"bits", "migrate_pub", "flush_write", "flush_clean"} => op'[u].ptr # p
          /\ pc'[u] = "flush_lock" => pc[u] = "flush_lock" /\ op'[u] = op[u]
    BY <1>0, <1>3, <2>1 DEF LockPcs
  <2>3. Flushing(p) /\ swap'[p] = None
    BY <1>0, <1>3 DEF Writes
  <2> QED
    BY <1>0, <1>1, <1>6, <2>1, <2>2, <2>3, WholeWrites
<1> QED
  BY <1>7, <1>8

\* free: nobody else has the pointer.
LEMMA FreeWrites ==
  ASSUME TypeOK, Discipline, Memory, \A p \in Ptrs : Writes(p), NEW t \in Threads,
         NEW p \in Ptrs, Free(t, p)
  PROVE  \A q \in Ptrs : Writes(q)'
<1>t. /\ obj \in [Addr -> ObjType] /\ meta \in [Ptrs -> MetaType]
      /\ raw \in [Threads -> SUBSET RawType]
      /\ remote \in [Ptrs -> BOOLEAN] /\ lock \in [Ptrs -> Threads \cup {GC, None}]
  BY DEF TypeOK, OperandsTyped, PointersTyped, HeapTyped
<1>f. Begin(t) \/ Finish(t)
  BY DEF Begin
<1>0. /\ pc[t] = "in" /\ UNCHANGED <<pc, op, swap>>
      /\ \A u \in Threads \ {t} : op[u].ptr # p /\ \A w \in raw[u] : w.ptr # p
      /\ raw' = [raw EXCEPT ![t] = {w \in @ : w.ptr # p}]
      /\ Present(p) /\ meta[p].addr \in Addr
  BY AddressesTyped DEF Free, gcVars, Present
<1>1. swap[p] = None
  BY NamesAssumption DEF Free, Discipline, Locked
<1>2. /\ \A b \in Addr : b # meta[p].addr => obj'[b] = obj[b]
      /\ \A q \in Ptrs \ {p} : meta'[q] = meta[q] /\ remote'[q] = remote[q]
      /\ meta'[p].state = "null"
  BY <1>t DEF Free, Null, Meta
<1>3. obj[meta[p].addr].ptr = p
  BY <1>0 DEF Memory, Owned
<1>4. ASSUME NEW q \in Ptrs, q # p PROVE Writes(q)'
  <2>1. /\ pc'[t] \notin WritePcs \cup {"bits"}
        /\ \A w \in raw'[t] : w.ptr = q => w \in raw[t]
        /\ \A b \in Addr : obj'[b].fresh = obj[b].fresh \/ obj[b].ptr # q
    BY <1>t, <1>0, <1>2, <1>3, <1>4 DEF WritePcs
  <2>2. Untouched(q)
    BY <1>f, <1>2, <1>4, <2>1, OthersUntouched
  <2> QED
    BY <2>2, WritesKept
<1>5. Writes(p)'
  <2>1. \A u \in Threads :
          /\ \A w \in raw'[u] : w.ptr # p
          /\ pc'[u] \in {"bits", "migrate_pub", "flush_write", "flush_clean"} => op'[u].ptr # p
          /\ pc'[u] = "flush_lock" => pc[u] = "flush_lock" /\ op'[u] = op[u]
    BY <1>t, <1>0
  <2>2. Flushing(p) /\ swap'[p] = None
    BY <1>0, <1>1 DEF Writes
  <2>3. Fresh(p)' /\ Clean(p)'
    BY <1>2 DEF Fresh, Clean, Present
  <2> QED
    BY <2>1, <2>2, <2>3, WholeWrites
<1> QED
  BY <1>4, <1>5

\* A mutator copies an object that nobody holds.
LEMMA CopyWrites ==
  ASSUME TypeOK, HeapInv, Discipline, Memory, \A p \in Ptrs : Writes(p), NEW t \in Threads,
         NEW c \in Cores, MigrateCopy(t, c),
         NEW a \in Addr, allocate_local_object(c, a, 0),
         obj' = [obj EXCEPT ![a] = obj[op[t].addr]], op' = [op EXCEPT ![t].new = a],
         pc' = [pc EXCEPT ![t] = "migrate_pub"],
         op[t].addr = meta[op[t].ptr].addr, ~Held(op[t].ptr, op[t].addr)
  PROVE  \A p \in Ptrs : Writes(p)'
<1>t. /\ pc \in [Threads -> PcType] /\ op \in [Threads -> OpType] /\ obj \in [Addr -> ObjType]
  BY DEF TypeOK, ScopesTyped, OperandsTyped, HeapTyped
<1>f. Begin(t) \/ Finish(t)
  BY DEF Finish
<1>0. /\ \A u \in Threads \ {t} : pc'[u] = pc[u] /\ op'[u] = op[u]
      /\ pc[t] = "migrate_copy" /\ UNCHANGED <<raw, meta, remote, swap>>
  BY <1>f, ThreadFrame DEF MigrateCopy, gcVars
<1>p. PICK p \in Ptrs : p = op[t].ptr
  BY <1>0, AddressesTyped
<1>1. Present(p) /\ op[t].addr = meta[p].addr /\ op[t].addr \in Addr
  BY <1>0, <1>p, AddressesTyped DEF Memory, Copying, Discipline, Used, Present
<1>2. /\ op'[t].new = a /\ op'[t].ptr = p /\ pc'[t] = "migrate_pub"
      /\ obj'[a] = obj[op[t].addr] /\ \A b \in Addr \ {a} : obj'[b] = obj[b]
  BY <1>t, <1>p DEF OpType
<1>3. ~InHeap(a) /\ \A b \in Addr : InHeap(b) => obj'[b] = obj[b]
  <2>1. ~InHeap(a)
    BY AllocSlot DEF Discipline
  <2> QED
    BY <1>2, <2>1
<1>4. ASSUME NEW q \in Ptrs, q # p PROVE Writes(q)'
  <2>1. Untouched(q)
    BY <1>f, <1>0, <1>2, <1>3, <1>4, OthersUntouched
  <2> QED
    BY <2>1, WritesKept
<1>5. Writes(p)'
  <2>1. \A u \in Threads, b \in Addr : ~Holds(u, p, b)
    BY <1>1, <1>p DEF Writes, HeldCurrent, Holds, Held
  <2>2. \A u \in Threads, b \in Addr : ~Holds(u, p, b)'
    BY <1>0, <1>2, <2>1 DEF Holds
  <2>3. InHeap(meta[p].addr) /\ obj[meta[p].addr].fresh
    BY <1>1 DEF Memory, Owned, Writes, Fresh
  <2>4. Fresh(p)' /\ Clean(p)'
    BY <1>0, <1>1, <1>3, <2>3 DEF Writes, Fresh, Clean, Present
  <2>5. HeldCurrent(p)'
    BY <1>0, <2>2 DEF Writes, HeldCurrent
  <2>6. CopyAlone(p)'
    <3>1. ASSUME NEW u \in Threads \ {t}, pc[u] = "migrate_pub", op[u].ptr = p
          PROVE  obj'[op[u].new].fresh
      <4>1. op[u].new \in Addr /\ InHeap(op[u].new) /\ obj[op[u].new].fresh
        BY <3>1, AddressesTyped DEF Memory, Taken, Taking, Writes, CopyAlone
      <4> QED
        BY <1>3, <4>1
    <3>2. obj'[op'[t].new].fresh
      BY <1>1, <1>2, <2>3
    <3> QED
      BY <1>0, <2>2, <3>1, <3>2 DEF Writes, CopyAlone
  <2>7. Flushing(p)'
    BY <1>0, <1>2 DEF Writes, Flushing, Present
  <2> QED
    BY <2>4, <2>5, <2>6, <2>7 DEF Writes
<1> QED
  BY <1>4, <1>5

\* mutator_copy: the copy still has every write.
LEMMA MigrateWrites ==
  ASSUME TypeOK, Discipline, Memory, \A p \in Ptrs : Writes(p), NEW t \in Threads,
         MigratePublish(t)
  PROVE  \A p \in Ptrs : Writes(p)'
<1>t. /\ pc \in [Threads -> PcType] /\ obj \in [Addr -> ObjType] /\ meta \in [Ptrs -> MetaType]
      /\ lock \in [Ptrs -> Threads \cup {GC, None}] /\ raw \in [Threads -> SUBSET RawType]
  BY DEF TypeOK, ScopesTyped, HeapTyped, PointersTyped, OperandsTyped
<1>f. Begin(t) \/ Finish(t)
  BY DEF Finish
<1>0. /\ \A u \in Threads \ {t} : pc'[u] = pc[u] /\ op'[u] = op[u]
      /\ pc[t] = "migrate_pub" /\ pc'[t] = "deref" /\ UNCHANGED <<raw, remote, swap>>
  BY <1>f, <1>t, ThreadFrame DEF MigratePublish, gcVars, Retry
<1>p. PICK p \in Ptrs, a \in Addr : p = op[t].ptr /\ a = op[t].new
  BY <1>0, AddressesTyped DEF Taking
<1>1. lock[p] = t /\ Present(p)
  BY <1>0, <1>p DEF Discipline, Locked, Used, LockPcs, Memory, Copying, Present
<1>2. /\ swap[p] = None
      /\ \A u \in Threads \ {t} : pc[u] \in LockPcs => op[u].ptr # p
  BY <1>1, NamesAssumption DEF Discipline, Locked
<1>3. /\ obj[a].fresh
      /\ \A u \in Threads, b \in Addr : ~Holds(u, p, b)
  BY <1>0, <1>p DEF Writes, CopyAlone
<1>4. /\ \A b \in Addr : obj'[b].fresh = obj[b].fresh
      /\ meta'[p].state = "present" /\ meta'[p].addr = a /\ meta'[p].dirty = meta[p].dirty
      /\ \A q \in Ptrs \ {p} : meta'[q] = meta[q]
  BY <1>1, <1>p, <1>t DEF MigratePublish, mutator_copy, MetaType, ObjType, Present
<1>5. ASSUME NEW q \in Ptrs, q # p PROVE Writes(q)'
  <2>1. pc'[t] \notin WritePcs \cup {"bits"}
    BY <1>0 DEF WritePcs
  <2>2. Untouched(q)
    BY <1>f, <1>0, <1>4, <1>5, <2>1, OthersUntouched
  <2> QED
    BY <2>2, WritesKept
<1>6. Writes(p)'
  <2>1. \A u \in Threads : /\ \A w \in raw[u] : w.ptr # p
                           /\ pc[u] = "bits" => op[u].ptr # p
    BY <1>t, <1>3 DEF Holds, RawType, TypeOK, OperandsTyped
  <2>2. \A u \in Threads \ {t} :
          /\ \A w \in raw'[u] : w.ptr # p
          /\ pc'[u] \in {"bits", "migrate_pub", "flush_write", "flush_clean"} => op'[u].ptr # p
          /\ pc'[u] = "flush_lock" => pc[u] = "flush_lock" /\ op'[u] = op[u]
    BY <1>0, <1>2, <2>1 DEF LockPcs
  <2>3. Flushing(p) /\ swap'[p] = None
    BY <1>0, <1>2 DEF Writes
  <2>4. Fresh(p)' /\ Clean(p)'
    BY <1>0, <1>1, <1>3, <1>4 DEF Fresh, Clean, Present, Writes
  <2> QED
    BY <1>0, <2>1, <2>2, <2>3, <2>4, WholeWrites
<1> QED
  BY <1>5, <1>6

\* A flush starts with a dirty object, and clear_dirty finds its writes in far
\* memory.
LEMMA FlushWrites ==
  ASSUME TypeOK, Discipline, races' = {}, Memory, \A p \in Ptrs : Writes(p), NEW t \in Threads,
         \/ FlushRetry(t) \/ FlushLock(t) \/ FlushWrite(t) \/ FlushClean(t)
         \/ \E p \in Ptrs : FlushStart(t, p)
  PROVE  \A p \in Ptrs : Writes(p)'
<1>t. /\ pc \in [Threads -> PcType] /\ op \in [Threads -> OpType] /\ meta \in [Ptrs -> MetaType]
      /\ remote \in [Ptrs -> BOOLEAN] /\ lock \in [Ptrs -> Threads \cup {GC, None}]
  BY DEF TypeOK, ScopesTyped, OperandsTyped, PointersTyped
<1>f. Begin(t) \/ Finish(t)
  BY DEF Begin, Finish
<1>0. /\ \A u \in Threads \ {t} : pc'[u] = pc[u] /\ op'[u] = op[u]
      /\ UNCHANGED <<obj, raw, swap>>
  BY <1>f, ThreadFrame DEF FlushStart, FlushRetry, _flush, FlushLock, FlushWrite, FlushClean,
    gcVars
<1>p. PICK p \in Ptrs :
        \/ op[t].ptr = p /\ (FlushLock(t) \/ FlushWrite(t) \/ FlushClean(t))
        \/ _flush(t, p) /\ pc[t] \in {"out", "flush"}
  BY DEF FlushStart, FlushRetry, FlushLock, FlushWrite, FlushClean, TypeOK, OperandsTyped
<1>1. /\ \A q \in Ptrs : /\ meta'[q].state = meta[q].state /\ meta'[q].addr = meta[q].addr
                         /\ q # p => meta'[q] = meta[q] /\ remote'[q] = remote[q]
      /\ pc'[t] \notin {"bits", "migrate_pub"}
      /\ pc'[t] \in WritePcs => op'[t].ptr = p
  <2>1. CASE _flush(t, p)
    BY <1>t, <2>1 DEF _flush, WritePcs, Idle
  <2>2. CASE op[t].ptr = p /\ FlushLock(t)
    BY <1>t, <2>2 DEF FlushLock, OpType, WritePcs
  <2>3. CASE op[t].ptr = p /\ FlushWrite(t)
    BY <1>t, <2>3 DEF FlushWrite, WritePcs
  <2>4. CASE op[t].ptr = p /\ FlushClean(t)
    BY <1>t, <2>4 DEF FlushClean, MetaType, WritePcs
  <2> QED
    BY <1>p, <2>1, <2>2, <2>3, <2>4
<1>2. ASSUME NEW q \in Ptrs, q # p PROVE Writes(q)'
  <2>1. Untouched(q)
    BY <1>f, <1>0, <1>1, <1>2, OthersUntouched
  <2> QED
    BY <2>1, WritesKept
<1>3. /\ Present(p)' <=> Present(p)
      /\ \A u \in Threads : \A a : Holds(u, p, a)' => Holds(u, p, a)
  <2>1. \A u \in Threads : \A a : Holds(u, p, a)' => Holds(u, p, a)
    BY <1>0, <1>1 DEF Holds
  <2> QED
    BY <1>1, <2>1 DEF Present
<1>4. ASSUME _flush(t, p) PROVE Writes(p)'
  <2>1. /\ UNCHANGED <<meta, remote>>
        /\ pc'[t] \in {"flush_lock", "out"}
        /\ pc'[t] = "flush_lock" => op'[t].snap.state = "present" /\ op'[t].snap.dirty
    BY <1>4, <1>t DEF _flush, Idle
  <2> QED
    BY <1>0, <1>3, <2>1 DEF Writes, Fresh, Clean, HeldCurrent, CopyAlone, Flushing
<1>5. ASSUME FlushLock(t), op[t].ptr = p PROVE Writes(p)'
  <2>1. /\ UNCHANGED <<meta, remote>>
        /\ pc'[t] \in {"flush_write", "flush"}
        /\ pc'[t] = "flush_write" => Present(p) /\ meta[p].dirty
    BY <1>5, <1>t DEF FlushLock, Writes, Flushing, Present
  <2> QED
    BY <1>0, <1>3, <2>1 DEF Writes, Fresh, Clean, HeldCurrent, CopyAlone, Flushing
<1>6. ASSUME FlushWrite(t), op[t].ptr = p PROVE Writes(p)'
  <2>1. /\ meta' = meta /\ op' = op
        /\ pc[t] = "flush_write" /\ pc'[t] = "flush_clean"
        /\ Present(p) /\ meta[p].dirty
    BY <1>6, <1>t DEF FlushWrite, Writes, Flushing
  <2> QED
    BY <1>0, <1>3, <2>1 DEF Writes, Fresh, Clean, HeldCurrent, CopyAlone, Flushing, Present
<1>7. ASSUME FlushClean(t), op[t].ptr = p PROVE Writes(p)'
  <2>1. /\ remote' = remote /\ pc[t] = "flush_clean" /\ pc'[t] = "out"
        /\ remote[p] /\ \A u \in Threads : \A w \in raw[u] : ~(w.ptr = p /\ w.mut)
    BY <1>7, <1>t DEF FlushClean, Record
  <2>2. lock[p] = t
    BY <1>7, <2>1 DEF Discipline, Locked, LockPcs
  <2>3. /\ swap[p] = None
        /\ \A u \in Threads \ {t} : pc[u] \in LockPcs => op[u].ptr # p
    BY <2>2, NamesAssumption DEF Discipline, Locked
  <2>4. Fresh(p)' /\ Clean(p)'
    BY <1>0, <1>1, <1>3, <2>1 DEF Writes, Fresh, Clean
  <2>5. HeldCurrent(p)'
    BY <1>0, <1>1, <1>3, <2>1 DEF Writes, HeldCurrent
  <2>6. CopyAlone(p)' /\ Flushing(p)'
    BY <1>0, <2>1, <2>3 DEF Writes, CopyAlone, Flushing, LockPcs
  <2> QED
    BY <2>4, <2>5, <2>6 DEF Writes
<1> QED
  BY <1>p, <1>2, <1>4, <1>5, <1>6, <1>7

\* swap_out: the dirty bit decides whether the writes have to be carried.
LEMMA SwapOutWrites ==
  ASSUME TypeOK, HeapInv, Discipline, GracePeriod, races = {}, Memory,
         \A p \in Ptrs : Writes(p),
         NEW p \in Ptrs, NEW c \in Cores, SwapOutCopy(p, c) \/ SwapOutWriteBack(p, c)
  PROVE  \A q \in Ptrs : Writes(q)'
<1>t. /\ meta \in [Ptrs -> MetaType] /\ obj \in [Addr -> ObjType]
      /\ remote \in [Ptrs -> BOOLEAN] /\ lock \in [Ptrs -> Threads \cup {GC, None}]
      /\ swap \in [Ptrs -> SwapType \cup {None}] /\ raw \in [Threads -> SUBSET RawType]
  BY DEF TypeOK, PointersTyped, HeapTyped, CollectorTyped, OperandsTyped
<1>0. /\ swap[p] # None /\ UNCHANGED <<pc, op, raw>>
      /\ swap' = [swap EXCEPT ![p] = None]
  BY DEF SwapOutCopy, SwapOutWriteBack, SwapOutEnd, threadVars
<1>1. /\ Present(p) /\ meta[p].addr = swap[p].addr /\ swap[p].addr \in Addr
      /\ obj[swap[p].addr].fresh /\ swap[p].dirty = meta[p].dirty
  BY <1>0, AddressesTyped DEF Memory, Swapping, Writes, Fresh, CopyAlone
<1>2. /\ \A u \in Threads, a \in Addr : ~Holds(u, p, a)
      /\ \A u \in Threads : pc[u] \in LockPcs => op[u].ptr # p
  <2>1. lock[p] = GC
    BY <1>0 DEF Discipline, Locked
  <2>2. \A u \in Threads : pc[u] \in LockPcs => op[u].ptr # p
    BY <2>1, NamesAssumption DEF Discipline, Locked
  <2> QED
    BY <1>0, <2>2, SwapAlone
<1>3. /\ \A b \in Addr : InHeap(b) => obj'[b].fresh = obj[b].fresh
      /\ \A q \in Ptrs \ {p} : meta'[q] = meta[q] /\ remote'[q] = remote[q]
      /\ Fresh(p)' /\ Clean(p)'
  <2>1. CASE SwapOutCopy(p, c)
    <3>1. PICK a \in Addr : /\ allocate_local_object(c, a, 0)
                            /\ obj' = [obj EXCEPT ![a] = obj[swap[p].addr]]
                            /\ meta' = [meta EXCEPT ![p] = gc_copy(@, a)]
      BY <2>1 DEF SwapOutCopy
    <3>2. ~InHeap(a)
      BY <3>1, AllocSlot DEF Discipline
    <3>3. remote' = remote
      BY <2>1 DEF SwapOutCopy
    <3>4. /\ obj'[a].fresh /\ meta'[p].addr = a /\ meta'[p].dirty = meta[p].dirty
          /\ meta'[p].state = "present"
          /\ \A q \in Ptrs \ {p} : meta'[q] = meta[q]
          /\ \A b \in Addr \ {a} : obj'[b] = obj[b]
      BY <1>1, <1>t, <3>1 DEF gc_copy, MetaType, Present
    <3>5. Fresh(p)' /\ Clean(p)'
      BY <1>1, <3>3, <3>4 DEF Fresh, Clean, Present, Writes
    <3> QED
      BY <3>2, <3>3, <3>4, <3>5
  <2>2. CASE SwapOutWriteBack(p, c)
    <3>1. /\ obj' = obj /\ meta' = [meta EXCEPT ![p] = gc_wb]
          /\ remote' = IF swap[p].dirty
                       THEN [remote EXCEPT ![p] = obj[swap[p].addr].fresh] ELSE remote
      BY <2>2 DEF SwapOutWriteBack
    <3>2. remote'[p] /\ meta'[p].state = "absent"
      <4>1. CASE meta[p].dirty
        BY <1>1, <1>t, <3>1, <4>1 DEF gc_wb, Meta
      <4>2. CASE ~meta[p].dirty
        BY <1>1, <1>t, <3>1, <4>2 DEF gc_wb, Meta, Writes, Clean
      <4> QED
        BY <4>1, <4>2
    <3>3. \A q \in Ptrs \ {p} : meta'[q] = meta[q] /\ remote'[q] = remote[q]
      BY <1>t, <3>1
    <3> QED
      BY <3>1, <3>2, <3>3 DEF Fresh, Clean, Present
  <2> QED
    BY <2>1, <2>2
<1>4. ASSUME NEW q \in Ptrs, q # p PROVE Writes(q)'
  <2>1. /\ Present(q) => obj'[meta[q].addr].fresh = obj[meta[q].addr].fresh
        /\ \A t \in Threads : pc[t] = "migrate_pub" =>
             obj'[op[t].new].fresh = obj[op[t].new].fresh
    <3>1. Present(q) => meta[q].addr \in Addr /\ InHeap(meta[q].addr)
      BY AddressesTyped DEF Memory, Owned
    <3>2. \A t \in Threads : pc[t] = "migrate_pub" => op[t].new \in Addr /\ InHeap(op[t].new)
      BY AddressesTyped DEF Memory, Taken, Taking
    <3> QED
      BY <1>3, <3>1, <3>2
  <2>2. Untouched(q)
    BY <1>t, <1>0, <1>3, <1>4, <2>1 DEF Untouched
  <2> QED
    BY <2>2, WritesKept
<1>5. Writes(p)'
  <2>1. \A u \in Threads : /\ \A w \in raw[u] : w.ptr # p
                           /\ pc[u] = "bits" => op[u].ptr # p
    BY <1>t, <1>2 DEF Holds, RawType, TypeOK, OperandsTyped
  <2>2. \A u \in Threads :
          /\ \A w \in raw'[u] : w.ptr # p
          /\ pc'[u] \in {"bits", "migrate_pub", "flush_write", "flush_clean"} => op'[u].ptr # p
          /\ pc'[u] = "flush_lock" => pc[u] = "flush_lock" /\ op'[u] = op[u]
    BY <1>0, <1>2, <2>1 DEF LockPcs
  <2>3. Flushing(p) /\ swap'[p] = None
    BY <1>t, <1>0 DEF Writes
  <2> QED
    BY <1>3, <2>2, <2>3, WholeWrites
<1> QED
  BY <1>4, <1>5

\* swap_out reads the dirty bit with the object lock held.
LEMMA LockWrites ==
  ASSUME TypeOK, Discipline, Memory, \A p \in Ptrs : Writes(p), NEW a \in Addr, SwapOutLock(a)
  PROVE  \A p \in Ptrs : Writes(p)'
<1>t. swap \in [Ptrs -> SwapType \cup {None}]
  BY DEF TypeOK, CollectorTyped
<1>1. UNCHANGED <<pc, op, raw, meta, obj, remote>>
  BY DEF SwapOutLock, threadVars
<1>2. obj[a].ptr \in Ptrs
  BY VisitsCurrent DEF SwapOutLock
<1>3. \A p \in Ptrs : swap'[p] = swap[p] \/ swap'[p].dirty = meta[p].dirty
  BY <1>t, <1>2 DEF SwapOutLock
<1>4. \A p \in Ptrs : /\ Present(p)' <=> Present(p)
                      /\ \A t \in Threads : \A b : Holds(t, p, b)' <=> Holds(t, p, b)
  BY <1>1 DEF Present, Holds
<1>5. \A p \in Ptrs : CopyAlone(p)'
  BY <1>1, <1>3, <1>4 DEF Writes, CopyAlone
<1> QED
  BY <1>1, <1>4, <1>5 DEF Writes, Fresh, Clean, HeldCurrent, Flushing

-----------------------------------------------------------------------------
(* The theorem about writes.                                               *)

LEMMA WritesInit == Init => \A p \in Ptrs : Writes(p)
<1> SUFFICES ASSUME Init, NEW p \in Ptrs PROVE Writes(p)
  OBVIOUS
<1>1. /\ meta[p].state = "null" /\ swap[p] = None
      /\ \A t \in Threads : pc[t] = "out" /\ raw[t] = {}
  BY DEF Init, Null, Meta
<1> QED
  BY <1>1 DEF Writes, Fresh, Clean, HeldCurrent, CopyAlone, Flushing, Present, Holds

LEMMA WritesStep == SafetyInv /\ WritesInv /\ [Next]_vars => WritesInv'
<1> SUFFICES ASSUME SafetyInv, WritesInv, [Next]_vars, races' = {}
             PROVE  \A p \in Ptrs : Writes(p)'
  BY DEF WritesInv
<1>i. TypeOK /\ HeapInv /\ Discipline /\ GracePeriod /\ MemoryInv
  BY DEF SafetyInv
<1>c. ASSUME races \subseteq races'
      PROVE  races = {} /\ Calm /\ Memory /\ \A p \in Ptrs : Writes(p)
  BY <1>c, <1>i DEF MemoryInv, WritesInv, Calm
<1>1. ASSUME NEW t \in Threads, Begin(t) \/ Finish(t) PROVE \A p \in Ptrs : Writes(p)'
  <2>t. pc \in [Threads -> PcType] /\ op \in [Threads -> OpType]
    BY <1>i DEF TypeOK, ScopesTyped, OperandsTyped
  <2>c. races = {} /\ Calm /\ Memory /\ \A p \in Ptrs : Writes(p)
    BY <1>1, <1>i, <1>c, ThreadFrame
  <2>1. CASE \/ EnterSnapshot(t) \/ EnterCount(t) \/ Exit(t)
             \/ SwapInLock(t) \/ MigrateSnap(t) \/ MigrateCheck(t) \/ MigrateLock(t)
             \/ \E c \in Cores : SwapInAlloc(t, c) \/ \E p \in Ptrs : AllocLocal(t, p, c)
    BY <1>i, <2>c, <2>1, QuietWrites
  <2>2. CASE DerefBits(t)
    BY <1>i, <2>c, <2>2, BitsWrites
  <2>3. ASSUME NEW p \in Ptrs, NEW mut \in BOOLEAN, DerefStart(t, p, mut)
        PROVE  \A q \in Ptrs : Writes(q)'
    <3>1. ~Taking(t) /\ pc[t] # "bits" /\ _deref(t, p, mut)
      BY <2>3 DEF DerefStart, Taking
    <3> QED
      BY <1>1, <1>i, <2>c, <3>1, DerefWrites
  <2>4. CASE DerefRetry(t)
    <3>1. /\ ~Taking(t) /\ pc[t] # "bits" /\ op[t].ptr \in Ptrs /\ op[t].mut \in BOOLEAN
          /\ _deref(t, op[t].ptr, op[t].mut)
      BY <1>i, <2>4, <2>t DEF DerefRetry, Taking, TypeOK, OperandsTyped, OpType
    <3> QED
      BY <1>1, <1>i, <2>c, <3>1, DerefWrites
  <2>5. CASE AllocInit(t) \/ SwapInRead(t)
    BY <1>i, <2>c, <2>5, PublishWrites
  <2>6. CASE MigratePublish(t)
    BY <1>i, <2>c, <2>6, MigrateWrites
  <2>7. ASSUME NEW p \in Ptrs, Free(t, p) PROVE \A q \in Ptrs : Writes(q)'
    BY <1>i, <2>c, <2>7, FreeWrites
  <2>8. CASE Write(t)
    BY <1>i, <2>c, <2>8, WriteWrites
  <2>9. CASE \/ FlushRetry(t) \/ FlushLock(t) \/ FlushWrite(t) \/ FlushClean(t)
             \/ \E p \in Ptrs : FlushStart(t, p)
    BY <1>i, <2>c, <2>9, FlushWrites
  <2>10. ASSUME NEW c \in Cores, MigrateCopy(t, c) PROVE \A p \in Ptrs : Writes(p)'
    <3>1. CASE allocate_local_object_fails(c) /\ Retry(t) /\ obj' = obj
      BY <1>i, <2>c, <2>10, <3>1, QuietWrites
    <3>2. ASSUME NEW a \in Addr, allocate_local_object(c, a, 0),
                 obj' = [obj EXCEPT ![a] = obj[op[t].addr]], op' = [op EXCEPT ![t].new = a],
                 pc' = [pc EXCEPT ![t] = "migrate_pub"],
                 op[t].addr # meta[op[t].ptr].addr => "stale_migrate" \in races',
                 Held(op[t].ptr, op[t].addr) => "split_object" \in races'
          PROVE  \A p \in Ptrs : Writes(p)'
      <4>1. op[t].addr = meta[op[t].ptr].addr /\ ~Held(op[t].ptr, op[t].addr)
        BY <3>2
      <4> QED
        BY <1>i, <2>c, <2>10, <3>2, <4>1, CopyWrites
    <3> QED
      BY <2>10, <3>1, <3>2 DEF MigrateCopy
  <2> QED
    BY <1>1, <2>1, <2>2, <2>3, <2>4, <2>5, <2>6, <2>7, <2>8, <2>9, <2>10 DEF Begin, Finish
<1>2. CASE Collector
  <2>c. races = {} /\ Calm /\ Memory /\ \A p \in Ptrs : Writes(p)
    BY <1>2, <1>c, CollectorFrame
  <2>1. CASE \/ pick_from_regions \/ SkipFreed \/ FlipExpected \/ WaitDone \/ WriteBackDone
             \/ \E a \in Addr : MarkObj(a)
             \/ \E r \in Regions : PushFreeRegion(r)
    BY <1>i, <2>c, <2>1, CollectorWrites
  <2>2. ASSUME NEW a \in Addr, SwapOutLock(a) PROVE \A p \in Ptrs : Writes(p)'
    BY <1>i, <2>c, <2>2, LockWrites
  <2>3. ASSUME NEW p \in Ptrs, NEW c \in Cores, SwapOutCopy(p, c) \/ SwapOutWriteBack(p, c)
        PROVE  \A q \in Ptrs : Writes(q)'
    BY <1>i, <2>c, <2>3, SwapOutWrites
  <2> QED
    BY <1>2, <2>1, <2>2, <2>3 DEF Collector
<1>3. CASE UNCHANGED vars
  <2>1. UNCHANGED <<pc, op, raw, meta, obj, remote, swap, races>>
    BY <1>3 DEF vars, threadVars, gcVars
  <2>2. \A p \in Ptrs : Writes(p)
    BY <1>c, <2>1
  <2>3. \A p \in Ptrs : Untouched(p)
    BY <2>1 DEF Untouched
  <2> QED
    BY <2>2, <2>3, WritesKept
<1> QED
  BY <1>1, <1>2, <1>3 DEF Next

\* As long as no race has happened, the copy of an object that a dereference
\* would reach, in a local region or in far memory, has every write made through
\* deref_mut, however often the object is migrated, swapped out and flushed.
THEOREM NoLostUpdateHolds == Spec => []NoLostUpdate
<1>1. WritesInv => NoLostUpdate
  BY DEF WritesInv, Writes, Fresh, Present, NoLostUpdate
<1>2. Init => WritesInv
  BY WritesInit DEF WritesInv
<1> QED
  BY <1>1, <1>2, SafetyInit, SafetyStep, WritesStep, PTL DEF Spec
=============================================================================
