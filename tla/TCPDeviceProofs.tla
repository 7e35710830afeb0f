---------------------------- MODULE TCPDeviceProofs ----------------------------
(* Proofs about TCPDevice, for any threads, cores, connections, identifiers *)
(* and number of clients.                                                   *)
EXTENDS TCPDevice, FiniteSetTheorems, FunctionTheorems, SequenceTheorems, TLAPS

-----------------------------------------------------------------------------
\* The invariant.

\* One message at most is under way on a connection.
Commands == {"Init", "Shutdown"}
Messages == Requests \cup [op : Commands] \cup [re : Commands]
            \cup [re : {"construct", "destruct", "read", "write"}, id : AllIds, val : Vals \cup {None}]
Wiring == [Conns -> {<<>>} \cup {<<msg>> : msg \in Messages}]
Typed ==
  /\ session \in 0..MaxSessions
  /\ phase \in {"off", "ack", "dial", "construct", "run", "destruct", "bye"}
  /\ call \in [Callers -> [conn : Conns, req : Requests] \cup {None}]
  /\ owns \in [Threads -> Ids \cup {None}] /\ step \in [Threads -> Steps]
  /\ available_ds_ids_ \in Seq(Ids)
  /\ closed \subseteq Conns
  /\ queue = <<>> \/ \E c \in Conns : queue = <<c>>
  /\ wire \in Wiring
  /\ thread \in [Conns -> Kinds]
  /\ server_ds_ptrs_ \in [AllIds -> Vals \cup {None}]
  /\ marking \in BOOLEAN /\ has_shutdown \in BOOLEAN /\ bug \in BOOLEAN

\* The requests a thread may be waiting for, by the life of its data structure,
\* and those of the main thread, by that of the device.
OpsAt(s) == CASE s = "new"     -> {"construct"}
              [] s = "empty"   -> {"read", "write"}
              [] s = "written" -> {"read"}
              [] s = "delete"  -> {"destruct"}
              [] OTHER         -> {}
MainOpsAt(p) == CASE p = "construct" -> {"construct"}
                  [] p = "run"       -> {"write"}
                  [] p = "destruct"  -> {"destruct"}
                  [] OTHER           -> {}

ThreadFits(t) ==
  /\ step[t] # "idle" => phase = "run" /\ owns[t] \in Ids
  /\ call[t] # None =>
       /\ call[t].req.op \in OpsAt(step[t]) /\ call[t].req.id = owns[t]
       /\ call[t].req.op = "write" => call[t].req.val = t
MainFits ==
  /\ phase # "off" => session # 0
  /\ phase = "destruct" => call[Main] # None
  /\ call[Main] # None =>
       /\ call[Main].req.op \in MainOpsAt(phase)
       /\ IF call[Main].req.op = "write" THEN call[Main].req.id \in Ids /\ call[Main].req.val \in Threads
          ELSE call[Main].req.id = kVanillaPtrDSID
Stages == MainFits /\ \A t \in Threads : ThreadFits(t)

\* Each slave connection is in one place: a cache, the global pool or a call.
Mine(s) == {<<s, x>> : x \in Slaves}
Busy(f) == {f[t].conn : t \in {u \in Callers : f[u] # None}}
PoolOK ==
  /\ cache_ \in [Cores -> SUBSET Mine(session)] /\ global_pool_ \in SUBSET Mine(session)
  /\ \A c \in Cores : Cardinality(cache_[c]) <= K /\ cache_[c] \cap global_pool_ = {}
  /\ \A c, d \in Cores : c # d => cache_[c] \cap cache_[d] = {}
OnePlace ==
  /\ Busy(call) \subseteq Mine(session) \ Pooled
  /\ \A t, u \in Callers : call[t] # None /\ call[u] # None /\ call[t].conn = call[u].conn => t = u
  /\ phase \in {"construct", "run", "destruct", "bye"} => Mine(session) \subseteq Pooled \cup Busy(call)
  /\ phase \in {"off", "ack"} => Pooled = {}

\* Nothing is under way but what a call, Init or Shutdown waits for.
Wires ==
  \A c \in Conns : wire[c] # <<>> <=> c \in Busy(call) \/ (phase \in {"ack", "bye"} /\ c = Master)

ClientInv == Typed /\ Stages /\ PoolOK /\ OnePlace /\ Wires

\* Without a race: the server takes no connection for another one's, an
\* identifier is in the queue or with one thread, and its data structure is on
\* the server from the reply to construct to the reply to destruct.
Served(f, w, t) == f[t] # None /\ w[f[t].conn] # <<>> /\ "re" \in DOMAIN w[f[t].conn][1]
Holding == {"new", "empty", "written", "delete"}
KindsFit == \A c \in Conns : thread[c] \in IF c[2] = M THEN Kinds \ {"slave"} ELSE {"none", "slave", "ended"}
OneHolder ==
  /\ \A i, j \in DOMAIN available_ds_ids_ : available_ds_ids_[i] = available_ds_ids_[j] => i = j
  /\ \A t \in Threads : step[t] \in {"new", "empty", "written"} =>
       \A i \in DOMAIN available_ds_ids_ : available_ds_ids_[i] # owns[t]
  /\ \A t, u \in Threads : step[t] \in Holding /\ step[u] \in Holding /\ owns[t] = owns[u] => t = u
Holds(t, v) ==
  /\ step[t] = "new" => v = IF Served(call, wire, t) THEN Fresh ELSE None
  /\ step[t] = "empty" => v = IF Served(call, wire, t) /\ call[t].req.op = "write" THEN t ELSE Fresh
  /\ step[t] = "written" => v = t
  /\ step[t] = "delete" => (v = None <=> Served(call, wire, t))
Stored ==
  /\ \A t \in Threads : step[t] \in Holding => Holds(t, server_ds_ptrs_[owns[t]])
  /\ \A i \in Ids : server_ds_ptrs_[i] # None => \E t \in Threads : step[t] \in Holding /\ owns[t] = i
Vanilla ==
  server_ds_ptrs_[kVanillaPtrDSID] =
    IF \/ phase = "run"
       \/ phase = "construct" /\ Served(call, wire, Main)
       \/ phase = "destruct" /\ ~Served(call, wire, Main)
    THEN Fresh ELSE None
ReplyFits(t) ==
  LET req == call[t].req  on == wire[call[t].conn] IN
    IF Served(call, wire, t)
    THEN /\ on[1].re = req.op /\ on[1].id = req.id
         /\ req.op = "read" => on[1].val = IF step[t] = "written" THEN t ELSE Fresh
    ELSE on = <<req>>
Answers ==
  /\ \A t \in Callers : call[t] # None => ReplyFits(t)
  /\ \A t \in Threads : call[Main] # None /\ call[Main].req.op = "write" /\ call[Main].req.val = t =>
       step[t] = "written" /\ owns[t] = call[Main].req.id
ServerInv == ~bug /\ KindsFit /\ OneHolder /\ Stored /\ Vanilla /\ Answers

Inv == ClientInv /\ (races = {} => ServerInv)

-----------------------------------------------------------------------------
\* Messages.

LEMMA OneMessage ==
  ASSUME NEW msg, NEW n
  PROVE  /\ <<msg>> # <<>> /\ <<msg>>[1] = msg /\ Len(<<msg>>) = 1 /\ Tail(<<msg>>) = <<>>
         /\ Append(<<>>, n) = <<n>> /\ Append(Tail(<<msg>>), n) = <<n>>
         /\ Len(<<>>) = 0
OBVIOUS

LEMMA Addressed ==
  /\ \A msg \in Requests \cup [op : Commands] : "op" \in DOMAIN msg /\ "re" \notin DOMAIN msg
  /\ \A msg \in Messages \ (Requests \cup [op : Commands]) : "re" \in DOMAIN msg /\ "op" \notin DOMAIN msg
BY DEF Messages, Requests

LEMMA RequestTyped ==
  /\ \A req \in Requests : /\ req.op \in {"construct", "destruct", "read", "write"} /\ req.id \in AllIds
                           /\ req.op = "write" => req.val \in Vals
  /\ \A id \in AllIds, o \in {"construct", "destruct", "read"} : [op |-> o, id |-> id] \in Requests
  /\ \A id \in AllIds, v \in Vals : [op |-> "write", id |-> id, val |-> v] \in Requests
BY DEF Requests

-----------------------------------------------------------------------------
\* The pool.

LEMMA MineFinite ==
  ASSUME NEW s
  PROVE  /\ IsFiniteSet(Mine(s)) /\ Cardinality(Mine(s)) = Cardinality(Slaves)
<1> DEFINE f == [x \in Slaves |-> <<s, x>>]
<1>1. f \in Bijection(Slaves, Mine(s))
  BY DEF Bijection, Injection, Surjection, IsInjective, Mine
<1> HIDE DEF f
<1>2. ExistsBijection(Slaves, Mine(s))
  BY <1>1 DEF ExistsBijection
<1> QED
  BY <1>2, FS_Bijection, ConnsAssumption

LEMMA PopStep ==
  ASSUME PoolOK, NEW c \in Cores, NEW item, pop(c, item), session' = session
  PROVE  /\ PoolOK' /\ item \in Pooled /\ Pooled' = Pooled \ {item}
<1>0. K \in Nat \ {0}
  BY BatchAssumption DEF K
<1>1. CASE cache_[c] = {}
  <2>1. PICK batch \in SUBSET global_pool_ :
          /\ Cardinality(batch) = K /\ item \in batch
          /\ cache_' = [cache_ EXCEPT ![c] = batch \ {item}]
          /\ global_pool_' = global_pool_ \ batch
    BY <1>1 DEF pop
  <2>2. cache_'[c] = batch \ {item} /\ \A d \in Cores : d # c => cache_'[d] = cache_[d]
    BY <2>1 DEF PoolOK
  <2>3. IsFiniteSet(batch) /\ Cardinality(batch \ {item}) <= K
    <3>1. IsFiniteSet(batch)
      BY MineFinite, FS_Subset DEF PoolOK
    <3>2. Cardinality(batch \ {item}) = Cardinality(batch) - 1
      BY <2>1, <3>1, FS_RemoveElement
    <3> QED
      BY <1>0, <2>1, <3>1, <3>2
  <2>4. cache_' \in [Cores -> SUBSET Mine(session)] /\ global_pool_' \in SUBSET Mine(session)
    BY <2>1 DEF PoolOK
  <2>5. PoolOK'
    <3>1. \A d \in Cores : Cardinality(cache_'[d]) <= K
      BY <2>2, <2>3 DEF PoolOK
    <3>2. \A d \in Cores : cache_'[d] \cap global_pool_' = {}
      BY <2>1, <2>2 DEF PoolOK
    <3>3. \A d, e \in Cores : d # e => cache_'[d] \cap cache_'[e] = {}
      BY <2>1, <2>2 DEF PoolOK
    <3> QED
      BY <2>4, <3>1, <3>2, <3>3 DEF PoolOK, K
  <2>6. item \in Pooled /\ Pooled' = Pooled \ {item}
    BY <1>1, <2>1, <2>2 DEF Pooled, PoolOK
  <2> QED
    BY <2>5, <2>6
<1>2. CASE cache_[c] # {}
  <2>1. /\ item \in cache_[c] /\ cache_' = [cache_ EXCEPT ![c] = @ \ {item}]
        /\ global_pool_' = global_pool_
    BY <1>2 DEF pop
  <2>2. cache_'[c] = cache_[c] \ {item} /\ \A d \in Cores : d # c => cache_'[d] = cache_[d]
    BY <2>1 DEF PoolOK
  <2>3. Cardinality(cache_[c] \ {item}) <= K
    <3>1. IsFiniteSet(cache_[c])
      BY MineFinite, FS_Subset DEF PoolOK
    <3>2. Cardinality(cache_[c] \ {item}) = Cardinality(cache_[c]) - 1 /\ Cardinality(cache_[c]) \in Nat
      BY <2>1, <3>1, FS_RemoveElement, FS_CardinalityType
    <3> QED
      BY <1>0, <3>1, <3>2 DEF PoolOK
  <2>4. cache_' \in [Cores -> SUBSET Mine(session)] /\ global_pool_' \in SUBSET Mine(session)
    BY <2>1 DEF PoolOK
  <2>5. PoolOK'
    <3>1. \A d \in Cores : Cardinality(cache_'[d]) <= K
      BY <2>2, <2>3 DEF PoolOK
    <3>2. \A d \in Cores : cache_'[d] \cap global_pool_' = {}
      BY <2>1, <2>2 DEF PoolOK
    <3>3. \A d, e \in Cores : d # e => cache_'[d] \cap cache_'[e] = {}
      BY <2>1, <2>2 DEF PoolOK
    <3> QED
      BY <2>4, <3>1, <3>2, <3>3 DEF PoolOK, K
  <2>6. item \in Pooled /\ Pooled' = Pooled \ {item}
    BY <2>1, <2>2 DEF Pooled, PoolOK
  <2> QED
    BY <2>5, <2>6
<1> QED
  BY <1>1, <1>2

LEMMA PushStep ==
  ASSUME PoolOK, NEW c \in Cores, NEW item \in Mine(session) \ Pooled, push(c, item), session' = session
  PROVE  /\ PoolOK' /\ Pooled' = Pooled \cup {item}
<1>0. K \in Nat \ {0}
  BY BatchAssumption DEF K
<1>f. /\ IsFiniteSet(cache_[c]) /\ Cardinality(cache_[c]) \in Nat /\ item \notin cache_[c]
  BY MineFinite, FS_Subset, FS_CardinalityType DEF PoolOK, Pooled
<1>1. CASE Cardinality(cache_[c]) = K
  <2>1. /\ cache_' = [cache_ EXCEPT ![c] = {item}]
        /\ global_pool_' = global_pool_ \cup cache_[c]
    BY <1>1 DEF push
  <2>2. cache_'[c] = {item} /\ \A d \in Cores : d # c => cache_'[d] = cache_[d]
    BY <2>1 DEF PoolOK
  <2>3. Cardinality({item}) <= K
    BY <1>0, FS_Singleton
  <2>4. cache_' \in [Cores -> SUBSET Mine(session)] /\ global_pool_' \in SUBSET Mine(session)
    BY <2>1 DEF PoolOK
  <2>5. PoolOK'
    <3>1. \A d \in Cores : Cardinality(cache_'[d]) <= K
      BY <2>2, <2>3 DEF PoolOK
    <3>2. \A d \in Cores : cache_'[d] \cap global_pool_' = {}
      BY <2>1, <2>2 DEF PoolOK, Pooled
    <3>3. \A d, e \in Cores : d # e => cache_'[d] \cap cache_'[e] = {}
      BY <2>1, <2>2 DEF PoolOK, Pooled
    <3> QED
      BY <2>4, <3>1, <3>2, <3>3 DEF PoolOK, K
  <2>6. Pooled' = Pooled \cup {item}
    BY <2>1, <2>2 DEF Pooled, PoolOK
  <2> QED
    BY <2>5, <2>6
<1>2. CASE Cardinality(cache_[c]) # K
  <2>1. /\ cache_' = [cache_ EXCEPT ![c] = @ \cup {item}]
        /\ global_pool_' = global_pool_
    BY <1>2 DEF push
  <2>2. cache_'[c] = cache_[c] \cup {item} /\ \A d \in Cores : d # c => cache_'[d] = cache_[d]
    BY <2>1 DEF PoolOK
  <2>3. Cardinality(cache_[c] \cup {item}) <= K
    <3>1. Cardinality(cache_[c] \cup {item}) = Cardinality(cache_[c]) + 1
      BY <1>f, FS_AddElement
    <3> QED
      BY <1>0, <1>f, <1>2, <3>1 DEF PoolOK
  <2>4. cache_' \in [Cores -> SUBSET Mine(session)] /\ global_pool_' \in SUBSET Mine(session)
    BY <2>1 DEF PoolOK
  <2>5. PoolOK'
    <3>1. \A d \in Cores : Cardinality(cache_'[d]) <= K
      BY <2>2, <2>3 DEF PoolOK
    <3>2. \A d \in Cores : cache_'[d] \cap global_pool_' = {}
      BY <2>1, <2>2 DEF PoolOK, Pooled
    <3>3. \A d, e \in Cores : d # e => cache_'[d] \cap cache_'[e] = {}
      BY <2>1, <2>2 DEF PoolOK, Pooled
    <3> QED
      BY <2>4, <3>1, <3>2, <3>3 DEF PoolOK, K
  <2>6. Pooled' = Pooled \cup {item}
    BY <2>1, <2>2 DEF Pooled, PoolOK
  <2> QED
    BY <2>5, <2>6
<1> QED
  BY <1>1, <1>2

\* The caches of the other cores hold at most a batch each.
LEMMA CachedElsewhere ==
  ASSUME PoolOK, NEW c \in Cores
  PROVE  LET others == UNION {cache_[d] : d \in Cores \ {c}} IN
           /\ IsFiniteSet(others) /\ Cardinality(others) <= (Cardinality(Cores) - 1) * K
<1>0. K \in Nat \ {0} /\ IsFiniteSet(Cores) /\ IsFiniteSet(Cores \ {c}) /\ Cardinality(Cores) \in Nat
      /\ Cardinality(Cores \ {c}) = Cardinality(Cores) - 1
  BY BatchAssumption, ConnsAssumption, FS_RemoveElement, FS_CardinalityType DEF K
<1> DEFINE others == UNION {cache_[d] : d \in Cores \ {c}}
           at == [d \in Cores |-> CHOOSE g \in Injection(cache_[d], 1..K) : TRUE]
           core(x) == CHOOSE d \in Cores \ {c} : x \in cache_[d]
           place == [x \in others |-> <<core(x), at[core(x)][x]>>]
           places == (Cores \ {c}) \X (1..K)
<1>1. ASSUME NEW d \in Cores PROVE at[d] \in Injection(cache_[d], 1..K)
  <2>1. IsFiniteSet(cache_[d]) /\ Cardinality(cache_[d]) \in Nat /\ Cardinality(cache_[d]) <= K
    BY MineFinite, FS_Subset, FS_CardinalityType DEF PoolOK
  <2>2. PICK g : g \in Bijection(1..Cardinality(cache_[d]), cache_[d])
    BY <2>1, FS_CardinalityType DEF ExistsBijection
  <2>3. PICK n \in Nat : n = Cardinality(cache_[d]) /\ n <= K
    BY <2>1
  <2>4. PICK h : h \in Bijection(cache_[d], 1..n)
    <3>1. ExistsBijection(1..n, cache_[d])
      BY <2>2, <2>3 DEF ExistsBijection
    <3>2. ExistsBijection(cache_[d], 1..n)
      BY <3>1, Fun_ExistsBijSymmetric
    <3> QED
      BY <3>2 DEF ExistsBijection
  <2>5. h \in Injection(cache_[d], 1..K)
    BY <1>0, <2>3, <2>4 DEF Bijection, Injection, Surjection, IsInjective
  <2> QED
    BY <2>5
<1> HIDE DEF at
<1>2. \A x \in others : core(x) \in Cores \ {c} /\ x \in cache_[core(x)]
  OBVIOUS
<1> HIDE DEF core
<1>3. place \in Injection(others, places)
  <2>1. \A x \in others : at[core(x)][x] \in 1..K
    BY <1>1, <1>2 DEF Injection
  <2>2. place \in [others -> places]
    BY <1>2, <2>1
  <2>3. ASSUME NEW x \in others, NEW y \in others, place[x] = place[y] PROVE x = y
    <3>1. core(x) = core(y) /\ at[core(x)][x] = at[core(x)][y]
      BY <2>3
    <3> QED
      BY <1>1, <1>2, <3>1 DEF Injection, IsInjective
  <2> HIDE DEF place
  <2> QED
    BY <2>2, <2>3 DEF Injection, IsInjective
<1>4. IsFiniteSet(1..K) /\ Cardinality(1..K) = K
  BY <1>0, FS_Interval
<1>5. IsFiniteSet(places) /\ Cardinality(places) = (Cardinality(Cores) - 1) * K
  BY <1>0, <1>4, FS_Product
<1> HIDE DEF places, place
<1>6. IsFiniteSet(others) /\ Cardinality(others) <= Cardinality(places)
  <2> HIDE DEF others
  <2> QED
    BY <1>3, <1>5, FS_Injection
<1> QED
  BY <1>5, <1>6

\* A caller without a connection leaves at most one for each of the others.
LEMMA BusyFew ==
  ASSUME NEW f, NEW t \in Callers, f[t] = None
  PROVE  IsFiniteSet(Busy(f)) /\ Cardinality(Busy(f)) <= Cardinality(Threads)
<1> DEFINE S == {u \in Callers : f[u] # None}
           h == [u \in S |-> f[u].conn]
<1>1. h \in Surjection(S, Busy(f))
  BY DEF Surjection, Busy
<1>2. IsFiniteSet(Callers) /\ Cardinality(Callers) = Cardinality(Threads) + 1 /\ Cardinality(Threads) \in Nat
  BY ConnsAssumption, IdsAssumption, FS_AddElement, FS_CardinalityType DEF Callers
<1>3. IsFiniteSet(Callers \ {t}) /\ Cardinality(Callers \ {t}) = Cardinality(Threads)
  <2>1. IsFiniteSet(Callers \ {t}) /\ Cardinality(Callers \ {t}) = Cardinality(Callers) - 1
    BY <1>2, FS_RemoveElement
  <2> QED
    BY <1>2, <2>1
<1>4. S \in SUBSET (Callers \ {t})
  OBVIOUS
<1> HIDE DEF h, S
<1>5. IsFiniteSet(S) /\ Cardinality(S) <= Cardinality(Threads)
  BY <1>3, <1>4, FS_Subset
<1>6. IsFiniteSet(Busy(f)) /\ Cardinality(Busy(f)) <= Cardinality(S)
  BY <1>1, <1>5, FS_Surjection
<1>7. Cardinality(Busy(f)) \in Nat /\ Cardinality(S) \in Nat
  BY <1>5, <1>6, FS_CardinalityType
<1> QED
  BY <1>2, <1>5, <1>6, <1>7

\* What is not with a caller or in another core's cache is in the global pool.
LEMMA EnoughLeft == ClientInv => NeverStarved
<1> SUFFICES ASSUME ClientInv, NEW t \in Callers, NEW c \in Cores,
                    phase \in {"construct", "run"}, call[t] = None, cache_[c] = {}
             PROVE  ~(Cardinality(global_pool_) < K)
  BY DEF NeverStarved, Starved
<1> DEFINE others == UNION {cache_[d] : d \in Cores \ {c}}
<1>1. Mine(session) = (global_pool_ \cup others) \cup Busy(call)
  BY DEF ClientInv, PoolOK, OnePlace, Pooled
<1>2. IsFiniteSet(others) /\ Cardinality(others) <= (Cardinality(Cores) - 1) * K
  BY CachedElsewhere DEF ClientInv
<1>3. IsFiniteSet(Busy(call)) /\ Cardinality(Busy(call)) <= Cardinality(Threads)
  BY BusyFew
<1>4. IsFiniteSet(global_pool_)
  BY MineFinite, FS_Subset DEF ClientInv, PoolOK
<1> HIDE DEF others
<1>5. PICK g, o, b, n, k, s, th \in Nat :
        /\ g = Cardinality(global_pool_) /\ o = Cardinality(others) /\ b = Cardinality(Busy(call))
        /\ n = Cardinality(Cores) /\ k = K /\ s = Cardinality(Slaves) /\ th = Cardinality(Threads)
  BY <1>2, <1>3, <1>4, ConnsAssumption, BatchAssumption, FS_CardinalityType DEF K
<1>6. /\ IsFiniteSet(global_pool_ \cup others) /\ Cardinality(global_pool_ \cup others) <= g + o
  <2>1. IsFiniteSet(global_pool_ \cap others)
    BY <1>4, FS_Intersection, <1>2
  <2>2. /\ IsFiniteSet(global_pool_ \cup others)
        /\ Cardinality(global_pool_ \cup others)
             = Cardinality(global_pool_) + Cardinality(others) - Cardinality(global_pool_ \cap others)
    BY <1>2, <1>4, FS_Union
  <2>3. Cardinality(global_pool_ \cap others) \in Nat
    BY <2>1, FS_CardinalityType
  <2> QED
    BY <1>5, <2>2, <2>3
<1>7. Cardinality(Mine(session)) <= Cardinality(global_pool_ \cup others) + b
  <2>1. IsFiniteSet((global_pool_ \cup others) \cap Busy(call))
    BY <1>3, <1>6, FS_Intersection
  <2>2. Cardinality((global_pool_ \cup others) \cup Busy(call))
          = Cardinality(global_pool_ \cup others) + Cardinality(Busy(call))
              - Cardinality((global_pool_ \cup others) \cap Busy(call))
    BY <1>3, <1>6, FS_Union
  <2>3. /\ Cardinality((global_pool_ \cup others) \cap Busy(call)) \in Nat
        /\ Cardinality(global_pool_ \cup others) \in Nat
    BY <1>6, <2>1, FS_CardinalityType
  <2> QED
    BY <1>1, <1>5, <2>2, <2>3
<1>8. s <= g + o + b
  BY <1>5, <1>6, <1>7, MineFinite, FS_CardinalityType
<1>9. o <= (n - 1) * k /\ b <= th /\ s >= th + n * k
  BY <1>2, <1>3, <1>5, ConnsAssumption
<1>10. (n - 1) * k = n * k - k
  BY <1>5
<1>11. n * k \in Nat
  BY <1>5
<1> QED
  BY <1>5, <1>8, <1>9, <1>10, <1>11

-----------------------------------------------------------------------------
\* Calls.

LEMMA MineConns ==
  ASSUME ClientInv, phase # "off"
  PROVE  /\ session \in 1..MaxSessions /\ Master \in Conns /\ Master \notin Mine(session)
         /\ Mine(session) \subseteq Conns
<1>1. session \in 1..MaxSessions
  BY ConnsAssumption DEF ClientInv, Typed, Stages, MainFits
<1> QED
  BY <1>1, IdsAssumption DEF Conns, Mine, Master

\* What goes on or comes off a connection.
LEMMA WriteOn ==
  ASSUME wire \in Wiring, NEW c \in Conns, NEW msg \in Messages, wire' = [wire EXCEPT ![c] = <<msg>>]
  PROVE  /\ wire' \in Wiring /\ wire'[c] = <<msg>> /\ wire'[c] # <<>> /\ wire'[c][1] = msg
         /\ \A d \in Conns : d # c => wire'[d] = wire[d]
BY OneMessage DEF Wiring

LEMMA ReadOff ==
  ASSUME wire \in Wiring, NEW c \in Conns, wire[c] # <<>>, wire' = [wire EXCEPT ![c] = Tail(@)]
  PROVE  /\ wire' \in Wiring /\ wire'[c] = <<>> /\ \A d \in Conns : d # c => wire'[d] = wire[d]
<1>1. PICK msg \in Messages : wire[c] = <<msg>>
  BY DEF Wiring
<1>2. Tail(wire[c]) = <<>>
  BY <1>1, OneMessage
<1> QED
  BY <1>2 DEF Wiring

LEMMA AnswerOn ==
  ASSUME wire \in Wiring, NEW c \in Conns, wire[c] # <<>>, NEW msg \in Messages, Answer(c, msg)
  PROVE  /\ wire' \in Wiring /\ wire'[c] = <<msg>> /\ wire'[c] # <<>> /\ wire'[c][1] = msg
         /\ \A d \in Conns : d # c => wire'[d] = wire[d]
<1>1. PICK old \in Messages : wire[c] = <<old>>
  BY DEF Wiring
<1>2. Append(Tail(wire[c]), msg) = <<msg>>
  BY <1>1, OneMessage
<1>3. wire' = [wire EXCEPT ![c] = <<msg>>]
  BY <1>2 DEF Answer
<1> QED
  BY <1>3, WriteOn

LEMMA CallMade ==
  ASSUME call \in [Callers -> [conn : Conns, req : Requests] \cup {None}], NEW t \in Callers,
         call[t] = None, NEW conn \in Conns, NEW req \in Requests,
         call' = [call EXCEPT ![t] = [conn |-> conn, req |-> req]]
  PROVE  /\ call' \in [Callers -> [conn : Conns, req : Requests] \cup {None}]
         /\ call'[t] # None /\ call'[t].conn = conn /\ call'[t].req = req
         /\ \A u \in Callers : u # t => call'[u] = call[u]
         /\ Busy(call') = Busy(call) \cup {conn}
<1>1. /\ call' \in [Callers -> [conn : Conns, req : Requests] \cup {None}]
      /\ call'[t] = [conn |-> conn, req |-> req]
      /\ \A u \in Callers : u # t => call'[u] = call[u]
  OBVIOUS
<1>2. call'[t] # None /\ call'[t].conn = conn /\ call'[t].req = req
  BY <1>1, IdsAssumption
<1> QED
  BY <1>1, <1>2 DEF Busy

LEMMA CallEnds ==
  ASSUME call \in [Callers -> [conn : Conns, req : Requests] \cup {None}], NEW t \in Callers,
         call[t] # None,
         \A u \in Callers : call[u] # None /\ call[u].conn = call[t].conn => u = t,
         call' = [call EXCEPT ![t] = None]
  PROVE  /\ call' \in [Callers -> [conn : Conns, req : Requests] \cup {None}]
         /\ call'[t] = None
         /\ \A u \in Callers : u # t => call'[u] = call[u]
         /\ Busy(call') = Busy(call) \ {call[t].conn}
<1>1. /\ call' \in [Callers -> [conn : Conns, req : Requests] \cup {None}]
      /\ call'[t] = None
      /\ \A u \in Callers : u # t => call'[u] = call[u]
  OBVIOUS
<1> QED
  BY <1>1 DEF Busy

\* A request takes one connection out of the pool and writes to it.
LEMMA AskStep ==
  ASSUME ClientInv, NEW t \in Callers, NEW req \in Requests, Ask(t, req),
         phase \in {"construct", "run"}, phase' \in {"construct", "run", "destruct"}, session' = session
  PROVE  /\ PoolOK' /\ OnePlace' /\ Wires' /\ wire' \in Wiring
         /\ call' \in [Callers -> [conn : Conns, req : Requests] \cup {None}]
         /\ call[t] = None
         /\ \E conn \in Pooled :
              /\ conn \in Conns /\ wire'[conn] = <<req>> /\ \A d \in Conns : d # conn => wire'[d] = wire[d]
              /\ call'[t] # None /\ call'[t].conn = conn /\ call'[t].req = req
              /\ \A u \in Callers : u # t => call'[u] = call[u]
<1>1. PICK c \in Cores, conn \in Pooled :
        /\ pop(c, conn) /\ call' = [call EXCEPT ![t] = [conn |-> conn, req |-> req]] /\ Send(conn, req)
  BY DEF Ask
<1>2. PoolOK' /\ Pooled' = Pooled \ {conn}
  BY <1>1, PopStep DEF ClientInv
<1>3. conn \in Mine(session) /\ conn \in Conns /\ conn \notin Busy(call) /\ conn # Master
  BY MineConns DEF ClientInv, PoolOK, Pooled, OnePlace
<1>4. /\ call[t] = None
      /\ call' \in [Callers -> [conn : Conns, req : Requests] \cup {None}]
      /\ call'[t] # None /\ call'[t].conn = conn /\ call'[t].req = req
      /\ \A u \in Callers : u # t => call'[u] = call[u]
      /\ Busy(call') = Busy(call) \cup {conn}
  BY <1>1, <1>3, CallMade DEF Ask, ClientInv, Typed
<1>5. wire[conn] = <<>>
  BY <1>3 DEF ClientInv, Wires
<1>6. /\ wire' \in Wiring /\ wire'[conn] = <<req>> /\ wire'[conn] # <<>>
      /\ \A d \in Conns : d # conn => wire'[d] = wire[d]
  <2>1. wire' = [wire EXCEPT ![conn] = <<req>>]
    BY <1>1, <1>5, OneMessage DEF Send
  <2>2. req \in Messages
    BY DEF Messages
  <2> QED
    BY <1>3, <2>1, <2>2, WriteOn DEF ClientInv, Typed
<1>7. OnePlace'
  <2>1. Busy(call') \subseteq Mine(session) \ Pooled'
    BY <1>2, <1>3, <1>4 DEF ClientInv, OnePlace
  <2>2. \A u \in Callers : call[u] # None => call[u].conn # conn
    BY <1>3 DEF Busy
  <2>3. \A u, v \in Callers : call'[u] # None /\ call'[v] # None /\ call'[u].conn = call'[v].conn => u = v
    BY <1>4, <2>2 DEF ClientInv, OnePlace
  <2>4. Mine(session) \subseteq Pooled' \cup Busy(call')
    BY <1>2, <1>4 DEF ClientInv, OnePlace
  <2> QED
    BY <2>1, <2>3, <2>4 DEF OnePlace
<1>8. Wires'
  <2> SUFFICES ASSUME NEW d \in Conns
               PROVE  wire'[d] # <<>> <=> d \in Busy(call')
    BY DEF Wires
  <2>1. CASE d = conn
    BY <1>4, <1>6, <2>1
  <2>2. CASE d # conn
    BY <1>4, <1>6, <2>2 DEF ClientInv, Wires
  <2> QED
    BY <2>1, <2>2
<1> QED
  BY <1>2, <1>3, <1>4, <1>6, <1>7, <1>8

\* The end of a call puts its connection back.
LEMMA GiveBack ==
  ASSUME ClientInv, NEW t \in Callers, call[t] # None, phase \in {"construct", "run", "destruct"},
         NEW c \in Cores, push(c, call[t].conn), call' = [call EXCEPT ![t] = None],
         phase' \in {"construct", "run", "bye"}, session' = session
  PROVE  /\ PoolOK' /\ OnePlace'
         /\ call' \in [Callers -> [conn : Conns, req : Requests] \cup {None}]
         /\ call'[t] = None /\ \A u \in Callers : u # t => call'[u] = call[u]
         /\ Busy(call') = Busy(call) \ {call[t].conn}
         /\ call[t].conn \in Busy(call) /\ call[t].conn \in Conns /\ call[t].conn # Master
         /\ wire[call[t].conn] # <<>>
<1>1. call[t].conn \in Busy(call)
  BY DEF Busy
<1>2. call[t].conn \in Mine(session) \ Pooled
  BY <1>1 DEF ClientInv, OnePlace
<1>3. PoolOK' /\ Pooled' = Pooled \cup {call[t].conn}
  BY <1>2, PushStep DEF ClientInv
<1>4. /\ call' \in [Callers -> [conn : Conns, req : Requests] \cup {None}]
      /\ call'[t] = None /\ \A u \in Callers : u # t => call'[u] = call[u]
      /\ Busy(call') = Busy(call) \ {call[t].conn}
  <2>1. \A u \in Callers : call[u] # None /\ call[u].conn = call[t].conn => u = t
    BY DEF ClientInv, OnePlace
  <2> QED
    BY <2>1, CallEnds DEF ClientInv, Typed
<1>5. OnePlace'
  <2>1. Busy(call') \subseteq Mine(session) \ Pooled'
    BY <1>3, <1>4 DEF ClientInv, OnePlace
  <2>3. \A u, v \in Callers : call'[u] # None /\ call'[v] # None /\ call'[u].conn = call'[v].conn => u = v
    BY <1>4 DEF ClientInv, OnePlace
  <2>4. Mine(session) \subseteq Pooled' \cup Busy(call')
    BY <1>3, <1>4 DEF ClientInv, OnePlace
  <2> QED
    BY <2>1, <2>3, <2>4 DEF OnePlace
<1>6. call[t].conn \in Conns /\ call[t].conn # Master
  BY <1>2, MineConns
<1>7. wire[call[t].conn] # <<>>
  BY <1>1, <1>6 DEF ClientInv, Wires
<1> QED
  BY <1>1, <1>3, <1>4, <1>5, <1>6, <1>7

LEMMA FinishStep ==
  ASSUME ClientInv, NEW t \in Callers, NEW o, Finish(t, o),
         phase \in {"construct", "run"}, phase' \in {"construct", "run"}, session' = session
  PROVE  /\ PoolOK' /\ OnePlace' /\ Wires' /\ wire' \in Wiring
         /\ call' \in [Callers -> [conn : Conns, req : Requests] \cup {None}]
         /\ call[t] # None /\ call[t].req.op = o /\ Served(call, wire, t)
         /\ call'[t] = None /\ \A u \in Callers : u # t => call'[u] = call[u]
         /\ \A d \in Conns : d # call[t].conn => wire'[d] = wire[d]
         /\ \A u \in Callers \ {t} : call[u] # None => call[u].conn # call[t].conn
<1>1. PICK c \in Cores : push(c, call[t].conn)
  BY DEF Finish
<1>2. call[t] # None /\ call[t].req.op = o /\ Served(call, wire, t)
  BY DEF Finish, Served, Replied
<1>3. /\ PoolOK' /\ OnePlace'
      /\ call' \in [Callers -> [conn : Conns, req : Requests] \cup {None}]
      /\ call'[t] = None /\ \A u \in Callers : u # t => call'[u] = call[u]
      /\ Busy(call') = Busy(call) \ {call[t].conn}
      /\ call[t].conn \in Busy(call) /\ call[t].conn \in Conns /\ call[t].conn # Master
      /\ wire[call[t].conn] # <<>>
  BY <1>1, <1>2, GiveBack DEF Finish
<1>4. /\ wire' \in Wiring /\ wire'[call[t].conn] = <<>>
      /\ \A d \in Conns : d # call[t].conn => wire'[d] = wire[d]
  <2>1. wire' = [wire EXCEPT ![call[t].conn] = Tail(@)] /\ wire \in Wiring
    BY DEF Finish, ClientInv, Typed
  <2> QED
    BY <1>3, <2>1, ReadOff
<1>5. Wires'
  BY <1>3, <1>4 DEF ClientInv, Wires
<1>6. \A u \in Callers \ {t} : call[u] # None => call[u].conn # call[t].conn
  BY <1>2 DEF ClientInv, OnePlace
<1> QED
  BY <1>2, <1>3, <1>4, <1>5, <1>6

-----------------------------------------------------------------------------
\* The client's invariant, action by action.

LEMMA ClientInit == Init => ClientInv
<1> SUFFICES ASSUME Init PROVE ClientInv
  OBVIOUS
<1>1. Typed
  <2>1. wire \in Wiring
    BY DEF Init, Wiring
  <2>2. "none" \in Kinds /\ "idle" \in Steps
    BY DEF Kinds, Steps
  <2>3. 0 \in 0..MaxSessions
    BY ConnsAssumption
  <2>4. thread \in [Conns -> Kinds] /\ step \in [Threads -> Steps]
    BY <2>2 DEF Init
  <2> QED
    BY <2>1, <2>3, <2>4, IdsAssumption DEF Init, Typed
<1>2. Stages
  BY DEF Init, Stages, MainFits, ThreadFits, Callers
<1>3. Pooled = {} /\ Busy(call) = {}
  BY DEF Init, EmptyPool, Pooled, Busy
<1>4. PoolOK
  <2>1. Cardinality({}) <= K
    BY BatchAssumption, FS_EmptySet DEF K
  <2>2. cache_ = [c \in Cores |-> {}] /\ global_pool_ = {}
    BY DEF Init, EmptyPool
  <2> QED
    BY <2>1, <2>2 DEF PoolOK
<1>5. OnePlace
  BY <1>3 DEF Init, OnePlace
<1>6. Wires
  BY <1>3 DEF Init, Wires
<1> QED
  BY <1>1, <1>2, <1>4, <1>5, <1>6 DEF ClientInv

\* The pool and the connections do not care for identifiers and the server.
LEMMA ClientFrame ==
  ASSUME ClientInv, UNCHANGED <<session, phase, pool, call>>, Typed', Stages',
         \A c \in Conns : wire'[c] # <<>> <=> wire[c] # <<>>
  PROVE  ClientInv'
<1>1. PoolOK' /\ Pooled' = Pooled
  BY DEF ClientInv, PoolOK, Pooled, pool
<1>2. OnePlace'
  BY <1>1 DEF ClientInv, OnePlace
<1>3. Wires'
  BY DEF ClientInv, Wires, Master
<1> QED
  BY <1>1, <1>2, <1>3 DEF ClientInv

LEMMA StagesFrame ==
  ASSUME Stages, UNCHANGED <<session, phase, call, owns, step>>
  PROVE  Stages'
BY DEF Stages, MainFits, ThreadFits

\* A step of the server.
LEMMA ServerFrame ==
  ASSUME ClientInv, UNCHANGED client, wire' \in Wiring, queue' = <<>> \/ queue' = queue,
         thread' \in [Conns -> Kinds], server_ds_ptrs_' \in [AllIds -> Vals \cup {None}],
         marking' \in BOOLEAN, has_shutdown' \in BOOLEAN, bug' \in BOOLEAN,
         \A c \in Conns : wire'[c] # <<>> <=> wire[c] # <<>>
  PROVE  ClientInv'
<1>1. Typed'
  BY DEF ClientInv, Typed, client, ids
<1>2. Stages'
  BY StagesFrame DEF ClientInv, client, ids
<1> QED
  BY <1>1, <1>2, ClientFrame DEF client

\* A step on an identifier.
LEMMA IdFrame ==
  ASSUME ClientInv, NEW t \in Threads, call[t] = None, phase = "run",
         UNCHANGED <<session, phase, pool, call, closed, wire, queue, server>>,
         available_ds_ids_' \in Seq(Ids), step' \in [Threads -> Steps],
         owns' \in [Threads -> Ids \cup {None}],
         step'[t] # "idle" => owns'[t] \in Ids,
         \A u \in Threads : u # t => step'[u] = step[u] /\ owns'[u] = owns[u]
  PROVE  ClientInv'
<1>1. Typed'
  BY DEF ClientInv, Typed, server
<1>2. Stages'
  <2>1. MainFits'
    BY DEF ClientInv, Stages, MainFits
  <2>2. ASSUME NEW u \in Threads PROVE ThreadFits(u)'
    BY DEF ClientInv, Stages, ThreadFits
  <2> QED
    BY <2>1, <2>2 DEF Stages
<1> QED
  BY <1>1, <1>2, ClientFrame

LEMMA ThreadAsks ==
  ASSUME ClientInv, NEW t \in Threads, NEW req \in Requests, Ask(t, req), step[t] # "idle",
         req.op \in OpsAt(step[t]), req.id = owns[t], req.op = "write" => req.val = t,
         UNCHANGED <<session, phase, ids, closed, queue, server>>
  PROVE  ClientInv'
<1>1. phase = "run" /\ t \in Callers /\ t # Main
  BY IdsAssumption DEF ClientInv, Stages, ThreadFits, Callers
<1>2. /\ PoolOK' /\ OnePlace' /\ Wires' /\ wire' \in Wiring
      /\ call' \in [Callers -> [conn : Conns, req : Requests] \cup {None}]
      /\ call'[t].req = req /\ \A u \in Callers : u # t => call'[u] = call[u]
  BY <1>1, AskStep
<1>3. Typed'
  BY <1>2 DEF ClientInv, Typed, server, ids
<1>4. MainFits'
  BY <1>1, <1>2 DEF ClientInv, Stages, MainFits, Callers
<1>5. ASSUME NEW u \in Threads PROVE ThreadFits(u)'
  BY <1>2 DEF ClientInv, Stages, ThreadFits, ids, Callers
<1> QED
  BY <1>2, <1>3, <1>4, <1>5 DEF ClientInv, Stages

LEMMA ThreadFinishes ==
  ASSUME ClientInv, NEW t \in Threads, NEW o, Finish(t, o), step' \in [Threads -> Steps],
         step'[t] # "idle", \A u \in Threads : u # t => step'[u] = step[u],
         UNCHANGED <<session, phase, available_ds_ids_, owns, closed, queue, server>>
  PROVE  ClientInv'
<1>0. call[t] # None
  BY DEF Finish
<1>1. phase = "run" /\ t \in Callers /\ t # Main /\ owns[t] \in Ids
  BY <1>0, IdsAssumption DEF ClientInv, Stages, ThreadFits, Callers, OpsAt
<1>2. /\ PoolOK' /\ OnePlace' /\ Wires' /\ wire' \in Wiring
      /\ call' \in [Callers -> [conn : Conns, req : Requests] \cup {None}]
      /\ call'[t] = None /\ \A u \in Callers : u # t => call'[u] = call[u]
  BY <1>1, FinishStep
<1>3. Typed'
  BY <1>2 DEF ClientInv, Typed, server, ids
<1>4. MainFits'
  BY <1>1, <1>2 DEF ClientInv, Stages, MainFits, Callers
<1>5. ASSUME NEW u \in Threads PROVE ThreadFits(u)'
  BY <1>1, <1>2 DEF ClientInv, Stages, ThreadFits, ids, Callers
<1> QED
  BY <1>2, <1>3, <1>4, <1>5 DEF ClientInv, Stages

LEMMA MainAsks ==
  ASSUME ClientInv, NEW req \in Requests, Ask(Main, req), phase \in {"construct", "run"},
         phase' \in {"construct", "run", "destruct"}, phase' # "run" => \A t \in Threads : step[t] = "idle",
         req.op \in MainOpsAt(phase'),
         IF req.op = "write" THEN req.id \in Ids /\ req.val \in Threads ELSE req.id = kVanillaPtrDSID,
         UNCHANGED <<session, ids, closed, queue, server>>
  PROVE  ClientInv'
<1>1. Main \in Callers /\ Main \notin Threads
  BY IdsAssumption DEF Callers
<1>2. /\ PoolOK' /\ OnePlace' /\ Wires' /\ wire' \in Wiring
      /\ call' \in [Callers -> [conn : Conns, req : Requests] \cup {None}]
      /\ call'[Main] # None /\ call'[Main].req = req /\ \A u \in Callers : u # Main => call'[u] = call[u]
  BY <1>1, AskStep
<1>3. Typed'
  BY <1>2 DEF ClientInv, Typed, server, ids
<1>4. MainFits'
  BY <1>1, <1>2 DEF ClientInv, Stages, MainFits, Callers
<1>5. ASSUME NEW u \in Threads PROVE ThreadFits(u)'
  BY <1>1, <1>2 DEF ClientInv, Stages, ThreadFits, ids, Callers
<1> QED
  BY <1>2, <1>3, <1>4, <1>5 DEF ClientInv, Stages

LEMMA DialMasterClient == ClientInv /\ DialMaster => ClientInv'
<1> SUFFICES ASSUME ClientInv, DialMaster PROVE ClientInv'
  OBVIOUS
<1> DEFINE first == <<session + 1, M>>
<1>1. /\ phase = "off" /\ session < MaxSessions /\ session' = session + 1 /\ phase' = "ack"
      /\ queue' = <<first>> /\ Send(first, [op |-> "Init"])
      /\ UNCHANGED <<pool, ids, call, closed, server, races>>
  BY DEF DialMaster
<1>2. session + 1 \in 1..MaxSessions /\ session + 1 # 0 /\ session + 1 \in 0..MaxSessions
  BY <1>1, ConnsAssumption DEF ClientInv, Typed
<1>3. first \in Conns
  BY <1>2 DEF Conns
<1>4. call[Main] = None /\ \A t \in Threads : step[t] = "idle" /\ call[t] = None
  BY <1>1 DEF ClientInv, Stages, MainFits, ThreadFits, MainOpsAt, OpsAt
<1>5. Busy(call) = {} /\ Pooled = {}
  BY <1>1, <1>4 DEF ClientInv, OnePlace, Busy, Callers
<1>6. wire[first] = <<>>
  BY <1>1, <1>3, <1>5 DEF ClientInv, Wires
<1>7. wire' \in Wiring /\ wire'[first] # <<>> /\ \A d \in Conns : d # first => wire'[d] = wire[d]
  <2>1. wire' = [wire EXCEPT ![first] = <<[op |-> "Init"]>>]
    BY <1>1, <1>6, OneMessage DEF Send
  <2>2. [op |-> "Init"] \in Messages
    BY DEF Messages, Commands
  <2> HIDE DEF first
  <2> QED
    BY <1>3, <2>1, <2>2, WriteOn DEF ClientInv, Typed
<1>8. Typed'
  BY <1>1, <1>2, <1>3, <1>7 DEF ClientInv, Typed, server, ids
<1>9. Stages'
  BY <1>1, <1>2, <1>4 DEF Stages, MainFits, ThreadFits, ids
<1>10. Pooled' = {} /\ Busy(call') = {} /\ cache_' = cache_ /\ global_pool_' = global_pool_
  BY <1>1, <1>5 DEF Pooled, pool
<1>11. PoolOK'
  <2>1. \A c \in Cores : cache_[c] = {}
    BY <1>5 DEF Pooled
  <2>2. global_pool_ = {}
    BY <1>5 DEF Pooled
  <2> QED
    BY <1>10, <2>1, <2>2 DEF ClientInv, PoolOK
<1>12. OnePlace'
  BY <1>1, <1>4, <1>10 DEF ClientInv, OnePlace
<1>13. Wires'
  BY <1>1, <1>3, <1>5, <1>7, <1>10 DEF ClientInv, Wires, Master
<1> QED
  BY <1>8, <1>9, <1>11, <1>12, <1>13 DEF ClientInv

LEMMA InitAckClient == ClientInv /\ InitAck => ClientInv'
<1> SUFFICES ASSUME ClientInv, InitAck PROVE ClientInv'
  OBVIOUS
<1>1. /\ phase = "ack" /\ phase' = "dial" /\ wire[Master] # <<>>
      /\ wire' = [wire EXCEPT ![Master] = Tail(@)]
      /\ UNCHANGED <<session, pool, ids, call, closed, queue, server, races>>
  BY DEF InitAck, Replied
<1>2. Master \in Conns
  BY <1>1, MineConns
<1>3. wire' \in Wiring /\ wire'[Master] = <<>> /\ \A d \in Conns : d # Master => wire'[d] = wire[d]
  BY <1>1, <1>2, ReadOff DEF ClientInv, Typed
<1>4. call[Main] = None /\ \A t \in Threads : step[t] = "idle" /\ call[t] = None
  BY <1>1 DEF ClientInv, Stages, MainFits, ThreadFits, MainOpsAt, OpsAt
<1>5. Busy(call) = {}
  BY <1>4 DEF Busy, Callers
<1>6. Typed'
  BY <1>1, <1>3 DEF ClientInv, Typed, server, ids
<1>7. Stages'
  BY <1>1, <1>4 DEF ClientInv, Stages, MainFits, ThreadFits, ids
<1>8. PoolOK' /\ Pooled' = Pooled
  BY <1>1 DEF ClientInv, PoolOK, Pooled, pool
<1>9. OnePlace'
  BY <1>1, <1>8 DEF ClientInv, OnePlace
<1>10. Wires'
  BY <1>1, <1>3, <1>5 DEF ClientInv, Wires, Master
<1> QED
  BY <1>6, <1>7, <1>8, <1>9, <1>10 DEF ClientInv

LEMMA DialSlaveClient == ClientInv /\ DialSlave => ClientInv'
<1> SUFFICES ASSUME ClientInv, DialSlave PROVE ClientInv'
  OBVIOUS
<1>1. PICK s \in Slaves, c \in Cores :
        <<session, s>> \notin Pooled /\ queue' = <<<<session, s>>>> /\ push(c, <<session, s>>)
  BY DEF DialSlave
<1>2. /\ phase = "dial" /\ phase' = IF Cardinality(Pooled) + 1 = Cardinality(Slaves) THEN "construct" ELSE "dial"
      /\ UNCHANGED <<session, ids, call, closed, wire, server, races>>
  BY DEF DialSlave
<1>3. <<session, s>> \in Mine(session) \ Pooled /\ <<session, s>> \in Conns
  BY <1>1, <1>2, MineConns DEF Mine
<1>4. PoolOK' /\ Pooled' = Pooled \cup {<<session, s>>}
  BY <1>1, <1>2, <1>3, PushStep DEF ClientInv
<1>5. call[Main] = None /\ \A t \in Threads : step[t] = "idle" /\ call[t] = None
  BY <1>2 DEF ClientInv, Stages, MainFits, ThreadFits, MainOpsAt, OpsAt
<1>6. Busy(call) = {}
  BY <1>5 DEF Busy, Callers
<1>7. Typed'
  BY <1>1, <1>2, <1>3 DEF ClientInv, Typed, server, ids
<1>8. Stages'
  BY <1>2, <1>5 DEF ClientInv, Stages, MainFits, ThreadFits, ids
<1>9. phase' = "construct" => Mine(session) \subseteq Pooled'
  <2> SUFFICES ASSUME Cardinality(Pooled) + 1 = Cardinality(Slaves) PROVE Mine(session) = Pooled'
    BY <1>2
  <2>1. Pooled \in SUBSET Mine(session)
    BY DEF ClientInv, PoolOK, Pooled
  <2>2. IsFiniteSet(Mine(session)) /\ Cardinality(Mine(session)) = Cardinality(Slaves)
    BY MineFinite
  <2>3. IsFiniteSet(Pooled)
    BY <2>1, <2>2, FS_Subset
  <2>4. Cardinality(Pooled \cup {<<session, s>>}) = Cardinality(Pooled) + 1
    BY <1>1, <2>3, FS_AddElement
  <2>5. Pooled \cup {<<session, s>>} \in SUBSET Mine(session)
    BY <1>3, <2>1
  <2> QED
    BY <1>4, <2>2, <2>4, <2>5, FS_Subset
<1>10. OnePlace'
  BY <1>2, <1>5, <1>6, <1>9 DEF ClientInv, OnePlace
<1>11. Wires'
  BY <1>2 DEF ClientInv, Wires, Master
<1> QED
  BY <1>4, <1>7, <1>8, <1>10, <1>11 DEF ClientInv

LEMMA ConstructedClient == ClientInv /\ Constructed => ClientInv'
<1> SUFFICES ASSUME ClientInv, Constructed PROVE ClientInv'
  OBVIOUS
<1>1. /\ phase = "construct" /\ Finish(Main, "construct") /\ phase' = "run"
      /\ available_ds_ids_' = DSIds
      /\ UNCHANGED <<session, owns, step, closed, queue, server, races>>
  BY DEF Constructed
<1>2. Main \in Callers /\ Main \notin Threads
  BY IdsAssumption DEF Callers
<1>3. /\ PoolOK' /\ OnePlace' /\ Wires' /\ wire' \in Wiring
      /\ call' \in [Callers -> [conn : Conns, req : Requests] \cup {None}]
      /\ call'[Main] = None /\ \A u \in Callers : u # Main => call'[u] = call[u]
  BY <1>1, <1>2, FinishStep
<1>4. Typed'
  BY <1>1, <1>3, IdsAssumption DEF ClientInv, Typed, server
<1>5. MainFits'
  BY <1>1, <1>3 DEF ClientInv, Stages, MainFits
<1>6. ASSUME NEW u \in Threads PROVE ThreadFits(u)'
  BY <1>1, <1>2, <1>3 DEF ClientInv, Stages, ThreadFits, Callers
<1> QED
  BY <1>3, <1>4, <1>5, <1>6 DEF ClientInv, Stages

LEMMA WriteBackAckClient == ClientInv /\ WriteBackAck => ClientInv'
<1> SUFFICES ASSUME ClientInv, WriteBackAck PROVE ClientInv'
  OBVIOUS
<1>1. Finish(Main, "write") /\ UNCHANGED <<session, phase, ids, closed, queue, server, races>>
  BY DEF WriteBackAck
<1>2. Main \in Callers /\ Main \notin Threads /\ phase = "run"
  BY <1>1, IdsAssumption DEF Callers, Finish, ClientInv, Typed, Stages, MainFits, MainOpsAt
<1>3. /\ PoolOK' /\ OnePlace' /\ Wires' /\ wire' \in Wiring
      /\ call' \in [Callers -> [conn : Conns, req : Requests] \cup {None}]
      /\ call'[Main] = None /\ \A u \in Callers : u # Main => call'[u] = call[u]
  BY <1>1, <1>2, FinishStep
<1>4. Typed'
  BY <1>1, <1>3 DEF ClientInv, Typed, server, ids
<1>5. MainFits'
  BY <1>1, <1>2, <1>3 DEF ClientInv, Stages, MainFits
<1>6. ASSUME NEW u \in Threads PROVE ThreadFits(u)'
  BY <1>1, <1>2, <1>3 DEF ClientInv, Stages, ThreadFits, Callers, ids
<1> QED
  BY <1>3, <1>4, <1>5, <1>6 DEF ClientInv, Stages

LEMMA ShutdownClient == ClientInv /\ Shutdown => ClientInv'
<1> SUFFICES ASSUME ClientInv, Shutdown PROVE ClientInv'
  OBVIOUS
<1>1. /\ phase = "destruct" /\ call[Main] # None
      /\ wire' = [wire EXCEPT ![call[Main].conn] = Tail(@), ![Master] = <<[op |-> "Shutdown"]>>]
      /\ call' = [call EXCEPT ![Main] = None] /\ phase' = "bye"
      /\ UNCHANGED <<session, ids, closed, queue, server, races>>
  BY DEF Shutdown
<1>2. Main \in Callers /\ Main \notin Threads
  BY IdsAssumption DEF Callers
<1>3. PICK c \in Cores : push(c, call[Main].conn)
  BY DEF Shutdown
<1>4. /\ PoolOK' /\ OnePlace'
      /\ call' \in [Callers -> [conn : Conns, req : Requests] \cup {None}]
      /\ call'[Main] = None /\ \A u \in Callers : u # Main => call'[u] = call[u]
      /\ Busy(call') = Busy(call) \ {call[Main].conn}
      /\ call[Main].conn \in Busy(call) /\ call[Main].conn \in Conns /\ call[Main].conn # Master
      /\ wire[call[Main].conn] # <<>>
  BY <1>1, <1>2, <1>3, GiveBack
<1>5. Master \in Conns
  BY <1>1, MineConns
<1>6. /\ wire' \in Wiring /\ wire'[call[Main].conn] = <<>> /\ wire'[Master] # <<>>
      /\ \A d \in Conns : d # call[Main].conn /\ d # Master => wire'[d] = wire[d]
  <2>1. PICK msg \in Messages : wire[call[Main].conn] = <<msg>>
    BY <1>4 DEF ClientInv, Typed, Wiring
  <2>2. Tail(wire[call[Main].conn]) = <<>>
    BY <2>1, OneMessage
  <2>3. [op |-> "Shutdown"] \in Messages
    BY DEF Messages, Commands
  <2>4. /\ wire'[call[Main].conn] = <<>> /\ wire'[Master] = <<[op |-> "Shutdown"]>>
        /\ \A d \in Conns : d # call[Main].conn /\ d # Master => wire'[d] = wire[d]
    BY <1>1, <1>4, <1>5, <2>2 DEF ClientInv, Typed, Wiring
  <2>5. wire' \in Wiring
    BY <1>1, <1>4, <1>5, <2>2, <2>3 DEF ClientInv, Typed, Wiring
  <2> QED
    BY <2>4, <2>5, OneMessage
<1>7. Typed'
  BY <1>1, <1>4, <1>6 DEF ClientInv, Typed, server, ids
<1>8. \A t \in Threads : step[t] = "idle" /\ call[t] = None
  BY <1>1 DEF ClientInv, Stages, ThreadFits, OpsAt
<1>9. Stages'
  BY <1>1, <1>2, <1>4, <1>8 DEF ClientInv, Stages, MainFits, ThreadFits, Callers, ids
<1>10. Wires'
  BY <1>1, <1>4, <1>5, <1>6 DEF ClientInv, Wires, Master
<1> QED
  BY <1>4, <1>7, <1>9, <1>10 DEF ClientInv

LEMMA CloseClient == ClientInv /\ Close => ClientInv'
<1> SUFFICES ASSUME ClientInv, Close PROVE ClientInv'
  OBVIOUS
<1>1. /\ phase = "bye" /\ phase' = "off" /\ wire[Master] # <<>>
      /\ wire' = [wire EXCEPT ![Master] = Tail(@)]
      /\ closed' = closed \cup {Master} \cup Pooled
      /\ cache_' = [c \in Cores |-> {}] /\ global_pool_' = {}
      /\ UNCHANGED <<session, ids, call, queue, server, races>>
  BY DEF Close, Replied
<1>2. Master \in Conns /\ Pooled \subseteq Conns
  BY <1>1, MineConns DEF ClientInv, PoolOK, Pooled
<1>3. wire' \in Wiring /\ wire'[Master] = <<>> /\ \A d \in Conns : d # Master => wire'[d] = wire[d]
  BY <1>1, <1>2, ReadOff DEF ClientInv, Typed
<1>4. call[Main] = None /\ \A t \in Threads : step[t] = "idle" /\ call[t] = None
  BY <1>1 DEF ClientInv, Stages, MainFits, ThreadFits, MainOpsAt, OpsAt
<1>5. Busy(call) = {}
  BY <1>4 DEF Busy, Callers
<1>6. Typed'
  BY <1>1, <1>2, <1>3 DEF ClientInv, Typed, server, ids
<1>7. Stages'
  BY <1>1, <1>4 DEF ClientInv, Stages, MainFits, ThreadFits, ids
<1>8. PoolOK' /\ Pooled' = {}
  <2>1. Cardinality({}) <= K
    BY BatchAssumption, FS_EmptySet DEF K
  <2> QED
    BY <1>1, <2>1 DEF PoolOK, Pooled, K
<1>9. OnePlace'
  BY <1>1, <1>5, <1>4, <1>8 DEF ClientInv, OnePlace
<1>10. Wires'
  BY <1>1, <1>3, <1>5 DEF ClientInv, Wires, Master
<1> QED
  BY <1>6, <1>7, <1>8, <1>9, <1>10 DEF ClientInv

LEMMA MainAsksClient ==
  ASSUME ClientInv, ConstructVanilla \/ DestructVanilla \/ \E t \in Threads : WriteBack(t)
  PROVE  ClientInv'
<1>1. CASE ConstructVanilla
  <2> DEFINE req == [op |-> "construct", id |-> kVanillaPtrDSID]
  <2>1. /\ req \in Requests /\ req.op = "construct" /\ req.id = kVanillaPtrDSID
    BY RequestTyped DEF AllIds
  <2>2. /\ Ask(Main, req) /\ phase = "construct" /\ phase' = phase
        /\ UNCHANGED <<session, ids, closed, queue, server>>
    BY <1>1 DEF ConstructVanilla
  <2>3. \A t \in Threads : step[t] = "idle"
    BY <2>2 DEF ClientInv, Stages, ThreadFits
  <2>4. req.op \in MainOpsAt(phase')
    BY <2>1, <2>2 DEF MainOpsAt
  <2> HIDE DEF req
  <2> QED
    BY <2>1, <2>2, <2>3, <2>4, MainAsks
<1>2. CASE DestructVanilla
  <2> DEFINE req == [op |-> "destruct", id |-> kVanillaPtrDSID]
  <2>1. /\ req \in Requests /\ req.op = "destruct" /\ req.id = kVanillaPtrDSID
    BY RequestTyped DEF AllIds
  <2>2. /\ Ask(Main, req) /\ phase = "run" /\ phase' = "destruct"
        /\ UNCHANGED <<session, ids, closed, queue, server>>
        /\ \A t \in Threads : step[t] = "idle"
    BY <1>2 DEF DestructVanilla
  <2>4. req.op \in MainOpsAt(phase')
    BY <2>1, <2>2 DEF MainOpsAt
  <2> HIDE DEF req
  <2> QED
    BY <2>1, <2>2, <2>4, MainAsks
<1>3. CASE \E t \in Threads : WriteBack(t)
  <2> PICK t \in Threads : WriteBack(t)
    BY <1>3
  <2> DEFINE req == [op |-> "write", id |-> owns[t], val |-> t]
  <2>1. owns[t] \in Ids
    BY DEF WriteBack, ClientInv, Typed
  <2>2. req \in Requests /\ req.op = "write" /\ req.id = owns[t] /\ req.val = t
    BY <2>1, RequestTyped DEF AllIds, Vals
  <2>3. /\ Ask(Main, req) /\ phase = "run" /\ phase' = phase
        /\ UNCHANGED <<session, ids, closed, queue, server>>
    BY DEF WriteBack
  <2>4. req.op \in MainOpsAt(phase')
    BY <2>2, <2>3 DEF MainOpsAt
  <2> HIDE DEF req
  <2> QED
    BY <2>1, <2>2, <2>3, <2>4, MainAsks
<1> QED
  BY <1>1, <1>2, <1>3

LEMMA ThreadAsksClient ==
  ASSUME ClientInv, NEW t \in Threads, Construct(t) \/ Read(t) \/ Write(t) \/ Destruct(t)
  PROVE  ClientInv'
<1>1. step[t] \in {"new", "empty", "written", "delete"}
  BY DEF Construct, Read, Write, Destruct
<1>2. owns[t] \in Ids
  BY <1>1 DEF ClientInv, Stages, ThreadFits
<1>3. owns[t] \in AllIds /\ t \in Vals
  BY <1>2 DEF AllIds, Vals
<1>4. PICK req \in Requests :
        /\ req.op \in OpsAt(step[t]) /\ req.id = owns[t] /\ (req.op = "write" => req.val = t)
        /\ Ask(t, req) /\ UNCHANGED <<session, phase, ids, closed, queue, server>>
  <2>1. CASE Construct(t)
    <3>1. [op |-> "construct", id |-> owns[t]] \in Requests
      BY <1>3, RequestTyped
    <3> QED
      BY <2>1, <3>1 DEF Construct, OpsAt
  <2>2. CASE Read(t)
    <3>1. [op |-> "read", id |-> owns[t]] \in Requests
      BY <1>3, RequestTyped
    <3> QED
      BY <2>2, <3>1 DEF Read, OpsAt
  <2>3. CASE Write(t)
    <3>1. [op |-> "write", id |-> owns[t], val |-> t] \in Requests
      BY <1>3, RequestTyped
    <3> QED
      BY <2>3, <3>1 DEF Write, OpsAt
  <2>4. CASE Destruct(t)
    <3>1. [op |-> "destruct", id |-> owns[t]] \in Requests
      BY <1>3, RequestTyped
    <3> QED
      BY <2>4, <3>1 DEF Destruct, OpsAt
  <2> QED
    BY <2>1, <2>2, <2>3, <2>4
<1> QED
  BY <1>1, <1>4, ThreadAsks

LEMMA ThreadFinishesClient ==
  ASSUME ClientInv, NEW t \in Threads, ConstructAck(t) \/ ReadReply(t) \/ WriteAck(t) \/ DestructAck(t)
  PROVE  ClientInv'
<1>1. PICK o \in {"construct", "read", "write", "destruct"} : Finish(t, o)
  BY DEF ConstructAck, ReadReply, WriteAck, DestructAck
<1>2. UNCHANGED <<session, phase, available_ds_ids_, owns, closed, queue, server>>
  BY DEF ConstructAck, ReadReply, WriteAck, DestructAck, ids
<1>3. step[t] # "idle"
  BY <1>1 DEF Finish, ClientInv, Stages, ThreadFits, OpsAt
<1>4. /\ step' \in [Threads -> Steps] /\ step'[t] # "idle"
      /\ \A u \in Threads : u # t => step'[u] = step[u]
  BY <1>3 DEF ConstructAck, ReadReply, WriteAck, DestructAck, ids, ClientInv, Typed, Steps
<1> QED
  BY <1>1, <1>2, <1>4, ThreadFinishes

LEMMA IdsClient ==
  ASSUME ClientInv, NEW t \in Threads, Front(t) \/ Pop(t) \/ FreeId(t) \/ Drop(t)
  PROVE  ClientInv'
<1>1. UNCHANGED <<session, phase, pool, call, closed, wire, queue, server>>
  BY DEF Front, Pop, FreeId, Drop
<1>2. phase = "run" /\ call[t] = None
  BY DEF Front, Pop, FreeId, Drop, ClientInv, Stages, ThreadFits, OpsAt
<1>3. available_ds_ids_' \in Seq(Ids)
  <2>1. available_ds_ids_ \in Seq(Ids)
    BY DEF ClientInv, Typed
  <2>2. CASE Pop(t)
    BY <2>1, <2>2 DEF Pop
  <2>3. CASE FreeId(t)
    BY <2>1, <2>3 DEF FreeId, ClientInv, Stages, ThreadFits
  <2> QED
    BY <2>1, <2>2, <2>3 DEF Front, Drop
<1>4. /\ step' \in [Threads -> Steps] /\ owns' \in [Threads -> Ids \cup {None}]
      /\ step'[t] # "idle" => owns'[t] \in Ids
      /\ \A u \in Threads : u # t => step'[u] = step[u] /\ owns'[u] = owns[u]
  <2>1. CASE Front(t)
    <3>1. Head(available_ds_ids_) \in Ids
      BY <2>1 DEF Front, ClientInv, Typed
    <3> QED
      BY <2>1, <3>1 DEF Front, ClientInv, Typed, Steps
  <2>2. CASE Pop(t)
    BY <2>2 DEF Pop, ClientInv, Typed, Stages, ThreadFits, Steps
  <2>3. CASE FreeId(t)
    BY <2>3 DEF FreeId, ClientInv, Typed, Stages, ThreadFits, Steps
  <2>4. CASE Drop(t)
    BY <2>4 DEF Drop, ClientInv, Typed, Steps
  <2> QED
    BY <2>1, <2>2, <2>3, <2>4
<1> QED
  BY <1>1, <1>2, <1>3, <1>4, IdFrame

\* What a slave's reply is made of.
LEMMA ReplyTyped ==
  ASSUME ClientInv, NEW c \in Conns, slave_fn(c)
  PROVE  LET req == wire[c][1]
             msg == [re |-> req.op, id |-> req.id, val |-> server_ds_ptrs_[Target(req.id)]] IN
           /\ wire[c] # <<>> /\ req \in Requests /\ msg \in Messages /\ Answer(c, msg)
           /\ server_ds_ptrs_' = Contents(req) /\ ~Refused(req)
           /\ server_ds_ptrs_' \in [AllIds -> Vals \cup {None}]
<1> DEFINE req == wire[c][1]
           msg == [re |-> req.op, id |-> req.id, val |-> server_ds_ptrs_[Target(req.id)]]
<1>1. /\ wire[c] # <<>> /\ "op" \in DOMAIN req /\ ~Refused(req) /\ Answer(c, msg)
      /\ server_ds_ptrs_' = Contents(req)
  BY DEF slave_fn, Asked
<1>2. PICK m \in Messages : wire[c] = <<m>>
  BY <1>1 DEF ClientInv, Typed, Wiring
<1>3. req = m
  BY <1>2, OneMessage
<1>4. m \in Requests \cup [op : Commands]
  BY <1>1, <1>3, Addressed
<1>5. m \in Requests
  BY <1>1, <1>3, <1>4 DEF Refused, Commands
<1>6. /\ m.op \in {"construct", "destruct", "read", "write"} /\ m.id \in AllIds
      /\ m.op = "write" => m.val \in Vals
  BY <1>5, RequestTyped
<1>7. Target(m.id) \in AllIds /\ server_ds_ptrs_[Target(m.id)] \in Vals \cup {None}
  BY <1>6 DEF Target, AllIds, ClientInv, Typed
<1>8. msg \in Messages
  BY <1>3, <1>6, <1>7 DEF Messages
<1>9. Contents(m) \in [AllIds -> Vals \cup {None}]
  <2>1. Fresh \in Vals /\ server_ds_ptrs_ \in [AllIds -> Vals \cup {None}]
    BY DEF Vals, ClientInv, Typed
  <2> QED
    BY <1>6, <1>7, <2>1 DEF Contents
<1> QED
  BY <1>1, <1>3, <1>5, <1>8, <1>9

LEMMA ServerClient ==
  ASSUME ClientInv, Acceptor \/ \E c \in Conns : Serve(c)
  PROVE  ClientInv'
<1>t. /\ wire \in Wiring /\ thread \in [Conns -> Kinds] /\ server_ds_ptrs_ \in [AllIds -> Vals \cup {None}]
      /\ marking \in BOOLEAN /\ has_shutdown \in BOOLEAN /\ bug \in BOOLEAN
      /\ queue = <<>> \/ \E c \in Conns : queue = <<c>>
  BY DEF ClientInv, Typed
<1>1. CASE Accept
  <2>1. PICK c \in Conns : queue = <<c>>
    BY <1>1, <1>t DEF Accept
  <2>2. Head(queue) = c /\ Tail(queue) = <<>>
    BY <2>1
  <2>3. thread' \in [Conns -> Kinds]
    BY <1>1, <1>t, <2>2 DEF Accept, Kinds
  <2>4. /\ queue' = <<>> /\ marking' \in BOOLEAN
        /\ UNCHANGED <<client, wire, has_shutdown, server_ds_ptrs_, bug>>
    BY <1>1, <1>t, <2>2 DEF Accept
  <2> QED
    BY <1>t, <2>3, <2>4, ServerFrame
<1>2. CASE Mark
  <2>1. /\ marking' = FALSE /\ has_shutdown' = FALSE
        /\ UNCHANGED <<client, wire, queue, thread, server_ds_ptrs_, bug>>
    BY <1>2 DEF Mark
  <2> QED
    BY <1>t, <2>1, ServerFrame
<1>3. ASSUME NEW c \in Conns, process_init(c) \/ process_shutdown(c) PROVE ClientInv'
  <2>1. wire[c] # <<>>
    BY <1>3 DEF process_init, process_shutdown, Asked
  <2>2. PICK msg \in [re : Commands] : Answer(c, msg)
    BY <1>3 DEF process_init, process_shutdown, Commands
  <2>3. msg \in Messages
    BY DEF Messages
  <2>4. wire' \in Wiring /\ wire'[c] # <<>> /\ \A d \in Conns : d # c => wire'[d] = wire[d]
    BY <1>t, <2>1, <2>2, <2>3, AnswerOn
  <2>5. thread' \in [Conns -> Kinds]
    BY <1>3, <1>t DEF process_init, process_shutdown, Kinds
  <2>6. UNCHANGED <<client, queue, marking, has_shutdown, server_ds_ptrs_, bug>>
    BY <1>3 DEF process_init, process_shutdown
  <2> QED
    BY <1>t, <2>1, <2>4, <2>5, <2>6, ServerFrame
<1>4. ASSUME NEW c \in Conns, Joined(c) \/ SlaveEnds(c) \/ SlaveBug(c) PROVE ClientInv'
  <2>1. thread' \in [Conns -> Kinds] /\ has_shutdown' \in BOOLEAN /\ bug' \in BOOLEAN
    BY <1>4, <1>t DEF Joined, SlaveEnds, SlaveBug, Kinds
  <2>2. UNCHANGED <<client, wire, queue, marking, server_ds_ptrs_>>
    BY <1>4 DEF Joined, SlaveEnds, SlaveBug
  <2> QED
    BY <1>t, <2>1, <2>2, ServerFrame
<1>5. ASSUME NEW c \in Conns, slave_fn(c) PROVE ClientInv'
  <2>1. PICK msg \in Messages : Answer(c, msg)
    BY <1>5, ReplyTyped
  <2>2. wire[c] # <<>> /\ server_ds_ptrs_' \in [AllIds -> Vals \cup {None}]
    BY <1>5, ReplyTyped
  <2>3. wire' \in Wiring /\ wire'[c] # <<>> /\ \A d \in Conns : d # c => wire'[d] = wire[d]
    BY <1>t, <2>1, <2>2, AnswerOn
  <2>4. UNCHANGED <<client, queue, marking, has_shutdown, thread, bug>>
    BY <1>5 DEF slave_fn
  <2> QED
    BY <1>t, <2>2, <2>3, <2>4, ServerFrame
<1> QED
  BY <1>1, <1>2, <1>3, <1>4, <1>5 DEF Acceptor, Serve

LEMMA ClientStep == ClientInv /\ [Next]_vars => ClientInv'
<1> SUFFICES ASSUME ClientInv, [Next]_vars PROVE ClientInv'
  OBVIOUS
<1>1. CASE DialMaster \/ Device \/ DestructVanilla
  BY <1>1, DialMasterClient, InitAckClient, DialSlaveClient, ConstructedClient, WriteBackAckClient,
     ShutdownClient, CloseClient, MainAsksClient DEF Device
<1>2. ASSUME NEW t \in Threads, Proceed(t) \/ Choose(t) PROVE ClientInv'
  BY <1>2, ThreadAsksClient, ThreadFinishesClient, IdsClient, MainAsksClient DEF Proceed, Choose
<1>3. CASE Acceptor \/ \E c \in Conns : Serve(c)
  BY <1>3, ServerClient
<1>4. CASE UNCHANGED vars
  <2>1. /\ UNCHANGED client /\ wire' = wire /\ queue' = queue /\ UNCHANGED server
    BY <1>4 DEF vars
  <2>2. /\ wire' \in Wiring /\ thread' \in [Conns -> Kinds]
        /\ server_ds_ptrs_' \in [AllIds -> Vals \cup {None}]
        /\ marking' \in BOOLEAN /\ has_shutdown' \in BOOLEAN /\ bug' \in BOOLEAN
    BY <2>1 DEF ClientInv, Typed, server
  <2> QED
    BY <2>1, <2>2, ServerFrame
<1> QED
  BY <1>1, <1>2, <1>3, <1>4 DEF Next

-----------------------------------------------------------------------------
\* The server's invariant, action by action.

LEMMA ServerInit == Init => ServerInv
<1> SUFFICES ASSUME Init PROVE ServerInv
  OBVIOUS
<1>1. KindsFit
  BY DEF Init, KindsFit, Kinds
<1>2. OneHolder
  BY IdsAssumption DEF Init, OneHolder, Holding
<1>3. Stored /\ Vanilla /\ Answers
  BY DEF Init, Stored, Vanilla, Answers, Holding, AllIds, Callers
<1> QED
  BY <1>1, <1>2, <1>3 DEF Init, ServerInv

\* A step that leaves calls, their connections and the data structures alone.
LEMMA DataFrame ==
  ASSUME ServerInv, UNCHANGED <<call, owns, step, server_ds_ptrs_>>,
         \A t \in Callers : call[t] # None => wire'[call[t].conn] = wire[call[t].conn]
  PROVE  Stored' /\ Answers' /\ (Served(call, wire, Main) <=> Served(call', wire', Main))
<1>1. ASSUME NEW t \in Callers PROVE Served(call, wire, t) <=> Served(call', wire', t)
  BY DEF Served
<1>2. Stored'
  <2>1. ASSUME NEW t \in Threads, step[t] \in Holding PROVE Holds(t, server_ds_ptrs_[owns[t]])'
    BY <1>1, <2>1 DEF ServerInv, Stored, Holds, Callers
  <2> QED
    BY <2>1 DEF ServerInv, Stored
<1>3. ASSUME NEW t \in Callers, call[t] # None PROVE ReplyFits(t)'
  BY <1>1, <1>3 DEF ServerInv, Answers, ReplyFits
<1> QED
  BY <1>1, <1>2, <1>3 DEF ServerInv, Answers, Callers

LEMMA HolderFrame ==
  ASSUME OneHolder, UNCHANGED <<available_ds_ids_, owns, step>>
  PROVE  OneHolder'
BY DEF OneHolder

\* The connections of calls are slave connections of this client.
LEMMA CallConns ==
  ASSUME ClientInv, NEW t \in Callers, call[t] # None
  PROVE  /\ call[t].conn \in Conns /\ call[t].conn[2] # M /\ call[t].conn[1] = session
         /\ call[t].conn # Master
<1>1. call[t].conn \in Mine(session)
  BY DEF ClientInv, OnePlace, Busy
<1>2. call[t].conn \in Conns
  BY DEF ClientInv, Typed
<1> QED
  BY <1>1, <1>2, IdsAssumption DEF Mine, Master

\* The steps of the device's own.
LEMMA DeviceData ==
  ASSUME ClientInv, ServerInv, DialMaster \/ InitAck \/ DialSlave \/ Close
  PROVE  ServerInv'
<1>1. UNCHANGED <<call, ids, server>>
  BY DEF DialMaster, InitAck, DialSlave, Close
<1>2. call[Main] = None
  BY DEF DialMaster, InitAck, DialSlave, Close, ClientInv, Stages, MainFits, MainOpsAt
<1>3. ASSUME NEW t \in Callers, call[t] # None PROVE wire'[call[t].conn] = wire[call[t].conn]
  <2>1. /\ call[t].conn \in Conns /\ call[t].conn # Master /\ call[t].conn # <<session + 1, M>>
    BY <1>3, CallConns
  <2>2. \A c \in Conns : c # Master /\ c # <<session + 1, M>> => wire'[c] = wire[c]
    BY DEF DialMaster, InitAck, DialSlave, Close, Send, ClientInv, Typed, Wiring
  <2> QED
    BY <2>1, <2>2
<1>4. Stored' /\ Answers' /\ ~Served(call', wire', Main)
  BY <1>1, <1>2, <1>3, DataFrame DEF ids, server, Served
<1>5. OneHolder'
  BY <1>1, HolderFrame DEF ServerInv, ids
<1>6. Vanilla'
  BY <1>1, <1>2, <1>4 DEF ServerInv, Vanilla, server, Served, DialMaster, InitAck, DialSlave, Close
<1> QED
  BY <1>1, <1>4, <1>5, <1>6 DEF ServerInv, KindsFit, server

\* A request changes nothing for anybody until it is answered.
LEMMA AskData ==
  ASSUME ClientInv, ServerInv, NEW t \in Callers, NEW req \in Requests, Ask(t, req),
         phase \in {"construct", "run"}, phase' \in {"construct", "run", "destruct"},
         phase' # phase => t = Main /\ phase = "run" /\ phase' = "destruct",
         UNCHANGED <<session, ids, server>>,
         t = Main /\ req.op = "write" =>
           \A u \in Threads : req.val = u => step[u] = "written" /\ owns[u] = req.id
  PROVE  ServerInv'
<1>1. /\ call[t] = None
      /\ \E conn \in Pooled :
           /\ conn \in Conns /\ wire'[conn] = <<req>> /\ \A d \in Conns : d # conn => wire'[d] = wire[d]
           /\ call'[t] # None /\ call'[t].conn = conn /\ call'[t].req = req
           /\ \A u \in Callers : u # t => call'[u] = call[u]
  BY AskStep
<1>2. PICK conn \in Pooled :
        /\ conn \in Conns /\ wire'[conn] = <<req>> /\ \A d \in Conns : d # conn => wire'[d] = wire[d]
        /\ call'[t] # None /\ call'[t].conn = conn /\ call'[t].req = req
        /\ \A u \in Callers : u # t => call'[u] = call[u]
  BY <1>1
<1>3. ASSUME NEW u \in Callers, u # t, call[u] # None PROVE wire'[call[u].conn] = wire[call[u].conn]
  <2>1. call[u].conn # conn /\ call[u].conn \in Conns
    BY <1>3 DEF ClientInv, OnePlace, Busy, Typed
  <2> QED
    BY <1>2, <2>1
<1>4. ~Served(call, wire, t) /\ ~Served(call', wire', t)
  <2>1. ~Served(call, wire, t)
    BY <1>1 DEF Served
  <2>2. wire'[conn][1] = req /\ "re" \notin DOMAIN req
    BY <1>2, OneMessage, Addressed
  <2> QED
    BY <1>2, <2>1, <2>2 DEF Served
<1>5. ASSUME NEW u \in Callers PROVE Served(call, wire, u) <=> Served(call', wire', u)
  <2>1. CASE u = t
    BY <1>4, <2>1
  <2>2. CASE u # t
    BY <1>2, <1>3, <2>2 DEF Served
  <2> QED
    BY <2>1, <2>2
<1>6. Stored'
  <2>1. ASSUME NEW u \in Threads, step[u] \in Holding PROVE Holds(u, server_ds_ptrs_[owns[u]])'
    <3>1. u \in Callers
      BY DEF Callers
    <3>2. Served(call', wire', u) => call'[u] = call[u]
      BY <1>2, <1>4, <3>1
    <3>3. Holds(u, server_ds_ptrs_[owns[u]])
      BY <2>1 DEF ServerInv, Stored
    <3> QED
      BY <1>5, <3>1, <3>2, <3>3 DEF Holds, ids, server
  <2> QED
    BY <2>1 DEF ServerInv, Stored, ids, server
<1>7. Vanilla'
  <2>1. server_ds_ptrs_' = server_ds_ptrs_
    BY DEF server
  <2>3. Served(call, wire, Main) <=> Served(call', wire', Main)
    BY <1>5 DEF Callers
  <2>4. phase' = "destruct" => ~Served(call, wire, Main)
    BY <1>4
  <2> QED
    BY <2>1, <2>3, <2>4 DEF ServerInv, Vanilla
<1>8. Answers'
  <2>1. ASSUME NEW u \in Callers, call'[u] # None PROVE ReplyFits(u)'
    <3>1. CASE u = t
      BY <1>2, <1>4, <3>1 DEF ReplyFits
    <3>2. CASE u # t
      BY <1>2, <1>3, <1>5, <2>1, <3>2 DEF ServerInv, Answers, ReplyFits, ids
    <3> QED
      BY <3>1, <3>2
  <2>2. ASSUME NEW u \in Threads, call'[Main] # None, call'[Main].req.op = "write", call'[Main].req.val = u
        PROVE  step[u] = "written" /\ owns[u] = call'[Main].req.id
    BY <1>2, <2>2 DEF ServerInv, Answers, Callers
  <2> QED
    BY <2>1, <2>2 DEF Answers, ids
<1> QED
  BY <1>6, <1>7, <1>8, HolderFrame DEF ServerInv, KindsFit, server, ids

LEMMA MainAsksData ==
  ASSUME ClientInv, ServerInv, ConstructVanilla \/ DestructVanilla \/ \E t \in Threads : WriteBack(t), races' = {}
  PROVE  ServerInv'
<1>0. Main \in Callers /\ kVanillaPtrDSID \in AllIds
  BY DEF Callers, AllIds
<1>1. CASE ConstructVanilla
  <2> DEFINE req == [op |-> "construct", id |-> kVanillaPtrDSID]
  <2>1. req \in Requests /\ req.op = "construct"
    BY <1>0, RequestTyped
  <2>2. /\ Ask(Main, req) /\ phase = "construct" /\ phase' = phase
        /\ UNCHANGED <<session, ids, server>>
    BY <1>1 DEF ConstructVanilla
  <2> HIDE DEF req
  <2> QED
    BY <1>0, <2>1, <2>2, AskData
<1>2. CASE DestructVanilla
  <2> DEFINE req == [op |-> "destruct", id |-> kVanillaPtrDSID]
  <2>1. req \in Requests /\ req.op = "destruct"
    BY <1>0, RequestTyped
  <2>2. /\ Ask(Main, req) /\ phase = "run" /\ phase' = "destruct"
        /\ UNCHANGED <<session, ids, server>>
    BY <1>2 DEF DestructVanilla
  <2> HIDE DEF req
  <2> QED
    BY <1>0, <2>1, <2>2, AskData
<1>3. CASE \E t \in Threads : WriteBack(t)
  <2> PICK t \in Threads : WriteBack(t)
    BY <1>3
  <2> DEFINE req == [op |-> "write", id |-> owns[t], val |-> t]
  <2>1. owns[t] \in AllIds /\ t \in Vals
    BY DEF WriteBack, ClientInv, Typed, AllIds, Vals
  <2>2. req \in Requests /\ req.op = "write" /\ req.id = owns[t] /\ req.val = t
    BY <2>1, RequestTyped
  <2>3. /\ Ask(Main, req) /\ phase = "run" /\ phase' = phase
        /\ UNCHANGED <<session, ids, server>>
    BY DEF WriteBack
  <2>4. step[t] = "written"
    BY DEF WriteBack, Race
  <2>5. \A u \in Threads : req.val = u => step[u] = "written" /\ owns[u] = req.id
    BY <2>2, <2>4
  <2> HIDE DEF req
  <2> QED
    BY <1>0, <2>2, <2>3, <2>5, AskData
<1> QED
  BY <1>1, <1>2, <1>3

LEMMA ThreadAsksData ==
  ASSUME ClientInv, ServerInv, NEW t \in Threads, Construct(t) \/ Read(t) \/ Write(t) \/ Destruct(t)
  PROVE  ServerInv'
<1>1. step[t] # "idle"
  BY DEF Construct, Read, Write, Destruct
<1>2. owns[t] \in AllIds /\ t \in Vals /\ phase = "run"
  BY <1>1 DEF ClientInv, Stages, ThreadFits, AllIds, Vals
<1>3. t \in Callers /\ t # Main
  BY IdsAssumption DEF Callers
<1>4. /\ [op |-> "construct", id |-> owns[t]] \in Requests /\ [op |-> "destruct", id |-> owns[t]] \in Requests
      /\ [op |-> "read", id |-> owns[t]] \in Requests /\ [op |-> "write", id |-> owns[t], val |-> t] \in Requests
  BY <1>2, RequestTyped
<1>5. PICK req \in Requests : Ask(t, req) /\ UNCHANGED <<session, phase, ids, server>>
  BY <1>4 DEF Construct, Read, Write, Destruct
<1> QED
  BY <1>2, <1>3, <1>5, AskData

\* Reading a reply: the caller goes on from what the reply has told it.
LEMMA FinishServed ==
  ASSUME ClientInv, NEW t \in Callers, NEW o, Finish(t, o),
         phase \in {"construct", "run"}, phase' \in {"construct", "run"}, session' = session
  PROVE  /\ call[t] # None /\ call[t].req.op = o /\ Served(call, wire, t)
         /\ call'[t] = None /\ ~Served(call', wire', t)
         /\ \A u \in Callers : u # t =>
              /\ call'[u] = call[u] /\ (call[u] # None => wire'[call[u].conn] = wire[call[u].conn])
              /\ Served(call, wire, u) <=> Served(call', wire', u)
<1>1. /\ call[t] # None /\ call[t].req.op = o /\ Served(call, wire, t)
      /\ call'[t] = None /\ \A u \in Callers : u # t => call'[u] = call[u]
      /\ \A d \in Conns : d # call[t].conn => wire'[d] = wire[d]
      /\ \A u \in Callers \ {t} : call[u] # None => call[u].conn # call[t].conn
  BY FinishStep
<1>2. \A u \in Callers : call[u] # None => call[u].conn \in Conns
  BY DEF ClientInv, Typed
<1> QED
  BY <1>1, <1>2 DEF Served

\* Stages of the threads' data structures that go on with the reply to a request.
After(s, o) == CASE o = "construct" -> "empty" [] o = "write" -> "written" [] o = "destruct" -> "drop" [] OTHER -> s

LEMMA ThreadFinishesData ==
  ASSUME ClientInv, ServerInv, NEW t \in Threads,
         ConstructAck(t) \/ ReadReply(t) \/ WriteAck(t) \/ DestructAck(t)
  PROVE  ServerInv'
<1>1. PICK o \in {"construct", "read", "write", "destruct"} :
        /\ Finish(t, o) /\ step'[t] = After(step[t], o)
        /\ \A u \in Threads : u # t => step'[u] = step[u]
  BY DEF ConstructAck, ReadReply, WriteAck, DestructAck, After, ids, ClientInv, Typed
<1>2. UNCHANGED <<session, phase, available_ds_ids_, owns, server>>
  BY DEF ConstructAck, ReadReply, WriteAck, DestructAck, ids
<1>3. t \in Callers /\ t # Main /\ Main \in Callers /\ phase = "run" /\ o \in OpsAt(step[t])
  BY <1>1, IdsAssumption DEF Finish, ClientInv, Stages, ThreadFits, Callers, OpsAt
<1>4. /\ call[t] # None /\ call[t].req.op = o /\ Served(call, wire, t)
      /\ call'[t] = None /\ ~Served(call', wire', t)
      /\ \A u \in Callers : u # t =>
           /\ call'[u] = call[u] /\ (call[u] # None => wire'[call[u].conn] = wire[call[u].conn])
           /\ Served(call, wire, u) <=> Served(call', wire', u)
  BY <1>1, <1>2, <1>3, FinishServed
<1>5. /\ step[t] \in Holding
      /\ \/ step[t] = "new" /\ step'[t] = "empty" /\ o = "construct"
         \/ step[t] = "empty" /\ step'[t] = "empty" /\ o = "read"
         \/ step[t] = "empty" /\ step'[t] = "written" /\ o = "write"
         \/ step[t] = "written" /\ step'[t] = "written" /\ o = "read"
         \/ step[t] = "delete" /\ step'[t] = "drop" /\ o = "destruct"
  BY <1>1, <1>3 DEF OpsAt, After, Holding
<1>6. OneHolder'
  <2>1. ASSUME NEW u \in Threads, step'[u] \in {"new", "empty", "written"} PROVE step[u] \in {"new", "empty", "written"}
    BY <1>1, <1>5, <2>1
  <2>2. ASSUME NEW u \in Threads, step'[u] \in Holding PROVE step[u] \in Holding
    BY <1>1, <1>5, <2>2
  <2> QED
    BY <1>2, <2>1, <2>2 DEF ServerInv, OneHolder
<1>7. Holds(t, server_ds_ptrs_[owns[t]])
  BY <1>5 DEF ServerInv, Stored
<1>8. Stored'
  <2>1. ASSUME NEW u \in Threads, step'[u] \in Holding PROVE Holds(u, server_ds_ptrs_[owns[u]])'
    <3>1. CASE u = t
      BY <1>2, <1>4, <1>5, <1>7, <2>1, <3>1 DEF Holds, Holding, server
    <3>2. CASE u # t
      <4>1. step'[u] = step[u] /\ u \in Callers /\ Holds(u, server_ds_ptrs_[owns[u]])
        BY <1>1, <2>1, <3>2 DEF ServerInv, Stored, Callers
      <4> QED
        BY <1>2, <1>4, <3>2, <4>1 DEF Holds, server
    <3> QED
      BY <3>1, <3>2
  <2>2. ASSUME NEW i \in Ids, server_ds_ptrs_[i] # None PROVE \E u \in Threads : step'[u] \in Holding /\ owns[u] = i
    <3>1. PICK u \in Threads : step[u] \in Holding /\ owns[u] = i
      BY <2>2 DEF ServerInv, Stored
    <3>2. CASE u # t
      BY <1>1, <3>1, <3>2
    <3>3. CASE u = t
      BY <1>4, <1>5, <1>7, <2>2, <3>1, <3>3 DEF Holds, Holding
    <3> QED
      BY <3>2, <3>3
  <2> QED
    BY <1>2, <2>1, <2>2 DEF Stored, server
<1>9. Vanilla'
  BY <1>2, <1>3, <1>4 DEF ServerInv, Vanilla, server
<1>10. Answers'
  <2>1. ASSUME NEW u \in Callers, call'[u] # None PROVE ReplyFits(u)'
    <3>1. u # t /\ call[u] # None /\ call'[u] = call[u] /\ wire'[call[u].conn] = wire[call[u].conn]
          /\ (Served(call, wire, u) <=> Served(call', wire', u))
      BY <1>4, <2>1
    <3>2. ReplyFits(u)
      BY <3>1 DEF ServerInv, Answers
    <3>3. CASE u \in Threads
      BY <1>1, <3>1, <3>2, <3>3 DEF ReplyFits
    <3>4. CASE u = Main
      <4>1. call[u].req.op = "write"
        BY <1>3, <3>1, <3>4 DEF ClientInv, Stages, MainFits, MainOpsAt
      <4> QED
        BY <3>1, <3>2, <4>1 DEF ReplyFits
    <3> QED
      BY <3>3, <3>4 DEF Callers
  <2>2. ASSUME NEW u \in Threads, call'[Main] # None, call'[Main].req.op = "write", call'[Main].req.val = u
        PROVE  step'[u] = "written" /\ owns[u] = call'[Main].req.id
    <3>1. call'[Main] = call[Main]
      BY <1>3, <1>4
    <3>2. step[u] = "written" /\ owns[u] = call'[Main].req.id
      BY <2>2, <3>1 DEF ServerInv, Answers
    <3> QED
      BY <1>1, <1>5, <3>2
  <2> QED
    BY <1>2, <2>1, <2>2 DEF Answers
<1> QED
  BY <1>2, <1>6, <1>8, <1>9, <1>10 DEF ServerInv, KindsFit, server

LEMMA MainFinishesData ==
  ASSUME ClientInv, ServerInv, Constructed \/ WriteBackAck \/ Shutdown
  PROVE  ServerInv'
<1>0. Main \in Callers /\ Main \notin Threads
  BY IdsAssumption DEF Callers
<1>1. UNCHANGED <<session, owns, step, server>>
  BY DEF Constructed, WriteBackAck, Shutdown, ids
<1>2. call[Main] # None
  BY DEF Constructed, WriteBackAck, Shutdown, Finish
<1>3. \/ Constructed /\ phase = "construct" /\ phase' = "run"
      \/ WriteBackAck /\ phase = "run" /\ phase' = "run"
      \/ Shutdown /\ phase = "destruct" /\ phase' = "bye"
  BY DEF Constructed, WriteBackAck, Shutdown, Finish, ClientInv, Stages, MainFits, MainOpsAt
<1>4. /\ Served(call, wire, Main) /\ call'[Main] = None /\ ~Served(call', wire', Main)
      /\ \A u \in Threads : /\ call'[u] = call[u] /\ (call[u] # None => wire'[call[u].conn] = wire[call[u].conn])
                            /\ Served(call, wire, u) <=> Served(call', wire', u)
  <2>1. CASE Constructed \/ WriteBackAck
    <3>1. PICK o : Finish(Main, o)
      BY <2>1 DEF Constructed, WriteBackAck
    <3>2. phase \in {"construct", "run"} /\ phase' \in {"construct", "run"}
      BY <2>1, <1>3 DEF Constructed, WriteBackAck, Shutdown, ids
    <3> QED
      BY <1>0, <1>1, <3>1, <3>2, FinishServed DEF Callers
  <2>2. CASE Shutdown
    <3>1. Served(call, wire, Main)
      BY <2>2 DEF Shutdown, Served, Replied
    <3>2. call'[Main] = None /\ \A u \in Threads : call'[u] = call[u]
      BY <1>0, <2>2 DEF Shutdown, ClientInv, Typed, Callers
    <3>3. \A u \in Threads : call[u] = None
      BY <1>3, <2>2 DEF Shutdown, ClientInv, Stages, ThreadFits, OpsAt
    <3> QED
      BY <3>1, <3>2, <3>3 DEF Served
  <2> QED
    BY <2>1, <2>2, <1>3
<1>5. OneHolder'
  <2>1. CASE Constructed
    <3>1. \A t \in Threads : step'[t] = "idle"
      BY <1>1, <2>1 DEF Constructed, ClientInv, Stages, ThreadFits
    <3>2. available_ds_ids_' = DSIds
      BY <2>1 DEF Constructed
    <3> QED
      BY <3>1, <3>2, IdsAssumption DEF OneHolder, Holding
  <2>2. CASE WriteBackAck \/ Shutdown
    <3>1. available_ds_ids_' = available_ds_ids_
      BY <2>2 DEF WriteBackAck, Shutdown, ids
    <3> QED
      BY <1>1, <3>1, HolderFrame DEF ServerInv
  <2> QED
    BY <2>1, <2>2
<1>6. Stored'
  <2>1. ASSUME NEW u \in Threads, step[u] \in Holding PROVE Holds(u, server_ds_ptrs_[owns[u]])'
    <3>1. Holds(u, server_ds_ptrs_[owns[u]])
      BY <2>1 DEF ServerInv, Stored
    <3> QED
      BY <1>1, <1>4, <3>1 DEF Holds, server
  <2> QED
    BY <1>1, <2>1 DEF ServerInv, Stored, server
<1>7. Vanilla'
  BY <1>1, <1>3, <1>4 DEF ServerInv, Vanilla, server
<1>8. Answers'
  <2>1. ASSUME NEW u \in Callers, call'[u] # None PROVE ReplyFits(u)'
    <3>1. u \in Threads
      BY <1>4, <2>1 DEF Callers
    <3>2. ReplyFits(u) /\ call[u] # None
      BY <1>4, <2>1, <3>1 DEF ServerInv, Answers
    <3> QED
      BY <1>1, <1>4, <3>1, <3>2 DEF ReplyFits
  <2> QED
    BY <1>4, <2>1 DEF Answers
<1> QED
  BY <1>1, <1>5, <1>6, <1>7, <1>8 DEF ServerInv, KindsFit, server

\* Identifiers.  All that can go wrong between two threads is recorded as a race.
LEMMA FrontDropData ==
  ASSUME ClientInv, ServerInv, NEW t \in Threads, Front(t) \/ Drop(t)
  PROVE  ServerInv'
<1>1. /\ step[t] \in {"idle", "drop"} /\ step'[t] \in {"idle", "front"}
      /\ \A u \in Threads : u # t => step'[u] = step[u] /\ owns'[u] = owns[u]
      /\ UNCHANGED <<session, phase, available_ds_ids_, call, wire, server>>
  BY DEF Front, Drop, ClientInv, Typed
<1>2. t \in Callers /\ t # Main /\ call[t] = None
  BY <1>1, IdsAssumption DEF ClientInv, Stages, ThreadFits, OpsAt, Callers
<1>3. OneHolder'
  BY <1>1 DEF ServerInv, OneHolder, Holding
<1>4. Stored'
  <2>1. ASSUME NEW u \in Threads, step'[u] \in Holding PROVE Holds(u, server_ds_ptrs_[owns[u]])'
    <3>1. u # t /\ Holds(u, server_ds_ptrs_[owns[u]])
      BY <1>1, <2>1 DEF ServerInv, Stored, Holding
    <3> QED
      BY <1>1, <3>1 DEF Holds, server
  <2>2. ASSUME NEW i \in Ids, server_ds_ptrs_[i] # None PROVE \E u \in Threads : step'[u] \in Holding /\ owns'[u] = i
    BY <1>1, <2>2 DEF ServerInv, Stored, Holding
  <2> QED
    BY <1>1, <2>1, <2>2 DEF Stored, server
<1>5. Vanilla'
  BY <1>1 DEF ServerInv, Vanilla, server
<1>6. Answers'
  <2>1. ASSUME NEW u \in Callers, call[u] # None PROVE ReplyFits(u)'
    <3>1. ReplyFits(u) /\ u # t
      BY <1>2, <2>1 DEF ServerInv, Answers
    <3>2. CASE u \in Threads
      BY <1>1, <3>1, <3>2 DEF ReplyFits
    <3>3. CASE u = Main
      <4>1. call[u].req.op # "read"
        BY <2>1, <3>3 DEF ClientInv, Stages, MainFits, MainOpsAt
      <4> QED
        BY <1>1, <3>1, <4>1 DEF ReplyFits
    <3> QED
      BY <3>2, <3>3 DEF Callers
  <2> QED
    BY <1>1, <2>1 DEF ServerInv, Answers
<1> QED
  BY <1>1, <1>3, <1>4, <1>5, <1>6 DEF ServerInv, KindsFit, server

\* The identifier popped is the one read, and nobody has it.
LEMMA PopIds ==
  ASSUME ClientInv, ServerInv, NEW t \in Threads, Pop(t), races' = {}
  PROVE  /\ available_ds_ids_ # <<>> /\ owns[t] = Head(available_ds_ids_) /\ owns[t] \in Ids
         /\ \A u \in Threads : u # t /\ step[u] \in Holding => owns[u] # owns[t]
         /\ \A i, j \in DOMAIN available_ds_ids_' : available_ds_ids_'[i] = available_ds_ids_'[j] => i = j
         /\ \A i \in DOMAIN available_ds_ids_' :
              /\ available_ds_ids_'[i] # owns[t]
              /\ \E j \in DOMAIN available_ds_ids_ : available_ds_ids_[j] = available_ds_ids_'[i]
<1>1. available_ds_ids_ # <<>> /\ owns[t] = Head(available_ds_ids_)
  BY DEF Pop, Race
<1>2. \A u \in Threads \ {t} : ~(owns[u] = owns[t] /\ step[u] = "delete")
  <2>1. "early_id" \notin races'
    OBVIOUS
  <2> QED
    BY <2>1 DEF Pop, Race
<1>3. /\ available_ds_ids_ \in Seq(Ids) /\ available_ds_ids_' = Tail(available_ds_ids_)
      /\ owns[t] \in Ids
  BY <1>1 DEF Pop, ClientInv, Typed, Stages, ThreadFits
<1>4. 1 \in DOMAIN available_ds_ids_ /\ owns[t] = available_ds_ids_[1]
  BY <1>1, <1>3
<1>5. \A i \in DOMAIN available_ds_ids_' :
        /\ i + 1 \in DOMAIN available_ds_ids_ /\ available_ds_ids_'[i] = available_ds_ids_[i + 1] /\ i + 1 # 1
        /\ i \in Int
  BY <1>1, <1>3
<1>6. \A u \in Threads : u # t /\ step[u] \in Holding => owns[u] # owns[t]
  BY <1>2, <1>4 DEF ServerInv, OneHolder, Holding
<1>7. \A i, j \in DOMAIN available_ds_ids_ : available_ds_ids_[i] = available_ds_ids_[j] => i = j
  BY DEF ServerInv, OneHolder
<1>8. \A i \in DOMAIN available_ds_ids_' : available_ds_ids_'[i] # owns[t]
  BY <1>4, <1>5, <1>7
<1>9. ASSUME NEW i \in DOMAIN available_ds_ids_', NEW j \in DOMAIN available_ds_ids_',
             available_ds_ids_'[i] = available_ds_ids_'[j]
      PROVE  i = j
  <2>1. i + 1 = j + 1
    BY <1>5, <1>7, <1>9
  <2> QED
    BY <1>5, <2>1
<1> QED
  BY <1>1, <1>3, <1>5, <1>6, <1>8, <1>9

LEMMA PopData ==
  ASSUME ClientInv, ServerInv, NEW t \in Threads, Pop(t), races' = {}
  PROVE  ServerInv'
<1>1. /\ step[t] = "front" /\ step'[t] = "new" /\ owns' = owns
      /\ \A u \in Threads : u # t => step'[u] = step[u]
      /\ UNCHANGED <<session, phase, call, wire, server>>
  BY DEF Pop, ClientInv, Typed
<1>2. /\ owns[t] \in Ids
      /\ \A u \in Threads : u # t /\ step[u] \in Holding => owns[u] # owns[t]
      /\ \A i, j \in DOMAIN available_ds_ids_' : available_ds_ids_'[i] = available_ds_ids_'[j] => i = j
      /\ \A i \in DOMAIN available_ds_ids_' :
           /\ available_ds_ids_'[i] # owns[t]
           /\ \E j \in DOMAIN available_ds_ids_ : available_ds_ids_[j] = available_ds_ids_'[i]
  BY PopIds
<1>3. t \in Callers /\ t # Main /\ call[t] = None
  BY <1>1, IdsAssumption DEF ClientInv, Stages, ThreadFits, OpsAt, Callers
<1>4. OneHolder'
  <2>1. ASSUME NEW u \in Threads, step'[u] \in {"new", "empty", "written"}, NEW i \in DOMAIN available_ds_ids_'
        PROVE  available_ds_ids_'[i] # owns[u]
    BY <1>1, <1>2, <2>1 DEF ServerInv, OneHolder
  <2>2. ASSUME NEW u \in Threads, NEW v \in Threads, step'[u] \in Holding, step'[v] \in Holding, owns[u] = owns[v]
        PROVE  u = v
    BY <1>1, <1>2, <2>2 DEF ServerInv, OneHolder
  <2> QED
    BY <1>1, <1>2, <2>1, <2>2 DEF OneHolder
<1>5. server_ds_ptrs_[owns[t]] = None
  BY <1>1, <1>2 DEF ServerInv, Stored, Holding
<1>6. Stored'
  <2>1. ASSUME NEW u \in Threads, step'[u] \in Holding PROVE Holds(u, server_ds_ptrs_[owns[u]])'
    <3>1. CASE u = t
      BY <1>1, <1>3, <1>5, <3>1 DEF Holds, Served, server
    <3>2. CASE u # t
      <4>1. Holds(u, server_ds_ptrs_[owns[u]])
        BY <1>1, <2>1, <3>2 DEF ServerInv, Stored
      <4> QED
        BY <1>1, <3>2, <4>1 DEF Holds, server
    <3> QED
      BY <3>1, <3>2
  <2>2. ASSUME NEW i \in Ids, server_ds_ptrs_[i] # None PROVE \E u \in Threads : step'[u] \in Holding /\ owns'[u] = i
    BY <1>1, <2>2 DEF ServerInv, Stored, Holding
  <2> QED
    BY <1>1, <2>1, <2>2 DEF Stored, server
<1>7. Vanilla'
  BY <1>1 DEF ServerInv, Vanilla, server
<1>8. Answers'
  <2>1. ASSUME NEW u \in Callers, call[u] # None PROVE ReplyFits(u)'
    <3>1. ReplyFits(u) /\ u # t
      BY <1>3, <2>1 DEF ServerInv, Answers
    <3>2. CASE u \in Threads
      BY <1>1, <3>1, <3>2 DEF ReplyFits
    <3>3. CASE u = Main
      <4>1. call[u].req.op # "read"
        BY <2>1, <3>3 DEF ClientInv, Stages, MainFits, MainOpsAt
      <4> QED
        BY <1>1, <3>1, <4>1 DEF ReplyFits
    <3> QED
      BY <3>2, <3>3 DEF Callers
  <2> QED
    BY <1>1, <2>1 DEF ServerInv, Answers
<1> QED
  BY <1>1, <1>4, <1>6, <1>7, <1>8 DEF ServerInv, KindsFit, server

LEMMA FreeIdData ==
  ASSUME ClientInv, ServerInv, NEW t \in Threads, FreeId(t), races' = {}
  PROVE  ServerInv'
<1>1. /\ step[t] \in {"empty", "written"} /\ step'[t] = "delete" /\ owns' = owns /\ call[t] = None
      /\ \A u \in Threads : u # t => step'[u] = step[u]
      /\ available_ds_ids_' = Append(available_ds_ids_, owns[t])
      /\ UNCHANGED <<session, phase, call, wire, server>>
  BY DEF FreeId, ClientInv, Typed
<1>2. ~(call[Main] # None /\ call[Main].req.op = "write" /\ call[Main].req.val = t)
  BY DEF FreeId, Race
<1>3. t \in Callers /\ t # Main
  BY IdsAssumption DEF Callers
<1>4. PICK n \in Nat : /\ n = Len(available_ds_ids_) /\ DOMAIN available_ds_ids_ = 1..n
                       /\ DOMAIN available_ds_ids_' = 1..(n + 1) /\ available_ds_ids_'[n + 1] = owns[t]
                       /\ \A i \in 1..n : available_ds_ids_'[i] = available_ds_ids_[i]
  <2>1. available_ds_ids_ \in Seq(Ids) /\ owns[t] \in Ids
    BY <1>1 DEF ClientInv, Typed, Stages, ThreadFits
  <2> QED
    BY <1>1, <2>1
<1>5. \A i \in 1..n : available_ds_ids_[i] # owns[t]
  BY <1>1, <1>4 DEF ServerInv, OneHolder
<1>6. OneHolder'
  <2>0. \A i \in 1..(n + 1) : i \in 1..n \/ i = n + 1
    BY <1>4
  <2>1. ASSUME NEW i \in 1..(n + 1), NEW j \in 1..(n + 1), available_ds_ids_'[i] = available_ds_ids_'[j]
        PROVE  i = j
    BY <1>4, <1>5, <2>0, <2>1 DEF ServerInv, OneHolder
  <2>2. ASSUME NEW u \in Threads, step'[u] \in {"new", "empty", "written"}, NEW i \in 1..(n + 1)
        PROVE  available_ds_ids_'[i] # owns[u]
    <3>1. u # t /\ step[u] \in {"new", "empty", "written"}
      BY <1>1, <2>2
    <3>2. owns[u] # owns[t]
      BY <1>1, <3>1 DEF ServerInv, OneHolder, Holding
    <3> QED
      BY <1>4, <2>0, <3>1, <3>2 DEF ServerInv, OneHolder
  <2>3. ASSUME NEW u \in Threads, step'[u] \in Holding PROVE step[u] \in Holding
    BY <1>1, <2>3 DEF Holding
  <2> QED
    BY <1>1, <1>4, <2>1, <2>2, <2>3 DEF ServerInv, OneHolder
<1>7. Stored'
  <2>1. ASSUME NEW u \in Threads, step'[u] \in Holding PROVE Holds(u, server_ds_ptrs_[owns[u]])'
    <3>1. CASE u = t
      <4>1. Holds(t, server_ds_ptrs_[owns[t]]) /\ ~Served(call, wire, t)
        BY <1>1 DEF ServerInv, Stored, Holding, Served
      <4>2. server_ds_ptrs_[owns[t]] # None
        BY <1>1, <4>1, IdsAssumption DEF Holds, Vals
      <4> QED
        BY <1>1, <3>1, <4>1, <4>2 DEF Holds, server
    <3>2. CASE u # t
      <4>1. Holds(u, server_ds_ptrs_[owns[u]])
        BY <1>1, <2>1, <3>2 DEF ServerInv, Stored
      <4> QED
        BY <1>1, <3>2, <4>1 DEF Holds, server
    <3> QED
      BY <3>1, <3>2
  <2>2. ASSUME NEW i \in Ids, server_ds_ptrs_[i] # None PROVE \E u \in Threads : step'[u] \in Holding /\ owns'[u] = i
    BY <1>1, <2>2 DEF ServerInv, Stored, Holding
  <2> QED
    BY <1>1, <2>1, <2>2 DEF Stored, server
<1>8. Vanilla'
  BY <1>1 DEF ServerInv, Vanilla, server
<1>9. Answers'
  <2>1. ASSUME NEW u \in Callers, call[u] # None PROVE ReplyFits(u)'
    <3>1. ReplyFits(u) /\ u # t
      BY <1>1, <2>1 DEF ServerInv, Answers
    <3>2. CASE u \in Threads
      BY <1>1, <3>1, <3>2 DEF ReplyFits
    <3>3. CASE u = Main
      <4>1. call[u].req.op # "read"
        BY <2>1, <3>3 DEF ClientInv, Stages, MainFits, MainOpsAt
      <4> QED
        BY <1>1, <3>1, <4>1 DEF ReplyFits
    <3> QED
      BY <3>2, <3>3 DEF Callers
  <2> QED
    BY <1>1, <1>2, <2>1 DEF ServerInv, Answers
<1> QED
  BY <1>1, <1>6, <1>7, <1>8, <1>9 DEF ServerInv, KindsFit, server

\* What the server reads on a slave connection is the request of a caller that
\* waits, and it cannot be refused.
LEMMA SlaveReads ==
  ASSUME ClientInv, ServerInv, NEW c \in Conns, thread[c] = "slave", Asked(c)
  PROVE  \E t \in Callers : /\ call[t] # None /\ call[t].conn = c /\ ~Served(call, wire, t)
                            /\ wire[c] # <<>> /\ wire[c][1] = call[t].req /\ call[t].req \in Requests
<1>1. c[2] # M /\ c # Master
  BY DEF ServerInv, KindsFit, Master
<1>2. wire[c] # <<>> /\ "op" \in DOMAIN wire[c][1]
  BY DEF Asked
<1>3. PICK t \in Callers : call[t] # None /\ call[t].conn = c
  BY <1>1, <1>2 DEF ClientInv, Wires, Busy
<1>4. PICK msg \in Messages : wire[c] = <<msg>>
  BY <1>2 DEF ClientInv, Typed, Wiring
<1>5. wire[c][1] = msg /\ "re" \notin DOMAIN msg
  BY <1>2, <1>4, OneMessage, Addressed
<1>6. ~Served(call, wire, t)
  BY <1>3, <1>5 DEF Served
<1>7. wire[c] = <<call[t].req>>
  BY <1>3, <1>6 DEF ServerInv, Answers, ReplyFits
<1>8. wire[c][1] = call[t].req
  BY <1>7, OneMessage
<1> QED
  BY <1>2, <1>3, <1>6, <1>8 DEF ClientInv, Typed

\* Where the data structure of a request is when the server gets the request.
LEMMA Found ==
  ASSUME ClientInv, ServerInv, NEW t \in Callers, call[t] # None, ~Served(call, wire, t)
  PROVE  LET req == call[t].req IN
           /\ req.op \in {"construct", "destruct", "read", "write"} /\ req.id \in AllIds /\ ~Refused(req)
           /\ req.op = "construct" => server_ds_ptrs_[req.id] = None
           /\ req.op \in {"read", "write"} =>
                /\ req.id \in Ids /\ server_ds_ptrs_[req.id] # None /\ Target(req.id) = req.id
           /\ t \in Threads => step[t] \in Holding /\ req.id = owns[t] /\ Holds(t, server_ds_ptrs_[req.id])
<1> DEFINE req == call[t].req
<1>1. req \in Requests
  BY DEF ClientInv, Typed
<1>2. req.op \in {"construct", "destruct", "read", "write"} /\ req.id \in AllIds
  BY <1>1, RequestTyped
<1>3. CASE t \in Threads
  <2>1. step[t] \in Holding /\ req.op \in OpsAt(step[t]) /\ req.id = owns[t] /\ req.id \in Ids
    BY <1>3 DEF ClientInv, Stages, ThreadFits, OpsAt, Holding
  <2>2. Holds(t, server_ds_ptrs_[req.id])
    BY <1>3, <2>1 DEF ServerInv, Stored
  <2>3. t # None /\ Fresh # None
    BY <1>3, IdsAssumption DEF Vals
  <2>4. /\ req.op = "construct" => server_ds_ptrs_[req.id] = None
        /\ req.op \in {"destruct", "read", "write"} => server_ds_ptrs_[req.id] # None
    BY <2>1, <2>2, <2>3 DEF Holds, OpsAt, Holding
  <2> QED
    BY <1>2, <1>3, <2>1, <2>2, <2>4 DEF Refused, Target
<1>4. CASE t = Main
  <2>0. Main \notin Threads /\ Fresh # None
    BY IdsAssumption DEF Vals
  <2>1. /\ req.op \in MainOpsAt(phase)
        /\ IF req.op = "write" THEN req.id \in Ids /\ req.val \in Threads ELSE req.id = kVanillaPtrDSID
    BY <1>4 DEF ClientInv, Stages, MainFits
  <2>2. CASE req.op = "write"
    <3>1. step[req.val] = "written" /\ owns[req.val] = req.id
      BY <1>4, <2>1, <2>2 DEF ServerInv, Answers
    <3>2. server_ds_ptrs_[req.id] = req.val
      BY <2>1, <2>2, <3>1 DEF ServerInv, Stored, Holds, Holding
    <3>3. req.val # None
      BY <2>1, <2>2, IdsAssumption DEF Vals
    <3> QED
      BY <1>2, <1>4, <2>0, <2>1, <2>2, <3>2, <3>3 DEF Refused, Target
  <2>3. CASE req.op # "write"
    <3>1. \/ phase = "construct" /\ req.op = "construct"
          \/ phase = "destruct" /\ req.op = "destruct"
      BY <2>1, <2>3 DEF MainOpsAt
    <3>2. /\ phase = "construct" => server_ds_ptrs_[kVanillaPtrDSID] = None
          /\ phase = "destruct" => server_ds_ptrs_[kVanillaPtrDSID] # None
      BY <1>4, <2>0 DEF ServerInv, Vanilla
    <3> QED
      BY <1>2, <1>4, <2>0, <2>1, <2>3, <3>1, <3>2 DEF Refused
  <2> QED
    BY <2>2, <2>3
<1> QED
  BY <1>3, <1>4 DEF Callers

LEMMA SlaveBugData ==
  ASSUME ClientInv, ServerInv, NEW c \in Conns
  PROVE  ~SlaveBug(c)
<1> SUFFICES ASSUME SlaveBug(c) PROVE FALSE
  OBVIOUS
<1>1. thread[c] = "slave" /\ Asked(c) /\ Refused(wire[c][1])
  BY DEF SlaveBug
<1>2. PICK t \in Callers : /\ call[t] # None /\ ~Served(call, wire, t) /\ wire[c][1] = call[t].req
  BY <1>1, SlaveReads
<1>3. ~Refused(call[t].req)
  BY <1>2, Found
<1> QED
  BY <1>1, <1>2, <1>3

\* A request is answered.
LEMMA SlaveData ==
  ASSUME ClientInv, ServerInv, NEW c \in Conns, slave_fn(c)
  PROVE  ServerInv'
<1>0. /\ thread[c] = "slave" /\ Asked(c)
      /\ UNCHANGED <<client, queue, marking, has_shutdown, thread, bug, races>>
  BY DEF slave_fn
<1>u. UNCHANGED <<session, phase, call, available_ds_ids_, owns, step>>
  BY <1>0 DEF client, ids
<1>1. PICK t \in Callers : /\ call[t] # None /\ call[t].conn = c /\ ~Served(call, wire, t)
                           /\ wire[c] # <<>> /\ wire[c][1] = call[t].req /\ call[t].req \in Requests
  BY <1>0, SlaveReads
<1> DEFINE req == call[t].req
           msg == [re |-> req.op, id |-> req.id, val |-> server_ds_ptrs_[Target(req.id)]]
<1>2. msg \in Messages /\ Answer(c, msg) /\ server_ds_ptrs_' = Contents(req)
  BY <1>1, ReplyTyped
<1>3. /\ wire'[c] # <<>> /\ wire'[c][1] = msg /\ \A d \in Conns : d # c => wire'[d] = wire[d]
  <2>1. wire \in Wiring
    BY DEF ClientInv, Typed
  <2> HIDE DEF msg
  <2> QED
    BY <1>1, <1>2, <2>1, AnswerOn
<1>4. Served(call', wire', t)
  <2>1. "re" \in DOMAIN msg
    OBVIOUS
  <2> HIDE DEF msg
  <2> QED
    BY <1>u, <1>1, <1>3, <2>1 DEF Served
<1>5. ASSUME NEW u \in Callers, u # t, call[u] # None PROVE wire'[call[u].conn] = wire[call[u].conn]
  <2>1. call[u].conn # c /\ call[u].conn \in Conns
    BY <1>1, <1>5 DEF ClientInv, OnePlace, Typed
  <2> HIDE DEF msg
  <2> QED
    BY <1>3, <2>1
<1>6. \A u \in Callers : u # t => (Served(call, wire, u) <=> Served(call', wire', u))
  BY <1>u, <1>5 DEF Served
<1>7. /\ req.op \in {"construct", "destruct", "read", "write"} /\ req.id \in AllIds
      /\ req.op = "construct" => server_ds_ptrs_[req.id] = None
      /\ req.op \in {"read", "write"} =>
           /\ req.id \in Ids /\ server_ds_ptrs_[req.id] # None /\ Target(req.id) = req.id
      /\ t \in Threads => step[t] \in Holding /\ req.id = owns[t] /\ Holds(t, server_ds_ptrs_[req.id])
  BY <1>1, Found
<1>8. /\ \A i \in AllIds : i # req.id => server_ds_ptrs_'[i] = server_ds_ptrs_[i]
      /\ req.op = "construct" => server_ds_ptrs_'[req.id] = Fresh
      /\ req.op = "destruct" => server_ds_ptrs_'[req.id] = None
      /\ req.op = "write" => server_ds_ptrs_'[req.id] = req.val
      /\ req.op = "read" => server_ds_ptrs_'[req.id] = server_ds_ptrs_[req.id]
  BY <1>2, <1>7 DEF Contents, ClientInv, Typed
<1>9. /\ msg.re = req.op /\ msg.id = req.id
      /\ req.op = "read" => msg.val = server_ds_ptrs_[req.id]
  BY <1>7
<1> HIDE DEF msg
<1>t. t \in Threads => req.op \in OpsAt(step[t]) /\ (req.op = "write" => req.val = t)
  BY <1>1 DEF ClientInv, Stages, ThreadFits
<1>m. t = Main => /\ req.op \in MainOpsAt(phase)
                  /\ IF req.op = "write" THEN req.id \in Ids /\ req.val \in Threads
                     ELSE req.id = kVanillaPtrDSID
  BY <1>1 DEF ClientInv, Stages, MainFits
<1>w. t = Main /\ req.op = "write" =>
        step[req.val] = "written" /\ owns[req.val] = req.id /\ server_ds_ptrs_[req.id] = req.val
  BY <1>1, <1>m DEF ServerInv, Answers, Stored, Holds, Holding
<1>v. kVanillaPtrDSID \notin Ids /\ kVanillaPtrDSID \in AllIds /\ Main \notin Threads /\ Ids \subseteq AllIds
      /\ \A u \in Threads : u # None /\ u # Fresh
  BY IdsAssumption DEF AllIds, Vals
<1>o. \A u \in Threads : step[u] \in Holding => owns[u] \in Ids
  BY DEF ClientInv, Stages, ThreadFits, Holding
<1>10. Stored'
  <2>1. ASSUME NEW u \in Threads, step[u] \in Holding
        PROVE  Holds(u, server_ds_ptrs_[owns[u]])'
    <3>0. Holds(u, server_ds_ptrs_[owns[u]]) /\ u \in Callers /\ owns[u] \in Ids
      BY <1>o, <2>1 DEF ServerInv, Stored, Callers
    <3>1. CASE u = t
      <4>1. req.id = owns[t] /\ req.op \in OpsAt(step[t]) /\ (req.op = "write" => req.val = t)
        BY <1>7, <1>t, <3>1
      <4> QED
        BY <1>u, <1>4, <1>1, <1>8, <2>1, <3>0, <3>1, <4>1 DEF Holds, OpsAt, Holding
    <3>2. CASE u # t
      <4>1. server_ds_ptrs_'[owns[u]] = server_ds_ptrs_[owns[u]]
        <5>1. CASE t \in Threads
          <6>1. owns[u] # owns[t]
            BY <1>7, <2>1, <3>2, <5>1 DEF ServerInv, OneHolder
          <6> QED
            BY <1>7, <1>8, <1>v, <3>0, <5>1, <6>1
        <5>2. CASE t = Main
          BY <1>7, <1>8, <1>m, <1>w, <1>v, <3>0, <5>2
        <5> QED
          BY <5>1, <5>2 DEF Callers
      <4> QED
        BY <1>u, <1>6, <3>0, <3>2, <4>1 DEF Holds
    <3> QED
      BY <3>1, <3>2
  <2>2. ASSUME NEW i \in Ids, server_ds_ptrs_'[i] # None PROVE \E u \in Threads : step[u] \in Holding /\ owns[u] = i
    <3>1. CASE i # req.id
      BY <1>8, <1>v, <2>2, <3>1 DEF ServerInv, Stored
    <3>2. CASE i = req.id /\ t \in Threads
      BY <1>7, <3>2
    <3>3. CASE i = req.id /\ t = Main
      <4>1. req.op = "write"
        BY <1>m, <1>v, <3>3
      <4> QED
        BY <1>7, <2>2, <3>3, <4>1 DEF ServerInv, Stored
    <3> QED
      BY <3>1, <3>2, <3>3 DEF Callers
  <2> QED
    BY <1>u, <2>1, <2>2 DEF Stored
<1>11. Vanilla'
  <2>1. CASE t = Main /\ req.op # "write"
    <3>1. \/ phase = "construct" /\ req.op = "construct"
          \/ phase = "destruct" /\ req.op = "destruct"
      BY <1>m, <2>1 DEF MainOpsAt
    <3> QED
      BY <1>u, <1>4, <1>8, <1>m, <2>1, <3>1 DEF Vanilla
  <2>2. CASE t = Main /\ req.op = "write"
    <3>1. phase = "run" /\ server_ds_ptrs_'[kVanillaPtrDSID] = server_ds_ptrs_[kVanillaPtrDSID]
      BY <1>8, <1>m, <1>v, <2>2 DEF MainOpsAt
    <3> QED
      BY <1>u, <3>1 DEF ServerInv, Vanilla
  <2>3. CASE t # Main
    <3>1. server_ds_ptrs_'[kVanillaPtrDSID] = server_ds_ptrs_[kVanillaPtrDSID]
      BY <1>7, <1>8, <1>o, <1>v, <2>3 DEF Callers
    <3>2. Served(call, wire, Main) <=> Served(call', wire', Main)
      BY <1>6, <2>3 DEF Callers
    <3> QED
      BY <1>u, <3>1, <3>2 DEF ServerInv, Vanilla
  <2> QED
    BY <2>1, <2>2, <2>3
<1>12. Answers'
  <2>1. ASSUME NEW u \in Callers, call[u] # None PROVE ReplyFits(u)'
    <3>1. CASE u = t
      <4>1. req.op = "read" => msg.val = IF step[t] = "written" THEN t ELSE Fresh
        <5> SUFFICES ASSUME req.op = "read" PROVE msg.val = IF step[t] = "written" THEN t ELSE Fresh
          OBVIOUS
        <5>1. t \in Threads
          BY <1>m DEF MainOpsAt, Callers
        <5>2. step[t] \in {"empty", "written"} /\ Holds(t, server_ds_ptrs_[req.id])
          BY <1>7, <1>t, <5>1 DEF OpsAt
        <5> QED
          BY <1>1, <1>9, <5>2 DEF Holds
      <4> QED
        BY <1>u, <1>1, <1>3, <1>4, <1>9, <3>1, <4>1 DEF ReplyFits
    <3>2. CASE u # t
      BY <1>u, <1>5, <1>6, <2>1, <3>2 DEF ServerInv, Answers, ReplyFits
    <3> QED
      BY <3>1, <3>2
  <2> QED
    BY <1>u, <2>1 DEF ServerInv, Answers
<1>13. OneHolder' /\ KindsFit' /\ ~bug'
  BY <1>0, <1>u, HolderFrame DEF ServerInv, KindsFit
<1> QED
  BY <1>10, <1>11, <1>12, <1>13 DEF ServerInv

\* The acceptor and the threads' beginning and end.
LEMMA KindsData ==
  ASSUME ClientInv, ServerInv, races' = {},
         Acceptor \/ \E c \in Conns : process_init(c) \/ process_shutdown(c) \/ Joined(c) \/ SlaveEnds(c)
  PROVE  ServerInv'
<1>1. UNCHANGED <<client, server_ds_ptrs_, bug>>
  BY DEF Acceptor, Accept, Mark, process_init, process_shutdown, Joined, SlaveEnds
<1>u. UNCHANGED <<session, phase, call, available_ds_ids_, owns, step>>
  BY <1>1 DEF client, ids
<1>2. ASSUME NEW t \in Callers, call[t] # None PROVE wire'[call[t].conn] = wire[call[t].conn]
  <2>1. call[t].conn \in Conns /\ call[t].conn[2] # M
    BY <1>2, CallConns
  <2>2. \A d \in Conns : thread[d] \in {"init", "up"} => d[2] = M
    BY DEF ServerInv, KindsFit
  <2>3. \A d \in Conns : d[2] # M => wire'[d] = wire[d]
    BY <2>2 DEF Acceptor, Accept, Mark, process_init, process_shutdown, Joined, SlaveEnds, Answer,
                ClientInv, Typed, Wiring
  <2> QED
    BY <2>1, <2>3
<1>3. Stored' /\ Answers' /\ (Served(call, wire, Main) <=> Served(call', wire', Main))
  BY <1>1, <1>u, <1>2, DataFrame
<1>4. Vanilla' /\ OneHolder' /\ ~bug'
  BY <1>1, <1>u, <1>3, HolderFrame DEF ServerInv, Vanilla
<1>5. KindsFit'
  <2>0. thread \in [Conns -> Kinds]
    BY DEF ClientInv, Typed
  <2>1. CASE Accept
    <3>1. PICK c \in Conns : queue = <<c>>
      BY <2>1 DEF Accept, ClientInv, Typed
    <3>2. Head(queue) = c
      BY <3>1
    <3>3. "early_dial" \notin races' /\ "late_accept" \notin races'
      OBVIOUS
    <3>4. IF c[2] = M THEN has_shutdown ELSE ~has_shutdown
      BY <2>1, <3>2, <3>3 DEF Accept, Race
    <3>5. thread'[c] = (IF has_shutdown THEN "init" ELSE "slave") /\ \A d \in Conns : d # c => thread'[d] = thread[d]
      BY <2>0, <2>1, <3>2 DEF Accept
    <3> QED
      BY <3>4, <3>5 DEF ServerInv, KindsFit, Kinds
  <2>2. CASE Mark
    BY <2>2 DEF Mark, ServerInv, KindsFit
  <2>3. ASSUME NEW c \in Conns, process_init(c) \/ process_shutdown(c) \/ Joined(c) \/ SlaveEnds(c) PROVE KindsFit'
    <3>1. /\ thread[c] # "slave" => c[2] = M /\ thread'[c] \in {"up", "join", "ended"}
          /\ thread[c] = "slave" => c[2] # M /\ thread'[c] = "ended"
          /\ \A d \in Conns : d # c => thread'[d] = thread[d]
      BY <2>0, <2>3 DEF process_init, process_shutdown, Joined, SlaveEnds, ServerInv, KindsFit
    <3> QED
      BY <3>1 DEF ServerInv, KindsFit, Kinds
  <2> QED
    BY <2>1, <2>2, <2>3 DEF Acceptor
<1> QED
  BY <1>3, <1>4, <1>5 DEF ServerInv

\* Races are never forgotten.
LEMMA RacesGrow == [Next]_vars => races \subseteq races'
<1> SUFFICES ASSUME [Next]_vars PROVE races \subseteq races'
  OBVIOUS
<1>1. CASE DialMaster \/ Device \/ DestructVanilla
  BY <1>1 DEF DialMaster, Device, DestructVanilla, InitAck, DialSlave, ConstructVanilla, Constructed,
              Shutdown, Close, WriteBackAck
<1>2. ASSUME NEW t \in Threads, Proceed(t) \/ Choose(t) PROVE races \subseteq races'
  BY <1>2 DEF Proceed, Choose, Pop, Construct, ConstructAck, ReadReply, WriteAck, Destruct, DestructAck, Drop,
              Front, Read, Write, FreeId, WriteBack, Race
<1>3. CASE Acceptor \/ \E c \in Conns : Serve(c)
  BY <1>3 DEF Acceptor, Accept, Mark, Serve, process_init, process_shutdown, Joined, slave_fn, SlaveBug,
              SlaveEnds, Race
<1> QED
  BY <1>1, <1>2, <1>3 DEF Next, vars

LEMMA ServerStep == Inv /\ [Next]_vars /\ races' = {} => ServerInv'
<1> SUFFICES ASSUME Inv, [Next]_vars, races' = {} PROVE ServerInv'
  OBVIOUS
<1>1. ClientInv /\ ServerInv
  BY RacesGrow DEF Inv
<1>2. CASE DialMaster \/ Device \/ DestructVanilla
  BY <1>1, <1>2, DeviceData, MainAsksData, MainFinishesData DEF Device
<1>3. ASSUME NEW t \in Threads, Proceed(t) \/ Choose(t) PROVE ServerInv'
  BY <1>1, <1>3, ThreadAsksData, ThreadFinishesData, FrontDropData, PopData, FreeIdData, MainAsksData
  DEF Proceed, Choose
<1>4. CASE Acceptor
  BY <1>1, <1>4, KindsData
<1>5. ASSUME NEW c \in Conns, Serve(c) PROVE ServerInv'
  BY <1>1, <1>5, KindsData, SlaveData, SlaveBugData DEF Serve
<1>6. CASE UNCHANGED vars
  <2>1. UNCHANGED <<call, owns, step, server_ds_ptrs_, wire, phase, available_ds_ids_, bug, thread>>
    BY <1>6 DEF vars, client, server, ids
  <2>2. Stored' /\ Answers' /\ (Served(call, wire, Main) <=> Served(call', wire', Main))
    BY <1>1, <2>1, DataFrame
  <2> QED
    BY <1>1, <2>1, <2>2, HolderFrame DEF ServerInv, Vanilla, KindsFit
<1> QED
  BY <1>2, <1>3, <1>4, <1>5, <1>6 DEF Next

-----------------------------------------------------------------------------
\* The theorems.

LEMMA InvHolds == Spec => []Inv
<1>1. Init => Inv
  BY ClientInit, ServerInit DEF Inv
<1>2. Inv /\ [Next]_vars => Inv'
  BY ClientStep, ServerStep DEF Inv
<1> QED
  BY <1>1, <1>2, PTL DEF Spec

\* The device, the connections and the server keep their types: a cache never
\* holds more than a batch (SharedPool::push), the listener queues one
\* connection and a connection carries one message at a time.
THEOREM TypeCorrect == Spec => []TypeOK
<1>1. Inv => TypeOK
  <2> SUFFICES ASSUME ClientInv PROVE TypeOK
    BY DEF Inv
  <2>1. ASSUME NEW c \in Cores PROVE cache_[c] \subseteq Conns /\ Cardinality(cache_[c]) <= K
    <3>1. CASE phase = "off"
      BY <3>1 DEF ClientInv, OnePlace, Pooled, PoolOK
    <3>2. CASE phase # "off"
      BY <3>2, MineConns DEF ClientInv, PoolOK
    <3> QED
      BY <3>1, <3>2
  <2>2. global_pool_ \subseteq Conns
    <3>1. CASE phase = "off"
      BY <3>1 DEF ClientInv, OnePlace, Pooled
    <3>2. CASE phase # "off"
      BY <3>2, MineConns DEF ClientInv, PoolOK
    <3> QED
      BY <3>1, <3>2
  <2>3. \A c \in Conns : Len(wire[c]) <= 1
    <3> TAKE c \in Conns
    <3>1. CASE wire[c] = <<>>
      BY <3>1
    <3>2. CASE wire[c] # <<>>
      <4>1. PICK msg \in Messages : wire[c] = <<msg>>
        BY <3>2 DEF ClientInv, Typed, Wiring
      <4> QED
        BY <4>1, OneMessage
    <3> QED
      BY <3>1, <3>2
  <2>4. Len(queue) <= 1
    <3>1. CASE queue = <<>>
      BY <3>1
    <3>2. CASE queue # <<>>
      <4>1. PICK c \in Conns : queue = <<c>>
        BY <3>2 DEF ClientInv, Typed
      <4> QED
        BY <4>1, OneMessage
    <3> QED
      BY <3>1, <3>2
  <2>5. \A i \in DOMAIN available_ds_ids_ : available_ds_ids_[i] \in Ids
    BY DEF ClientInv, Typed
  <2> QED
    BY <2>1, <2>2, <2>3, <2>4, <2>5 DEF ClientInv, Typed, TypeOK
<1> QED
  BY <1>1, InvHolds, PTL

\* Whoever calls, on whatever core: pop finds a connection in the core's cache
\* or a whole batch in the global pool (SharedPool::pop, BUG_ON), whatever races
\* there have been.
THEOREM NeverStarvedHolds == Spec => []NeverStarved
<1>1. Inv => NeverStarved
  BY EnoughLeft DEF Inv
<1> QED
  BY <1>1, InvHolds, PTL

\* A caller reads the reply to its own request, a thread reads what it last
\* wrote, and nothing is written into the vanilla data structure, unless one of
\* the recorded races has happened (TCPDevice::_read_object, Server::write_object).
THEOREM RepliesFitHolds == Spec => []RepliesFit
<1>1. Inv => RepliesFit
  <2> SUFFICES ASSUME ClientInv, ServerInv, races = {} PROVE RepliesFit
    BY DEF Inv, RepliesFit
  <2>1. ASSUME NEW t \in Callers, call[t] # None, Replied(call[t].conn)
        PROVE  LET msg == wire[call[t].conn][1] IN
                 /\ msg.re = call[t].req.op /\ msg.id = call[t].req.id
                 /\ msg.re = "read" => msg.val = IF step[t] = "written" THEN t ELSE Fresh
    <3>1. Served(call, wire, t)
      BY <2>1 DEF Served, Replied
    <3> QED
      BY <2>1, <3>1 DEF ServerInv, Answers, ReplyFits
  <2>2. server_ds_ptrs_[kVanillaPtrDSID] \in {None, Fresh}
    BY DEF ServerInv, Vanilla
  <2> QED
    BY <2>1, <2>2 DEF RepliesFit
<1> QED
  BY <1>1, InvHolds, PTL

\* The server ends itself (BUG_ON in Server::construct and destruct, an opcode no
\* slave knows) only after one of the recorded races.
THEOREM NeverBugsHolds == Spec => []NeverBugs
<1>1. Inv => NeverBugs
  BY DEF Inv, ServerInv, NeverBugs
<1> QED
  BY <1>1, InvHolds, PTL
=============================================================================
