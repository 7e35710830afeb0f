------------------------------ MODULE SharedPool -------------------------------
(***************************************************************************)
(* SharedPool (inc/internal/shared_pool.ipp): items in per-core caches and *)
(* a global pool behind a spin lock.  Preemption is off, so an operation   *)
(* on a core's cache is one step, and items change between a cache and the *)
(* global pool in batches of exactly kNumCachedItemsPerCPU.                *)
(***************************************************************************)
EXTENDS Integers, FiniteSets

CONSTANTS Cores, kNumCachedItemsPerCPU

ASSUME BatchAssumption == kNumCachedItemsPerCPU \in Nat \ {0}

VARIABLES
  cache_,        \* [Cores -> SUBSET items]
  global_pool_   \* SUBSET items

pool == <<cache_, global_pool_>>
K == kNumCachedItemsPerCPU

EmptyPool == cache_ = [c \in Cores |-> {}] /\ global_pool_ = {}
Pooled == global_pool_ \cup UNION {cache_[c] : c \in Cores}

\* push, on core c: a full cache is first emptied into the global pool.
push(c, item) ==
  IF Cardinality(cache_[c]) = K
  THEN /\ global_pool_' = global_pool_ \cup cache_[c]
       /\ cache_' = [cache_ EXCEPT ![c] = {item}]
  ELSE /\ cache_' = [cache_ EXCEPT ![c] = @ \cup {item}]
       /\ UNCHANGED global_pool_

\* pop, on core c: an empty cache is first filled from the global pool.
pop_All(c, item) ==
  IF cache_[c] = {}
  THEN /\ item \in global_pool_
       /\ cache_' = [cache_ EXCEPT ![c] = global_pool_ \ {item}]
       /\ global_pool_' = {}
  ELSE /\ item \in cache_[c]
       /\ cache_' = [cache_ EXCEPT ![c] = @ \ {item}]
       /\ UNCHANGED global_pool_

pop_Shared(c, item) ==
  /\ item \in cache_[c] \cup global_pool_
  /\ UNCHANGED pool

pop(c, item) ==
  IF cache_[c] = {}
  THEN \E batch \in SUBSET global_pool_ :
         /\ Cardinality(batch) = K /\ item \in batch
         /\ cache_' = [cache_ EXCEPT ![c] = batch \ {item}]
         /\ global_pool_' = global_pool_ \ batch
  ELSE /\ item \in cache_[c]
       /\ cache_' = [cache_ EXCEPT ![c] = @ \ {item}]
       /\ UNCHANGED global_pool_

\* pop on core c would find fewer items than a batch in the global pool, and
\* end the process.
Starved(c) == cache_[c] = {} /\ Cardinality(global_pool_) < K
=============================================================================
