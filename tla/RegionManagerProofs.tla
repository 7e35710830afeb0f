------------------------ MODULE RegionManagerProofs ------------------------
(***************************************************************************)
(* Proofs about RegionManager, for any number of regions, cores and        *)
(* objects per region: no region is ever lost or handed out twice, and     *)
(* only quiet regions are collected.                                       *)
(***************************************************************************)
EXTENDS RegionManager, FiniteSetTheorems, FunctionTheorems, SequenceTheorems, TLAPS

-----------------------------------------------------------------------------
(* How often a region is in a list.                                        *)

Places(s, r) == {i \in DOMAIN s : s[i] = r}

LEMMA PlacesFinite ==
  ASSUME NEW S, NEW s \in Seq(S), NEW r
  PROVE  /\ IsFiniteSet(Places(s, r))
         /\ Copies(s, r) = Cardinality(Places(s, r)) /\ Copies(s, r) \in Nat
         /\ Copies(s, r) = 0 <=> \A i \in 1..Len(s) : s[i] # r
<1>1. Len(s) \in Nat /\ DOMAIN s = 1..Len(s)
  BY LenProperties
<1>2. IsFiniteSet(1..Len(s))
  BY <1>1, FS_Interval
<1>3. Places(s, r) \in SUBSET (1..Len(s))
  BY <1>1 DEF Places
<1>4. IsFiniteSet(Places(s, r))
  BY <1>2, <1>3, FS_Subset
<1>5. Cardinality(Places(s, r)) \in Nat
  BY <1>4, FS_CardinalityType
<1>6. Cardinality(Places(s, r)) = 0 <=> Places(s, r) = {}
  BY <1>4, FS_EmptySet
<1>7. Places(s, r) = {} <=> \A i \in 1..Len(s) : s[i] # r
  BY <1>1 DEF Places
<1> QED
  BY <1>4, <1>5, <1>6, <1>7 DEF Copies, Places

\* Two lists with the same handles in different places.
LEMMA SameCopies ==
  ASSUME NEW S, NEW s \in Seq(S), NEW u \in Seq(S), NEW r, NEW n \in Nat,
         Len(s) = n, Len(u) = n, NEW pi \in Bijection(1..n, 1..n),
         \A i \in 1..n : u[pi[i]] = s[i]
  PROVE  Copies(u, r) = Copies(s, r)
<1>0. /\ pi \in [1..n -> 1..n]
      /\ \A i, j \in 1..n : pi[i] = pi[j] => i = j
      /\ \A j \in 1..n : \E i \in 1..n : pi[i] = j
  BY DEF Bijection, Injection, Surjection, IsInjective
<1>1. DOMAIN s = 1..n /\ DOMAIN u = 1..n
  BY LenProperties
<1> DEFINE A == Places(s, r)
           B == Places(u, r)
           f == [i \in A |-> pi[i]]
<1>2. f \in [A -> B]
  BY <1>0, <1>1 DEF Places
<1>3. \A i, j \in A : f[i] = f[j] => i = j
  BY <1>0, <1>1 DEF Places
<1>4. \A j \in B : \E i \in A : f[i] = j
  BY <1>0, <1>1 DEF Places
<1>5. f \in Bijection(A, B)
  <2> HIDE DEF f, A, B
  <2> QED
    BY <1>2, <1>3, <1>4, Fun_IsBij
<1>6. ExistsBijection(A, B)
  <2> HIDE DEF f, A, B
  <2> QED
    BY <1>5, Fun_ExistsBij
<1>7. Cardinality(B) = Cardinality(A)
  BY <1>6, PlacesFinite, FS_Bijection
<1> QED
  BY <1>7, PlacesFinite

LEMMA AppendCopies ==
  ASSUME NEW S, NEW s \in Seq(S), NEW x \in S, NEW r
  PROVE  Copies(Append(s, x), r) = Copies(s, r) + (IF x = r THEN 1 ELSE 0)
<1> DEFINE u == Append(s, x)
<1>1. /\ u \in Seq(S) /\ Len(u) = Len(s) + 1 /\ u[Len(s) + 1] = x
      /\ \A i \in 1..Len(s) : u[i] = s[i]
  BY AppendProperties
<1>2. Len(s) \in Nat /\ DOMAIN s = 1..Len(s) /\ DOMAIN u = 1..Len(u)
  BY <1>1, LenProperties
<1>3. Places(u, r) = IF x = r THEN Places(s, r) \cup {Len(s) + 1} ELSE Places(s, r)
  BY <1>1, <1>2 DEF Places
<1>4. Len(s) + 1 \notin Places(s, r)
  BY <1>2 DEF Places
<1>5. Cardinality(Places(s, r) \cup {Len(s) + 1}) = Cardinality(Places(s, r)) + 1
  BY <1>4, PlacesFinite, FS_AddElement
<1>6. Copies(u, r) = Cardinality(Places(u, r)) /\ Copies(s, r) = Cardinality(Places(s, r))
        /\ Copies(s, r) \in Nat
  BY <1>1, PlacesFinite
<1> QED
  BY <1>3, <1>5, <1>6

\* The first n handles go behind the others.
LEMMA RotateCopies ==
  ASSUME NEW S, NEW s \in Seq(S), NEW n \in 0..Len(s), NEW r
  PROVE  /\ Rotate(s, n) \in Seq(S) /\ Len(Rotate(s, n)) = Len(s)
         /\ Copies(Rotate(s, n), r) = Copies(s, r)
         /\ n < Len(s) => Rotate(s, n) # <<>> /\ Head(Rotate(s, n)) = s[n + 1]
<1>0. PICK l \in Nat : l = Len(s) /\ \A i \in 1..l : s[i] \in S
  BY LenProperties
<1>n. n \in Nat /\ n <= l
  BY <1>0
<1>1. PICK a \in Seq(S) : /\ a = SubSeq(s, n + 1, Len(s)) /\ Len(a) = l - n
                          /\ \A i \in 1..l - n : a[i] = s[n + i]
  <2>1. /\ SubSeq(s, n + 1, l) \in Seq(S)
        /\ Len(SubSeq(s, n + 1, l)) = IF n + 1 <= l THEN l - (n + 1) + 1 ELSE 0
        /\ \A i \in 1..l - (n + 1) + 1 : SubSeq(s, n + 1, l)[i] = s[n + 1 + i - 1]
    BY <1>0, <1>n, SubSeqProperties
  <2>2. PICK a \in Seq(S) : a = SubSeq(s, n + 1, l)
    BY <2>1
  <2>3. Len(a) = l - n
    BY <1>n, <2>1, <2>2
  <2>4. \A i \in 1..l - n : a[i] = s[n + i]
    <3> TAKE i \in 1..l - n
    <3>1. i \in 1..l - (n + 1) + 1 /\ n + 1 + i - 1 = n + i
      BY <1>n
    <3> QED
      BY <2>1, <2>2, <3>1
  <2> QED
    BY <1>0, <2>2, <2>3, <2>4
<1>2. PICK b \in Seq(S) : /\ b = SubSeq(s, 1, n) /\ Len(b) = n
                          /\ \A i \in 1..n : b[i] = s[i]
  <2>1. /\ SubSeq(s, 1, n) \in Seq(S)
        /\ Len(SubSeq(s, 1, n)) = IF 1 <= n THEN n - 1 + 1 ELSE 0
        /\ \A i \in 1..n - 1 + 1 : SubSeq(s, 1, n)[i] = s[1 + i - 1]
    BY <1>0, <1>n, SubSeqProperties
  <2>2. PICK b \in Seq(S) : b = SubSeq(s, 1, n)
    BY <2>1
  <2>3. Len(b) = n
    BY <1>n, <2>1, <2>2
  <2>4. \A i \in 1..n : b[i] = s[i]
    <3> TAKE i \in 1..n
    <3>1. i \in 1..n - 1 + 1 /\ 1 + i - 1 = i
      BY <1>n
    <3> QED
      BY <2>1, <2>2, <3>1
  <2> QED
    BY <2>2, <2>3, <2>4
<1>3. PICK u \in Seq(S) :
        /\ u = Rotate(s, n) /\ Len(u) = l
        /\ \A i \in 1..l : u[i] = IF i <= l - n THEN s[n + i] ELSE s[i - (l - n)]
  <2>1. /\ a \o b \in Seq(S) /\ Len(a \o b) = Len(a) + Len(b)
        /\ \A i \in 1..Len(a) + Len(b) :
             (a \o b)[i] = IF i <= Len(a) THEN a[i] ELSE b[i - Len(a)]
    BY ConcatProperties
  <2>2. a \o b = Rotate(s, n)
    BY <1>1, <1>2 DEF Rotate
  <2>l. Len(a) = l - n /\ Len(a) + Len(b) = l
    <3>1. Len(a) = l - n /\ Len(b) = n
      BY <1>1, <1>2
    <3>2. (l - n) + n = l
      BY <1>0, <1>n
    <3> QED
      BY <3>1, <3>2
  <2>3. PICK u \in Seq(S) : /\ u = a \o b /\ Len(u) = l
                            /\ \A i \in 1..l : u[i] = IF i <= l - n THEN a[i] ELSE b[i - (l - n)]
    BY <2>l, <2>1
  <2>4. ASSUME NEW i \in 1..l
        PROVE  u[i] = IF i <= l - n THEN s[n + i] ELSE s[i - (l - n)]
    <3>1. CASE i <= l - n
      <4>1. i \in 1..l - n
        BY <1>n, <3>1
      <4>2. u[i] = a[i]
        BY <2>3, <3>1
      <4> QED
        BY <1>1, <3>1, <4>1, <4>2
    <3>2. CASE ~(i <= l - n)
      <4>1. i - (l - n) \in 1..n
        BY <1>n, <3>2
      <4> QED
        BY <1>2, <2>3, <3>2, <4>1
    <3> QED
      BY <3>1, <3>2
  <2> QED
    BY <2>2, <2>3, <2>4
<1>4. PICK pi \in [1..l -> 1..l] :
        \A i \in 1..l : pi[i] = IF i <= n THEN l - n + i ELSE i - n
  <2>1. [i \in 1..l |-> IF i <= n THEN l - n + i ELSE i - n] \in [1..l -> 1..l]
    BY <1>n
  <2> QED
    BY <2>1
<1>5. \A i, j \in 1..l : pi[i] = pi[j] => i = j
  <2> TAKE i, j \in 1..l
  <2>1. /\ pi[i] = IF i <= n THEN l - n + i ELSE i - n
        /\ pi[j] = IF j <= n THEN l - n + j ELSE j - n
    BY <1>4
  <2> QED
    BY <1>0, <1>n, <2>1
<1>6. \A j \in 1..l : \E i \in 1..l : pi[i] = j
  <2> TAKE j \in 1..l
  <2>1. CASE j <= l - n
    <3>1. j + n \in 1..l /\ ~(j + n <= n)
      BY <1>n, <2>1
    <3>2. pi[j + n] = j
      BY <1>n, <1>4, <3>1
    <3> QED
      BY <3>1, <3>2
  <2>2. CASE ~(j <= l - n)
    <3>1. j - (l - n) \in 1..l /\ j - (l - n) <= n
      BY <1>n, <2>2
    <3>2. pi[j - (l - n)] = j
      BY <1>n, <1>4, <3>1
    <3> QED
      BY <3>1, <3>2
  <2> QED
    BY <2>1, <2>2
<1>7. \A i \in 1..l : u[pi[i]] = s[i]
  <2> TAKE i \in 1..l
  <2>1. CASE i <= n
    <3>1. pi[i] \in 1..l /\ pi[i] = l - n + i /\ ~(pi[i] <= l - n) /\ pi[i] - (l - n) = i
      BY <1>n, <1>4, <2>1
    <3> QED
      BY <1>3, <3>1
  <2>2. CASE ~(i <= n)
    <3>1. pi[i] \in 1..l /\ pi[i] = i - n /\ pi[i] <= l - n /\ n + pi[i] = i
      BY <1>n, <1>4, <2>2
    <3> QED
      BY <1>3, <3>1
  <2> QED
    BY <2>1, <2>2
<1>8. Copies(u, r) = Copies(s, r)
  <2>1. Len(s) = l /\ Len(u) = l
    BY <1>0, <1>3
  <2>2. pi \in Bijection(1..l, 1..l)
    BY <1>4, <1>5, <1>6, Fun_IsBij
  <2> QED
    BY <1>7, <2>1, <2>2, SameCopies
<1>9. n < l => u # <<>> /\ Head(u) = s[n + 1]
  <2> SUFFICES ASSUME n < l PROVE u # <<>> /\ Head(u) = s[n + 1]
    OBVIOUS
  <2>1. u # <<>> /\ Head(u) = u[1]
    BY <1>3, <1>n
  <2>2. u[1] = s[n + 1]
    BY <1>3, <1>n
  <2> QED
    BY <2>1, <2>2
<1> QED
  BY <1>0, <1>3, <1>8, <1>9

\* A list is its head and its tail: the tail with the head appended is the list
\* rotated by one.
LEMMA TailCopies ==
  ASSUME NEW S, NEW s \in Seq(S), s # <<>>, NEW r
  PROVE  Copies(s, r) = Copies(Tail(s), r) + (IF Head(s) = r THEN 1 ELSE 0)
<1>1. /\ Tail(s) \in Seq(S) /\ Head(s) \in S /\ Head(s) = s[1]
      /\ Len(s) \in Nat \ {0} /\ 1 \in 0..Len(s)
  BY HeadTailProperties, EmptySeq
<1>2. Rotate(s, 1) = Append(Tail(s), Head(s))
  <2>1. Tail(s) = SubSeq(s, 2, Len(s))
    BY TailIsSubSeq
  <2>2. SubSeq(s, 1, 1) = <<s[1]>>
    <3>1. SubSeq(s, 1, 1) = SubSeq(s, 1, 0) \o <<s[1]>>
      BY <1>1, SubSeqRecursiveSecond
    <3>2. SubSeq(s, 1, 0) = <<>>
      BY SubSeqEmpty
    <3>3. <<s[1]>> \in Seq(S)
      BY <1>1
    <3> QED
      BY <3>1, <3>2, <3>3, ConcatEmptySeq
  <2>3. Append(Tail(s), Head(s)) = Tail(s) \o <<Head(s)>>
    BY <1>1, AppendIsConcat
  <2> QED
    BY <1>1, <2>1, <2>2, <2>3 DEF Rotate
<1>3. Copies(Rotate(s, 1), r) = Copies(s, r)
  BY <1>1, RotateCopies
<1>4. Copies(Append(Tail(s), Head(s)), r) = Copies(Tail(s), r) + (IF Head(s) = r THEN 1 ELSE 0)
  <2>1. PICK t \in Seq(S), h \in S : t = Tail(s) /\ h = Head(s)
    BY <1>1
  <2>2. Copies(Append(t, h), r) = Copies(t, r) + (IF h = r THEN 1 ELSE 0)
    BY AppendCopies
  <2> QED
    BY <2>1, <2>2
<1> QED
  BY <1>2, <1>3, <1>4

-----------------------------------------------------------------------------
(* Owners.                                                                 *)

LEMMA OwnersFinite ==
  ASSUME NEW r
  PROVE  IsFiniteSet(Owners(r)) /\ Cardinality(Owners(r)) \in Nat
<1>1. IsFiniteSet(Kinds)
  <2>1. IsFiniteSet({"temporal"})
    BY FS_Singleton
  <2>2. Kinds = {"temporal"} \cup {"nt"}
    BY DEF Kinds
  <2> QED
    BY <2>1, <2>2, FS_AddElement
<1>2. IsFiniteSet(Cores \X Kinds)
  BY <1>1, RegionsAssumption, FS_Product
<1>3. Owners(r) \in SUBSET (Cores \X Kinds)
  BY DEF Owners
<1> QED
  BY <1>2, <1>3, FS_Subset, FS_CardinalityType

\* Who holds r when the handles are f.
Holders(f, r) == {ck \in Cores \X Kinds : f[ck[1]][ck[2]] = r}

\* The handle of a core changes from one region to another.
LEMMA HoldersMove ==
  ASSUME NEW c \in Cores, NEW k \in Kinds, NEW x, NEW r, NEW f, NEW g,
         IsFiniteSet(Holders(f, r)), g[c][k] = x,
         \A d \in Cores, l \in Kinds : (d = c /\ l = k) \/ g[d][l] = f[d][l]
  PROVE  Cardinality(Holders(g, r)) = Cardinality(Holders(f, r))
           - (IF f[c][k] = r THEN 1 ELSE 0) + (IF x = r THEN 1 ELSE 0)
<1> DEFINE ck == <<c, k>>
           Rest == Holders(f, r) \ {ck}
<1>1. g[c][k] = x /\ \A d \in Cores, l \in Kinds :
        <<d, l>> # ck => g[d][l] = f[d][l]
  OBVIOUS
<1>2. Holders(g, r) = IF x = r THEN Rest \cup {ck} ELSE Rest
  <2>1. \A dl \in Cores \X Kinds : dl = <<dl[1], dl[2]>> /\ dl[1] \in Cores /\ dl[2] \in Kinds
    OBVIOUS
  <2>2. \A dl \in Cores \X Kinds : dl # ck => g[dl[1]][dl[2]] = f[dl[1]][dl[2]]
    BY <1>1, <2>1
  <2>3. ck \in Cores \X Kinds /\ ck[1] = c /\ ck[2] = k
    OBVIOUS
  <2> HIDE DEF ck
  <2> QED
    BY <1>1, <2>2, <2>3 DEF Holders
<1>3. ck \in Holders(f, r) <=> f[c][k] = r
  BY DEF Holders
<1> HIDE DEF ck
<1>4. /\ IsFiniteSet(Rest)
      /\ Cardinality(Rest) = IF ck \in Holders(f, r) THEN Cardinality(Holders(f, r)) - 1
                             ELSE Cardinality(Holders(f, r))
  BY FS_RemoveElement
<1>5. Cardinality(Rest \cup {ck}) = Cardinality(Rest) + 1
  <2>1. ck \notin Rest
    OBVIOUS
  <2> HIDE DEF Rest
  <2> QED
    BY <1>4, <2>1, FS_AddElement
<1>6. PICK n \in Nat : n = Cardinality(Holders(f, r))
  BY FS_CardinalityType
<1> HIDE DEF Rest
<1> QED
  BY <1>2, <1>3, <1>4, <1>5, <1>6

-----------------------------------------------------------------------------
(* The invariant.                                                          *)

\* What is not initialised was allocated.
RefsBounded == \A r \in Regions : ref[r] <= bump[r]

Inv == TypeOK /\ OneHandle /\ CollectedIsQuiet /\ RefsBounded

LEMMA CountsTyped ==
  ASSUME TypeOK, NEW r \in Regions
  PROVE  /\ free_regions \in Seq(Regions) /\ used_regions \in Seq(Regions)
         /\ nt_used_regions \in Seq(Regions) /\ from \in Seq(Regions)
         /\ Copies(free_regions, r) \in Nat /\ Copies(used_regions, r) \in Nat
         /\ Copies(nt_used_regions, r) \in Nat /\ Copies(from, r) \in Nat
         /\ Cardinality(Owners(r)) \in Nat
<1>1. /\ free_regions \in Seq(Regions) /\ used_regions \in Seq(Regions)
      /\ nt_used_regions \in Seq(Regions) /\ from \in Seq(Regions)
  BY DEF TypeOK
<1> QED
  BY <1>1, PlacesFinite, OwnersFinite

\* A region a core owns is on no list, nor one that is listed owned.
LEMMA OwnedUnlisted ==
  ASSUME TypeOK, OneHandle, NEW c \in Cores, NEW k \in Kinds, NEW r \in Regions,
         local[c][k] = r
  PROVE  /\ \A i \in DOMAIN from : from[i] # r
         /\ \A i \in DOMAIN free_regions : free_regions[i] # r
<1>1. <<c, k>> \in Owners(r)
  BY DEF Owners
<1>2. Cardinality(Owners(r)) # 0
  BY <1>1, OwnersFinite, FS_EmptySet
<1>3. Copies(from, r) = 0 /\ Copies(free_regions, r) = 0
  BY <1>2, CountsTyped DEF OneHandle
<1> QED
  BY <1>3, CountsTyped, PlacesFinite, LenProperties

LEMMA TypesFrame ==
  ASSUME TypeOK
  PROVE  /\ local \in [Cores -> [Kinds -> Regions \cup {None}]]
         /\ buf \in [Cores -> [Kinds -> Regions]]
         /\ nt \in [Regions -> BOOLEAN]
         /\ bump \in [Regions -> 0..Slots]
         /\ ref \in [Regions -> 0..Slots]
         /\ free_regions \in Seq(Regions) /\ used_regions \in Seq(Regions)
         /\ nt_used_regions \in Seq(Regions) /\ from \in Seq(Regions)
BY DEF TypeOK

-----------------------------------------------------------------------------
(* The steps.                                                              *)

\* A step that moves no handle.
LEMMA HandlesStay ==
  ASSUME OneHandle, UNCHANGED <<listVars, local, from>>
  PROVE  OneHandle'
BY DEF OneHandle, Owners, Copies, listVars

LEMMA AllocateStep ==
  ASSUME Inv, NEW c \in Cores, NEW k \in Kinds, Allocate(c, k)
  PROVE  Inv'
<1>1. PICK r \in Regions : r = local[c][k]
  BY TypesFrame DEF Inv, Allocate
<1>2. /\ bump[r] < Slots
      /\ bump' = [bump EXCEPT ![r] = @ + 1] /\ ref' = [ref EXCEPT ![r] = @ + 1]
      /\ UNCHANGED <<listVars, local, buf, nt, from, gc>>
  BY <1>1 DEF Allocate
<1>3. OneHandle'
  BY <1>2, HandlesStay DEF Inv
<1>4. /\ bump[r] \in 0..Slots /\ ref[r] \in 0..Slots /\ ref[r] <= bump[r]
      /\ bump[r] + 1 \in 0..Slots /\ ref[r] + 1 \in 0..Slots
  BY <1>2, TypesFrame, SlotsAssumption DEF Inv, RefsBounded
<1>5. bump' \in [Regions -> 0..Slots] /\ ref' \in [Regions -> 0..Slots]
  BY <1>2, <1>4, TypesFrame DEF Inv
<1>6. TypeOK'
  BY <1>2, <1>5 DEF Inv, TypeOK, listVars
<1>7. RefsBounded'
  <2> SUFFICES ASSUME NEW x \in Regions PROVE ref'[x] <= bump'[x]
    BY DEF RefsBounded
  <2>1. CASE x = r
    BY <1>2, <1>4, <2>1, TypesFrame DEF Inv
  <2>2. CASE x # r
    BY <1>2, <2>2, TypesFrame DEF Inv, RefsBounded
  <2> QED
    BY <2>1, <2>2
<1>8. CollectedIsQuiet'
  <2>1. /\ \A i \in DOMAIN from : from[i] # r /\ from[i] \in Regions
        /\ \A i \in DOMAIN free_regions : free_regions[i] # r /\ free_regions[i] \in Regions
    BY <1>1, OwnedUnlisted, TypesFrame, ElementOfSeq, LenProperties DEF Inv
  <2>2. free_regions' = free_regions /\ from' = from
    BY <1>2 DEF listVars
  <2>3. \A x \in Regions : x # r => ref'[x] = ref[x] /\ bump'[x] = bump[x]
    BY <1>2, TypesFrame DEF Inv
  <2> QED
    BY <2>1, <2>2, <2>3 DEF Inv, CollectedIsQuiet
<1> QED
  BY <1>3, <1>6, <1>7, <1>8 DEF Inv

LEMMA InitialiseStep ==
  ASSUME Inv, NEW r \in Regions, Initialise(r)
  PROVE  Inv'
<1>1. /\ ref[r] > 0 /\ ref' = [ref EXCEPT ![r] = @ - 1]
      /\ UNCHANGED <<listVars, local, buf, nt, bump, from, gc>>
  BY DEF Initialise
<1>2. OneHandle'
  BY <1>1, HandlesStay DEF Inv
<1>3. ref[r] \in 0..Slots /\ bump[r] \in 0..Slots /\ ref[r] - 1 \in 0..Slots
  BY <1>1, TypesFrame, SlotsAssumption DEF Inv
<1>4. ref' \in [Regions -> 0..Slots]
  BY <1>1, <1>3, TypesFrame DEF Inv
<1>5. TypeOK'
  BY <1>1, <1>4 DEF Inv, TypeOK, listVars
<1>6. RefsBounded'
  <2> SUFFICES ASSUME NEW x \in Regions PROVE ref'[x] <= bump'[x]
    BY DEF RefsBounded
  <2>1. CASE x = r
    <3>1. ref'[r] = ref[r] - 1 /\ bump'[r] = bump[r] /\ ref[r] <= bump[r]
      BY <1>1, TypesFrame DEF Inv, RefsBounded
    <3> QED
      BY <1>3, <2>1, <3>1
  <2>2. CASE x # r
    BY <1>1, <2>2, TypesFrame DEF Inv, RefsBounded
  <2> QED
    BY <2>1, <2>2
<1>7. CollectedIsQuiet'
  <2>1. /\ \A i \in DOMAIN from : from[i] \in Regions
        /\ \A i \in DOMAIN free_regions : free_regions[i] \in Regions
    BY TypesFrame, ElementOfSeq, LenProperties DEF Inv
  <2>2. free_regions' = free_regions /\ from' = from /\ bump' = bump
    BY <1>1 DEF listVars
  <2>3. \A x \in Regions : ref[x] = 0 => ref'[x] = 0
    BY <1>1, <1>3, TypesFrame DEF Inv
  <2> QED
    BY <2>1, <2>2, <2>3 DEF Inv, CollectedIsQuiet
<1> QED
  BY <1>2, <1>5, <1>6, <1>7 DEF Inv

\* The tail of a list and what Append adds, element by element.
LEMMA TailElements ==
  ASSUME NEW S, NEW s \in Seq(S), s # <<>>
  PROVE  /\ Tail(s) \in Seq(S) /\ Head(s) \in S /\ 1 \in DOMAIN s /\ Head(s) = s[1]
         /\ \A i \in DOMAIN Tail(s) : i + 1 \in DOMAIN s /\ Tail(s)[i] = s[i + 1]
<1>1. /\ Tail(s) \in Seq(S) /\ Head(s) \in S /\ Head(s) = s[1]
      /\ Len(Tail(s)) = Len(s) - 1 /\ Len(s) \in Nat /\ Len(s) # 0
      /\ \A i \in 1..Len(Tail(s)) : Tail(s)[i] = s[i + 1]
  BY HeadTailProperties, EmptySeq, LenProperties
<1>2. DOMAIN s = 1..Len(s) /\ DOMAIN Tail(s) = 1..Len(Tail(s))
  BY <1>1, LenProperties
<1>3. 1 \in DOMAIN s
  BY <1>1, <1>2
<1>4. \A i \in DOMAIN Tail(s) : i + 1 \in DOMAIN s /\ Tail(s)[i] = s[i + 1]
  BY <1>1, <1>2
<1> QED
  BY <1>1, <1>3, <1>4

LEMMA AppendElements ==
  ASSUME NEW S, NEW s \in Seq(S), NEW x \in S
  PROVE  /\ Append(s, x) \in Seq(S)
         /\ \A i \in DOMAIN Append(s, x) :
              \/ i \in DOMAIN s /\ Append(s, x)[i] = s[i]
              \/ Append(s, x)[i] = x
<1>1. /\ Append(s, x) \in Seq(S) /\ Len(Append(s, x)) = Len(s) + 1
      /\ Append(s, x)[Len(s) + 1] = x /\ Len(s) \in Nat
      /\ \A i \in 1..Len(s) : Append(s, x)[i] = s[i]
  BY AppendProperties, LenProperties
<1>2. DOMAIN s = 1..Len(s) /\ DOMAIN Append(s, x) = 1..Len(s) + 1
  BY <1>1, LenProperties
<1> QED
  BY <1>1, <1>2

\* The handle that is retired joins one list, an invalid one none.
LEMMA RetireCopies ==
  ASSUME TypeOK, NEW r \in Regions \cup {None}, Retire(r), NEW x \in Regions
  PROVE  /\ used_regions' \in Seq(Regions) /\ nt_used_regions' \in Seq(Regions)
         /\ Copies(used_regions', x) \in Nat /\ Copies(nt_used_regions', x) \in Nat
         /\ Copies(used_regions', x) + Copies(nt_used_regions', x)
              = Copies(used_regions, x) + Copies(nt_used_regions, x) + (IF r = x THEN 1 ELSE 0)
<1> DEFINE u == used_regions
           n == nt_used_regions
<1>1. u \in Seq(Regions) /\ n \in Seq(Regions) /\ Copies(u, x) \in Nat /\ Copies(n, x) \in Nat
  BY CountsTyped
<1>2. CASE r = None
  <2>1. u' = u /\ n' = n /\ r # x
    BY <1>2, NoneAssumption DEF Retire
  <2> QED
    BY <1>1, <2>1
<1>3. CASE r # None /\ nt[r]
  <2>1. u' = u /\ n' = Append(n, r) /\ r \in Regions
    BY <1>3 DEF Retire
  <2>2. Append(n, r) \in Seq(Regions)
    BY <1>1, <2>1, AppendElements
  <2>3. Copies(Append(n, r), x) = Copies(n, x) + (IF r = x THEN 1 ELSE 0)
    BY <1>1, <2>1, AppendCopies
  <2> HIDE DEF u, n
  <2>4. /\ Copies(Append(n, r), x) \in Nat
        /\ Copies(u, x) + Copies(Append(n, r), x)
             = Copies(u, x) + Copies(n, x) + (IF r = x THEN 1 ELSE 0)
    BY <1>1, <2>3
  <2>5. /\ u' \in Seq(Regions) /\ n' \in Seq(Regions)
        /\ Copies(u', x) \in Nat /\ Copies(n', x) \in Nat
        /\ Copies(u', x) + Copies(n', x)
             = Copies(u, x) + Copies(n, x) + (IF r = x THEN 1 ELSE 0)
    BY <1>1, <2>1, <2>2, <2>4
  <2> QED
    BY <2>5 DEF u, n
<1>4. CASE r # None /\ ~nt[r]
  <2>1. n' = n /\ u' = Append(u, r) /\ r \in Regions
    BY <1>4 DEF Retire
  <2>2. Append(u, r) \in Seq(Regions)
    BY <1>1, <2>1, AppendElements
  <2>3. Copies(Append(u, r), x) = Copies(u, x) + (IF r = x THEN 1 ELSE 0)
    BY <1>1, <2>1, AppendCopies
  <2> HIDE DEF u, n
  <2>4. /\ Copies(Append(u, r), x) \in Nat
        /\ Copies(Append(u, r), x) + Copies(n, x)
             = Copies(u, x) + Copies(n, x) + (IF r = x THEN 1 ELSE 0)
    BY <1>1, <2>3
  <2>5. /\ u' \in Seq(Regions) /\ n' \in Seq(Regions)
        /\ Copies(u', x) \in Nat /\ Copies(n', x) \in Nat
        /\ Copies(u', x) + Copies(n', x)
             = Copies(u, x) + Copies(n, x) + (IF r = x THEN 1 ELSE 0)
    BY <1>1, <2>1, <2>2, <2>4
  <2> QED
    BY <2>5 DEF u, n
<1> QED
  BY <1>2, <1>3, <1>4

LEMMA RefillStep ==
  ASSUME Inv, NEW c \in Cores, NEW k \in Kinds, try_refill_core_local_free_region(c, k)
  PROVE  Inv'
<1> DEFINE old == local[c][k]
<1>t. TypeOK /\ OneHandle /\ CollectedIsQuiet /\ RefsBounded
  BY DEF Inv
<1>1. old \in Regions \cup {None} /\ Retire(old) /\ UNCHANGED <<bump, ref, from, gc>>
  BY <1>t, TypesFrame DEF try_refill_core_local_free_region
<1>r. RefsBounded'
  BY <1>t, <1>1 DEF RefsBounded
\* The handle takes new, the free list becomes rest.
<1>2. PICK new \in Regions \cup {None} :
        /\ local' = [local EXCEPT ![c][k] = new]
        /\ new = None => free_regions' = free_regions /\ buf' = buf
        /\ new # None => /\ free_regions # <<>> /\ free_regions' = Tail(free_regions)
                         /\ new = Head(free_regions)
                         /\ buf' = [buf EXCEPT ![c][k] = new]
  <2>1. CASE free_regions = <<>>
    BY <2>1 DEF try_refill_core_local_free_region
  <2>2. CASE free_regions # <<>>
    <3>1. Head(free_regions) \in Regions
      BY <1>t, <2>2, TypesFrame, TailElements
    <3>2. Head(free_regions) # None
      BY <3>1, NoneAssumption
    <3> QED
      BY <2>2, <3>1, <3>2 DEF try_refill_core_local_free_region
  <2> QED
    BY <2>1, <2>2
<1>3. /\ free_regions' \in Seq(Regions)
      /\ \A x \in Regions : Copies(free_regions, x)
           = Copies(free_regions', x) + (IF new = x THEN 1 ELSE 0)
      /\ \A i \in DOMAIN free_regions' :
           \E j \in DOMAIN free_regions : free_regions'[i] = free_regions[j]
  <2>1. CASE new = None
    <3>1. \A x \in Regions : Copies(free_regions, x) \in Nat
      BY <1>t, CountsTyped
    <3> QED
      BY <1>t, <1>2, <2>1, <3>1, TypesFrame, NoneAssumption
  <2>2. CASE new # None
    <3>1. free_regions \in Seq(Regions) /\ free_regions # <<>> /\ new = Head(free_regions)
           /\ free_regions' = Tail(free_regions)
      BY <1>t, <1>2, <2>2, TypesFrame
    <3>2. Tail(free_regions) \in Seq(Regions)
           /\ \A i \in DOMAIN Tail(free_regions) :
                i + 1 \in DOMAIN free_regions /\ Tail(free_regions)[i] = free_regions[i + 1]
      BY <3>1, TailElements
    <3>3. \A x \in Regions : Copies(free_regions, x)
            = Copies(Tail(free_regions), x) + (IF Head(free_regions) = x THEN 1 ELSE 0)
      BY <3>1, TailCopies
    <3> QED
      BY <3>1, <3>2, <3>3
  <2> QED
    BY <2>1, <2>2
<1>4. OneHandle'
  <2> SUFFICES ASSUME NEW x \in Regions
      PROVE Copies(free_regions', x) + Copies(used_regions', x) + Copies(nt_used_regions', x)
              + Copies(from', x) + Cardinality(Owners(x)') = 1
    BY DEF OneHandle, Copies
  <2>1. PICK a \in Nat, b \in Nat, d \in Nat, e \in Nat, f \in Nat :
          /\ a = Copies(free_regions, x) /\ b = Copies(used_regions, x)
          /\ d = Copies(nt_used_regions, x) /\ e = Copies(from, x)
          /\ f = Cardinality(Owners(x)) /\ a + b + d + e + f = 1
    BY <1>t, CountsTyped DEF OneHandle
  <2>2. PICK bb \in Nat, dd \in Nat :
          /\ bb = Copies(used_regions', x) /\ dd = Copies(nt_used_regions', x)
          /\ bb + dd = b + d + (IF old = x THEN 1 ELSE 0)
    BY <1>t, <1>1, <2>1, RetireCopies
  <2>3. PICK aa \in Nat : aa = Copies(free_regions', x)
                          /\ a = aa + (IF new = x THEN 1 ELSE 0)
    BY <1>3, <2>1, PlacesFinite
  <2>4. Cardinality(Owners(x)') = f - (IF old = x THEN 1 ELSE 0) + (IF new = x THEN 1 ELSE 0)
    <3>1. local \in [Cores -> [Kinds -> Regions \cup {None}]]
      BY <1>t, TypesFrame
    <3>2. local' = [local EXCEPT ![c][k] = new]
      BY <1>2
    <3>3. Owners(x) = Holders(local, x) /\ Owners(x)' = Holders(local', x)
      BY DEF Owners, Holders
    <3>4. IsFiniteSet(Holders(local, x))
      BY <3>3, OwnersFinite
    <3>5. Cardinality(Holders(local', x)) = Cardinality(Holders(local, x))
            - (IF local[c][k] = x THEN 1 ELSE 0) + (IF new = x THEN 1 ELSE 0)
      <4>1. local'[c][k] = new
        BY <3>1, <3>2
      <4>2. \A core \in Cores, l \in Kinds :
              (core = c /\ l = k) \/ local'[core][l] = local[core][l]
        BY <3>1, <3>2
      <4> QED
        BY <3>4, <4>1, <4>2, HoldersMove
    <3> QED
      BY <2>1, <3>3, <3>5
  <2>5. Copies(from', x) = e
    BY <1>1, <2>1
  <2> HIDE DEF old
  <2> QED
    BY <2>1, <2>2, <2>3, <2>4, <2>5
<1>5. CollectedIsQuiet'
  <2>1. \A j \in DOMAIN free_regions :
          ref'[free_regions[j]] = 0 /\ bump'[free_regions[j]] = 0
    BY <1>t, <1>1 DEF CollectedIsQuiet
  <2>2. \A i \in DOMAIN free_regions' :
          ref'[free_regions'[i]] = 0 /\ bump'[free_regions'[i]] = 0
    BY <1>3, <2>1
  <2>3. \A i \in DOMAIN from' : ref'[from'[i]] = 0
    BY <1>t, <1>1 DEF CollectedIsQuiet
  <2> QED
    BY <2>2, <2>3 DEF CollectedIsQuiet
<1>6. TypeOK'
  <2>1. local' \in [Cores -> [Kinds -> Regions \cup {None}]]
    BY <1>t, <1>2, TypesFrame
  <2>2. buf' \in [Cores -> [Kinds -> Regions]]
    BY <1>t, <1>2, TypesFrame
  <2>3. nt' \in [Regions -> BOOLEAN]
    <3>1. nt' = nt \/ nt' = [nt EXCEPT ![buf'[c][k]] = TRUE]
      BY DEF try_refill_core_local_free_region
    <3> QED
      BY <1>t, <2>2, <3>1, TypesFrame
  <2>4. used_regions' \in Seq(Regions) /\ nt_used_regions' \in Seq(Regions)
    <3>1. \A x \in Regions : Append(used_regions, x) \in Seq(Regions)
                             /\ Append(nt_used_regions, x) \in Seq(Regions)
      BY <1>t, TypesFrame, AppendElements
    <3> QED
      BY <1>t, <1>1, <3>1, TypesFrame DEF Retire
  <2> QED
    BY <1>t, <1>1, <1>3, <2>1, <2>2, <2>3, <2>4 DEF TypeOK
<1> QED
  BY <1>4, <1>5, <1>6, <1>r DEF Inv

\* What pop_used_region hands out is quiet and leaves one of the used lists; the
\* other handles only change places.
LEMMA PopCopies ==
  ASSUME TypeOK, NEW r, pop_used_region(r)
  PROVE  /\ used_regions' \in Seq(Regions) /\ nt_used_regions' \in Seq(Regions)
         /\ r \in Regions \cup {None}
         /\ r # None => ref[r] = 0
         /\ \A x \in Regions : Copies(used_regions, x) + Copies(nt_used_regions, x)
              = Copies(used_regions', x) + Copies(nt_used_regions', x) + (IF r = x THEN 1 ELSE 0)
<1>0. PICK u \in Seq(Regions), n \in Seq(Regions) :
        u = used_regions /\ n = nt_used_regions
  BY TypesFrame
<1>l. Len(n) \in Nat /\ DOMAIN n = 1..Len(n)
  BY LenProperties
<1>c. \A x \in Regions : /\ Copies(u, x) \in Nat /\ Copies(n, x) \in Nat
  BY PlacesFinite
<1>1. ASSUME NEW i \in NtCandidates, r = n[i],
             nt_used_regions' = Tail(Rotate(n, i - 1)), used_regions' = u
      PROVE  /\ used_regions' \in Seq(Regions) /\ nt_used_regions' \in Seq(Regions)
             /\ r \in Regions \cup {None}
             /\ r # None => ref[r] = 0
             /\ \A x \in Regions : Copies(u, x) + Copies(n, x)
                  = Copies(used_regions', x) + Copies(nt_used_regions', x)
                      + (IF r = x THEN 1 ELSE 0)
  <2>1. i \in 1..Len(n) /\ ref[r] = 0
    BY <1>0, <1>1, <1>l DEF NtCandidates, is_gcable
  <2>2. PICK m \in 0..Len(n) : m = i - 1 /\ m < Len(n) /\ m + 1 = i
    BY <1>l, <2>1
  <2>3. PICK v \in Seq(Regions) : /\ v = Rotate(n, i - 1) /\ v # <<>> /\ Head(v) = n[i]
                                  /\ \A x \in Regions : Copies(v, x) = Copies(n, x)
    <3>1. /\ Rotate(n, m) \in Seq(Regions)
          /\ Rotate(n, m) # <<>> /\ Head(Rotate(n, m)) = n[m + 1]
      BY <2>2, RotateCopies
    <3>2. \A x \in Regions : Copies(Rotate(n, m), x) = Copies(n, x)
      BY RotateCopies
    <3> QED
      BY <2>2, <3>1, <3>2
  <2>4. Tail(v) \in Seq(Regions) /\ r \in Regions
    BY <1>1, <2>3, TailElements
  <2>5. \A x \in Regions : Copies(v, x) = Copies(Tail(v), x) + (IF r = x THEN 1 ELSE 0)
    BY <1>1, <2>3, TailCopies
  <2>6. \A x \in Regions : Copies(Tail(v), x) \in Nat
    BY <2>4, PlacesFinite
  <2>7. nt_used_regions' = Tail(v)
    BY <1>1, <2>3
  <2>8. ASSUME NEW x \in Regions
        PROVE  Copies(u, x) + Copies(n, x)
                 = Copies(u, x) + Copies(Tail(v), x) + (IF r = x THEN 1 ELSE 0)
    <3>1. PICK a \in Nat, b \in Nat, d \in Nat :
            a = Copies(u, x) /\ b = Copies(n, x) /\ d = Copies(Tail(v), x)
            /\ b = d + (IF r = x THEN 1 ELSE 0)
      BY <1>c, <2>3, <2>5, <2>6
    <3> QED
      BY <3>1
  <2> QED
    BY <1>1, <2>1, <2>4, <2>7, <2>8
<1>2. ASSUME nt_used_regions' = IF n = <<>> THEN <<>> ELSE Rotate(n, Tries % Len(n))
      PROVE  /\ nt_used_regions' \in Seq(Regions)
             /\ \A x \in Regions : Copies(nt_used_regions', x) = Copies(n, x)
  <2>1. CASE n = <<>>
    BY <1>2, <2>1
  <2>2. CASE n # <<>>
    <3>1. Len(n) # 0
      BY <2>2, EmptySeq
    <3>2. Tries % Len(n) \in 0..Len(n)
      <4>1. PICK l \in Nat \ {0} : l = Len(n)
        BY <1>l, <3>1
      <4>2. 5 % l \in 0..l
        OBVIOUS
      <4> QED
        BY <4>1, <4>2 DEF Tries, kPickRegionMaxRetryTimes
    <3> QED
      BY <1>2, <2>2, <3>2, RotateCopies
  <2> QED
    BY <2>1, <2>2
<1>3. CASE \E i \in NtCandidates :
             /\ \A j \in NtCandidates : i <= j
             /\ r = nt_used_regions[i]
             /\ nt_used_regions' = Tail(Rotate(nt_used_regions, i - 1))
             /\ UNCHANGED used_regions
  BY <1>0, <1>1, <1>3
<1>4. CASE /\ nt_used_regions' = IF nt_used_regions = <<>> THEN <<>>
                ELSE Rotate(nt_used_regions, Tries % Len(nt_used_regions))
           /\ used_regions # <<>> /\ is_gcable(Head(used_regions))
           /\ r = Head(used_regions)
           /\ used_regions' = Tail(used_regions)
  <2>1. /\ nt_used_regions' \in Seq(Regions)
        /\ \A x \in Regions : Copies(nt_used_regions', x) = Copies(n, x)
    BY <1>0, <1>2, <1>4
  <2>2. Tail(u) \in Seq(Regions) /\ r \in Regions /\ ref[r] = 0 /\ used_regions' = Tail(u)
    BY <1>0, <1>4, TailElements DEF is_gcable
  <2>3. \A x \in Regions : Copies(u, x) = Copies(Tail(u), x) + (IF r = x THEN 1 ELSE 0)
    BY <1>0, <1>4, TailCopies
  <2>4. \A x \in Regions : Copies(Tail(u), x) \in Nat
    BY <2>2, PlacesFinite
  <2>5. ASSUME NEW x \in Regions
        PROVE  Copies(u, x) + Copies(n, x)
                 = Copies(Tail(u), x) + Copies(n, x) + (IF r = x THEN 1 ELSE 0)
    <3>1. PICK a \in Nat, b \in Nat, d \in Nat :
            a = Copies(u, x) /\ b = Copies(n, x) /\ d = Copies(Tail(u), x)
            /\ a = d + (IF r = x THEN 1 ELSE 0)
      BY <1>c, <2>3, <2>4
    <3> QED
      BY <3>1
  <2> QED
    BY <1>0, <2>1, <2>2, <2>5
<1>5. CASE /\ nt_used_regions' = IF nt_used_regions = <<>> THEN <<>>
                ELSE Rotate(nt_used_regions, Tries % Len(nt_used_regions))
           /\ r = None /\ UNCHANGED used_regions
  <2>1. /\ nt_used_regions' \in Seq(Regions)
        /\ \A x \in Regions : Copies(nt_used_regions', x) = Copies(n, x)
    BY <1>0, <1>2, <1>5
  <2>2. \A x \in Regions : r # x
    BY <1>5, NoneAssumption
  <2> QED
    BY <1>0, <1>5, <1>c, <2>1, <2>2
<1> QED
  BY <1>3, <1>4, <1>5 DEF pop_used_region

LEMMA PickStep ==
  ASSUME Inv, pick_from_regions
  PROVE  Inv'
<1>t. TypeOK /\ OneHandle /\ CollectedIsQuiet /\ RefsBounded
  BY DEF Inv
<1>1. PICK r \in Regions \cup {None} :
        /\ pop_used_region(r)
        /\ from' = IF r = None THEN from ELSE Append(from, r)
        /\ gc' \in {"pick", "collected"}
        /\ UNCHANGED <<free_regions, local, buf, nt, bump, ref>>
  BY DEF pick_from_regions
<1>2. /\ used_regions' \in Seq(Regions) /\ nt_used_regions' \in Seq(Regions)
      /\ r # None => ref[r] = 0
      /\ \A x \in Regions : Copies(used_regions, x) + Copies(nt_used_regions, x)
           = Copies(used_regions', x) + Copies(nt_used_regions', x) + (IF r = x THEN 1 ELSE 0)
  BY <1>t, <1>1, PopCopies
<1>3. /\ from' \in Seq(Regions)
      /\ \A x \in Regions : Copies(from', x) = Copies(from, x) + (IF r = x THEN 1 ELSE 0)
      /\ \A i \in DOMAIN from' : \/ i \in DOMAIN from /\ from'[i] = from[i]
                                 \/ r # None /\ from'[i] = r
  <2>1. from \in Seq(Regions) /\ \A x \in Regions : Copies(from, x) \in Nat
    BY <1>t, CountsTyped, TypesFrame
  <2>2. CASE r = None
    BY <1>1, <2>1, <2>2, NoneAssumption
  <2>3. CASE r # None
    <3>1. r \in Regions /\ from' = Append(from, r)
      BY <1>1, <2>3
    <3>2. /\ Append(from, r) \in Seq(Regions)
          /\ \A i \in DOMAIN Append(from, r) : \/ i \in DOMAIN from /\ Append(from, r)[i] = from[i]
                                               \/ Append(from, r)[i] = r
      BY <2>1, <3>1, AppendElements
    <3>3. \A x \in Regions : Copies(Append(from, r), x)
            = Copies(from, x) + (IF r = x THEN 1 ELSE 0)
      BY <2>1, <3>1, AppendCopies
    <3> QED
      BY <2>3, <3>1, <3>2, <3>3
  <2> QED
    BY <2>2, <2>3
<1>4. OneHandle'
  <2> SUFFICES ASSUME NEW x \in Regions
      PROVE Copies(free_regions', x) + Copies(used_regions', x) + Copies(nt_used_regions', x)
              + Copies(from', x) + Cardinality(Owners(x)') = 1
    BY DEF OneHandle, Copies
  <2>1. PICK a \in Nat, b \in Nat, d \in Nat, e \in Nat, f \in Nat :
          /\ a = Copies(free_regions, x) /\ b = Copies(used_regions, x)
          /\ d = Copies(nt_used_regions, x) /\ e = Copies(from, x)
          /\ f = Cardinality(Owners(x)) /\ a + b + d + e + f = 1
    BY <1>t, CountsTyped DEF OneHandle
  <2>2. PICK bb \in Nat, dd \in Nat, ee \in Nat :
          /\ bb = Copies(used_regions', x) /\ dd = Copies(nt_used_regions', x)
          /\ ee = Copies(from', x)
    BY <1>2, <1>3, PlacesFinite
  <2>3. b + d = bb + dd + (IF r = x THEN 1 ELSE 0) /\ ee = e + (IF r = x THEN 1 ELSE 0)
    BY <1>2, <1>3, <2>1, <2>2
  <2>4. Copies(free_regions', x) = a /\ Cardinality(Owners(x)') = f
    BY <1>1, <2>1 DEF Owners
  <2> QED
    BY <2>1, <2>2, <2>3, <2>4
<1>5. CollectedIsQuiet'
  BY <1>t, <1>1, <1>2, <1>3 DEF CollectedIsQuiet
<1>6. TypeOK'
  BY <1>t, <1>1, <1>2, <1>3 DEF TypeOK
<1>7. RefsBounded'
  BY <1>t, <1>1 DEF RefsBounded
<1> QED
  BY <1>4, <1>5, <1>6, <1>7 DEF Inv

LEMMA PushStep ==
  ASSUME Inv, push_free_region
  PROVE  Inv'
<1>t. TypeOK /\ OneHandle /\ CollectedIsQuiet /\ RefsBounded
  BY DEF Inv
<1>1. PICK r : r = Head(from)
  OBVIOUS
<1>2. /\ from \in Seq(Regions) /\ free_regions \in Seq(Regions)
      /\ from # <<>> /\ from' = Tail(from) /\ free_regions' = Append(free_regions, r)
      /\ bump' = [bump EXCEPT ![r] = 0] /\ nt' = [nt EXCEPT ![r] = FALSE]
      /\ gc' \in {"pick", "collected"}
      /\ UNCHANGED <<used_regions, nt_used_regions, local, buf, ref>>
  BY <1>t, <1>1, TypesFrame DEF push_free_region
<1>3. /\ Tail(from) \in Seq(Regions) /\ r \in Regions /\ 1 \in DOMAIN from /\ r = from[1]
      /\ \A i \in DOMAIN Tail(from) : i + 1 \in DOMAIN from /\ Tail(from)[i] = from[i + 1]
  BY <1>1, <1>2, TailElements
<1>4. /\ Append(free_regions, r) \in Seq(Regions)
      /\ \A i \in DOMAIN Append(free_regions, r) :
           \/ i \in DOMAIN free_regions /\ Append(free_regions, r)[i] = free_regions[i]
           \/ Append(free_regions, r)[i] = r
  BY <1>2, <1>3, AppendElements
<1>5. ref[r] = 0
  BY <1>t, <1>3 DEF CollectedIsQuiet
<1>6. OneHandle'
  <2> SUFFICES ASSUME NEW x \in Regions
      PROVE Copies(free_regions', x) + Copies(used_regions', x) + Copies(nt_used_regions', x)
              + Copies(from', x) + Cardinality(Owners(x)') = 1
    BY DEF OneHandle, Copies
  <2>1. PICK a \in Nat, b \in Nat, d \in Nat, e \in Nat, f \in Nat :
          /\ a = Copies(free_regions, x) /\ b = Copies(used_regions, x)
          /\ d = Copies(nt_used_regions, x) /\ e = Copies(from, x)
          /\ f = Cardinality(Owners(x)) /\ a + b + d + e + f = 1
    BY <1>t, CountsTyped DEF OneHandle
  <2>2. PICK ee \in Nat : ee = Copies(Tail(from), x)
    BY <1>3, PlacesFinite
  <2>3. e = ee + (IF r = x THEN 1 ELSE 0)
    BY <1>1, <1>2, <2>1, <2>2, TailCopies
  <2>4. Copies(Append(free_regions, r), x) = a + (IF r = x THEN 1 ELSE 0)
    <3>1. Copies(Append(free_regions, r), x)
            = Copies(free_regions, x) + (IF r = x THEN 1 ELSE 0)
      BY <1>2, <1>3, AppendCopies
    <3> QED
      BY <2>1, <3>1
  <2>5. /\ Copies(used_regions', x) = b /\ Copies(nt_used_regions', x) = d
        /\ Cardinality(Owners(x)') = f /\ Copies(from', x) = ee
        /\ Copies(free_regions', x) = a + (IF r = x THEN 1 ELSE 0)
    BY <1>2, <2>1, <2>2, <2>4 DEF Owners
  <2> QED
    BY <2>1, <2>2, <2>3, <2>5
<1>7. /\ \A x \in Regions : bump'[x] = IF x = r THEN 0 ELSE bump[x]
      /\ bump' \in [Regions -> 0..Slots] /\ nt' \in [Regions -> BOOLEAN]
  BY <1>t, <1>2, <1>3, TypesFrame, SlotsAssumption
<1>8. CollectedIsQuiet'
  <2>1. \A i \in DOMAIN free_regions : free_regions[i] \in Regions
    BY <1>2, ElementOfSeq, LenProperties
  <2>2. \A i \in DOMAIN from' : ref'[from'[i]] = 0
    BY <1>t, <1>2, <1>3 DEF CollectedIsQuiet
  <2>3. ASSUME NEW i \in DOMAIN free_regions'
        PROVE  ref'[free_regions'[i]] = 0 /\ bump'[free_regions'[i]] = 0
    BY <1>t, <1>2, <1>3, <1>4, <1>5, <1>7, <2>1 DEF CollectedIsQuiet
  <2> QED
    BY <2>2, <2>3 DEF CollectedIsQuiet
<1>9. RefsBounded'
  <2> SUFFICES ASSUME NEW x \in Regions PROVE ref'[x] <= bump'[x]
    BY DEF RefsBounded
  <2> QED
    BY <1>t, <1>2, <1>5, <1>7 DEF RefsBounded
<1>10. TypeOK'
  BY <1>t, <1>2, <1>3, <1>4, <1>7 DEF TypeOK
<1> QED
  BY <1>6, <1>8, <1>9, <1>10 DEF Inv

-----------------------------------------------------------------------------
(* The constructor.                                                        *)

\* A listing of a set has each of its elements once.
LEMMA OneOfEach ==
  ASSUME NEW S, IsFiniteSet(S), NEW s \in SetToSeqs(S)
  PROVE  /\ s \in Seq(S)
         /\ \A r : Copies(s, r) = IF r \in S THEN 1 ELSE 0
<1>1. PICK n \in Nat : n = Cardinality(S)
  BY FS_CardinalityType
<1>2. s \in [1..n -> S] /\ \A i, j \in 1..n : s[i] = s[j] => i = j
  BY <1>1 DEF SetToSeqs
<1>3. s \in Injection(1..n, S)
  <2>1. \A i, j \in 1..n : s[i] = s[j] => i = j
    BY <1>2
  <2> QED
    BY <1>2, <2>1 DEF Injection, IsInjective
<1>4. Cardinality(1..n) = n
  <2>1. 1 \in Int /\ n \in Int /\ (IF 1 > n THEN 0 ELSE n - 1 + 1) = n
    OBVIOUS
  <2> QED
    BY <2>1, FS_Interval
<1>5. s \in Surjection(1..n, S)
  BY <1>1, <1>3, <1>4, FS_Injection
<1>6. s \in Seq(S) /\ Len(s) = n /\ DOMAIN s = 1..n
  <2>1. s \in Seq(S)
    BY <1>2, SeqDef
  <2> QED
    BY <1>2, <2>1, LenProperties
<1>7. ASSUME NEW r, r \in S PROVE Copies(s, r) = 1
  <2>1. PICK i \in 1..n : s[i] = r
    BY <1>5, <1>7 DEF Surjection
  <2>2. Places(s, r) = {i}
    BY <1>2, <1>6, <2>1 DEF Places
  <2>3. Cardinality({i}) = 1
    BY FS_Singleton
  <2> QED
    BY <2>2, <2>3 DEF Copies, Places
<1>8. ASSUME NEW r, r \notin S PROVE Copies(s, r) = 0
  <2>1. \A i \in 1..Len(s) : s[i] # r
    BY <1>2, <1>6, <1>8
  <2> QED
    BY <1>6, <2>1, PlacesFinite
<1> QED
  BY <1>6, <1>7, <1>8

LEMMA InitInv ==
  Init => Inv
<1> SUFFICES ASSUME Init PROVE Inv
  OBVIOUS
<1> DEFINE owned == {local[c][k] : c \in Cores, k \in Kinds}
<1>1. /\ local \in [Cores -> [Kinds -> Regions]] /\ buf = local
      /\ free_regions \in SetToSeqs(Regions \ owned)
      /\ nt = [r \in Regions |-> \E c \in Cores : local[c]["nt"] = r]
      /\ used_regions = <<>> /\ nt_used_regions = <<>> /\ from = <<>>
      /\ bump = [r \in Regions |-> 0] /\ ref = [r \in Regions |-> 0] /\ gc = "pick"
  BY DEF Init
<1>2. \A c, d \in Cores, k, l \in Kinds : local[c][k] = local[d][l] => c = d /\ k = l
  BY DEF Init
<1>3. IsFiniteSet(Regions \ owned)
  <2>1. Regions \ owned \in SUBSET Regions
    OBVIOUS
  <2> HIDE DEF owned
  <2> QED
    BY <2>1, RegionsAssumption, FS_Subset
<1>4. /\ free_regions \in Seq(Regions \ owned)
      /\ \A r : Copies(free_regions, r) = IF r \in Regions \ owned THEN 1 ELSE 0
  <2> HIDE DEF owned
  <2> QED
    BY <1>1, <1>3, OneOfEach
<1>5. free_regions \in Seq(Regions)
  <2>1. Regions \ owned \subseteq Regions
    OBVIOUS
  <2> HIDE DEF owned
  <2> QED
    BY <1>4, <2>1, SeqMonotonic
<1>6. TypeOK
  <2>1. local \in [Cores -> [Kinds -> Regions \cup {None}]]
    BY <1>1
  <2>2. \A r \in Regions : nt[r] \in BOOLEAN
    BY <1>1
  <2>3. nt \in [Regions -> BOOLEAN]
    BY <1>1, <2>2
  <2>4. bump \in [Regions -> 0..Slots] /\ ref \in [Regions -> 0..Slots]
    BY <1>1, SlotsAssumption
  <2> HIDE DEF owned
  <2> QED
    BY <1>1, <1>5, <2>1, <2>3, <2>4 DEF TypeOK
<1>7. OneHandle
  <2> SUFFICES ASSUME NEW r \in Regions
      PROVE  Copies(free_regions, r) + Copies(used_regions, r) + Copies(nt_used_regions, r)
               + Copies(from, r) + Cardinality(Owners(r)) = 1
    BY DEF OneHandle
  <2>1. Copies(<<>>, r) = 0
    <3>1. <<>> \in Seq(Regions) /\ Len(<<>>) = 0
      BY EmptySeq
    <3>2. PICK s \in Seq(Regions) : s = <<>> /\ Len(s) = 0
      BY <3>1
    <3>3. 1..0 = {}
      OBVIOUS
    <3>4. Copies(s, r) = 0
      BY <3>2, <3>3, PlacesFinite
    <3> QED
      BY <3>2, <3>4
  <2>2. CASE r \in owned
    <3>1. PICK c \in Cores, k \in Kinds : local[c][k] = r
      BY <2>2
    <3>2. Owners(r) = {<<c, k>>}
      <4>1. \A ck \in Cores \X Kinds : local[ck[1]][ck[2]] = r => ck = <<c, k>>
        BY <1>2, <3>1
      <4>2. <<c, k>> \in Cores \X Kinds /\ local[<<c, k>>[1]][<<c, k>>[2]] = r
        BY <3>1
      <4> QED
        BY <4>1, <4>2 DEF Owners
    <3>3. Cardinality({<<c, k>>}) = 1
      BY FS_Singleton
    <3>4. Copies(free_regions, r) = 0
      BY <1>4, <2>2
    <3> QED
      BY <1>1, <2>1, <3>2, <3>3, <3>4
  <2>3. CASE r \notin owned
    <3>1. Owners(r) = {}
      BY <2>3 DEF Owners
    <3>2. Cardinality({}) = 0
      BY FS_EmptySet
    <3>3. Copies(free_regions, r) = 1
      BY <1>4, <2>3
    <3> QED
      BY <1>1, <2>1, <3>1, <3>2, <3>3
  <2> QED
    BY <2>2, <2>3
<1>8. CollectedIsQuiet
  <2>1. \A i \in DOMAIN free_regions : free_regions[i] \in Regions
    BY <1>5, ElementOfSeq, LenProperties
  <2>2. DOMAIN from = {}
    BY <1>1
  <2>3. \A r \in Regions : ref[r] = 0 /\ bump[r] = 0
    BY <1>1
  <2> HIDE DEF owned
  <2> QED
    BY <2>1, <2>2, <2>3 DEF CollectedIsQuiet
<1>9. RefsBounded
  <2>1. \A r \in Regions : ref[r] = 0 /\ bump[r] = 0
    BY <1>1
  <2> QED
    BY <2>1 DEF RefsBounded
<1> QED
  BY <1>6, <1>7, <1>8, <1>9 DEF Inv

LEMMA StepInv ==
  Inv /\ [Next]_vars => Inv'
<1> SUFFICES ASSUME Inv, [Next]_vars PROVE Inv'
  OBVIOUS
<1>1. ASSUME NEW c \in Cores, NEW k \in Kinds,
             Allocate(c, k) \/ try_refill_core_local_free_region(c, k)
      PROVE  Inv'
  BY <1>1, AllocateStep, RefillStep
<1>2. ASSUME NEW r \in Regions, Initialise(r) PROVE Inv'
  BY <1>2, InitialiseStep
<1>3. CASE pick_from_regions
  BY <1>3, PickStep
<1>4. CASE push_free_region
  BY <1>4, PushStep
<1>5. CASE UNCHANGED vars
  <2>1. OneHandle'
    BY <1>5, HandlesStay DEF Inv, vars
  <2>2. TypeOK'
    BY <1>5 DEF Inv, TypeOK, vars, listVars
  <2>3. CollectedIsQuiet' /\ RefsBounded'
    BY <1>5 DEF Inv, CollectedIsQuiet, RefsBounded, vars, listVars
  <2> QED
    BY <2>1, <2>2, <2>3 DEF Inv
<1> QED
  BY <1>1, <1>2, <1>3, <1>4, <1>5 DEF Next

LEMMA InvHolds ==
  Spec => []Inv
<1>1. Init => Inv
  BY InitInv
<1>2. Inv /\ [Next]_vars => Inv'
  BY StepInv
<1> QED
  BY <1>1, <1>2, PTL DEF Spec

-----------------------------------------------------------------------------
(* The theorems.                                                           *)

\* The lists hold regions and the counters of a region stay within its slots:
\* allocate_object and atomic_inc_ref_cnt never leave the range they are made for.
THEOREM TypeCorrect == Spec => []TypeOK
<1>1. Inv => TypeOK
  BY DEF Inv
<1> QED
  BY <1>1, InvHolds, PTL

\* No sequence of refills, picks and returns loses or duplicates a region: over
\* its free list, its used lists, from_regions_ and the cores' handles each
\* region has one handle, so that no list ever outgrows its capacity (the BUG_ON
\* of push_free_region and try_refill_core_local_free_region).
THEOREM OneHandleHolds == Spec => []OneHandle
<1>1. Inv => OneHandle
  BY DEF Inv
<1> QED
  BY <1>1, InvHolds, PTL

\* pick_from_regions takes only regions whose ref_cnt is 0 and
\* push_free_region returns them empty: no object is under construction in a
\* region that is collected or free.
THEOREM CollectedIsQuietHolds == Spec => []CollectedIsQuiet
<1>1. Inv => CollectedIsQuiet
  BY DEF Inv
<1> QED
  BY <1>1, InvHolds, PTL
=============================================================================
