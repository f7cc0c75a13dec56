------------------------- MODULE LocalManagerProofs -------------------------
(***************************************************************************)
(* Proofs about one worker machine, for any number of worker threads, any  *)
(* functions and sizes.                                                    *)
(*                                                                         *)
(* Memory is counted unit by unit, so what a pool operation does to the    *)
(* account is what it does to a set of units: release adds the units of    *)
(* one VM, an eviction takes away a subset.  The invariant says that the   *)
(* free units, those of the cached VMs and those of the VMs that threads   *)
(* hold, or held when they panicked, make up the machine.  new_vm keeps it *)
(* because the loop of dummy_evict, when it ends, has freed what was asked *)
(* for.  That it ends when all VMs have one size rests on the same balance:*)
(* the thread that asks holds nothing, so there is room for its VM.        *)
(***************************************************************************)
EXTENDS LocalManager, FiniteSetTheorems, WellFoundedInduction, TLAPS

-----------------------------------------------------------------------------
(* Counting. *)

\* A set that 1..m enumerates without repetition has m elements.
LEMMA Enumerated ==
  ASSUME NEW S, NEW m \in Nat, NEW h \in [1..m -> S],
         \A i, j \in 1..m : h[i] = h[j] => i = j,
         \A x \in S : \E i \in 1..m : h[i] = x
  PROVE  IsFiniteSet(S) /\ Cardinality(S) = m
<1>1. h \in Bijection(1..m, S)
  BY DEF Bijection, Injection, Surjection, IsInjective
<1>2. ExistsBijection(1..m, S)
  BY <1>1 DEF ExistsBijection
<1> QED BY <1>2, FS_CountingElements, FS_NatBijection

\* A nonempty set of naturals has a least element.
LEMMA Least ==
  ASSUME NEW T, T \subseteq Nat, T # {}
  PROVE  \E k \in T : \A j \in T : k <= j
<1> DEFINE R == {r \in Nat \X Nat : r[1] < r[2]}
<1>1. IsWellFoundedOn(R, Nat)
  BY NatLessThanWellFounded DEF OpToRel
<1> HIDE DEF R
<1>2. PICK k \in T : \A j \in T : ~(<<j, k>> \in R)
  BY <1>1, WFMin
<1>3. ASSUME NEW j \in T, j < k
      PROVE  FALSE
  <2>1. <<j, k>> \in R
    BY <1>3 DEF R
  <2> QED BY <1>2, <2>1
<1>4. \A j \in T : k <= j
  BY <1>3
<1> QED BY <1>4

-----------------------------------------------------------------------------
(* What the operations of a pool do to its units. *)

Caches == UNION {[D -> Nat] : D \in SUBSET Function}
Pools  == [cache : Caches, free : Nat]

LEMMA CacheFacts ==
  ASSUME NEW p \in Pools
  PROVE  /\ DOMAIN p.cache \subseteq Function
         /\ \A f \in DOMAIN p.cache : p.cache[f] \in Nat
         /\ p.free \in Nat
         /\ \A f \in Function : CachedVms(p, f) \in Nat /\ Memory[f] \in Nat /\ Memory[f] >= 1
BY MemoryAssumption DEF Pools, Caches, CachedVms

LEMMA UnitIn ==
  ASSUME NEW p
  PROVE  \A x : x \in Units(p) <=>
           \E f \in DOMAIN p.cache : \E i \in 1..p.cache[f] : \E u \in 1..Memory[f] : x = <<f, i, u>>
BY DEF Units

\* One VM: the units of the i-th VM of f.
OneVm(f, i) == {f} \X {i} \X (1..Memory[f])

LEMMA OneVmSize ==
  ASSUME NEW f \in Function, NEW i
  PROVE  IsFiniteSet(OneVm(f, i)) /\ Cardinality(OneVm(f, i)) = Memory[f]
<1> DEFINE h == [u \in 1..Memory[f] |-> <<f, i, u>>]
<1>1. Memory[f] \in Nat
  BY MemoryAssumption
<1>2. h \in [1..Memory[f] -> OneVm(f, i)]
  BY DEF OneVm
<1>3. \A u, v \in 1..Memory[f] : h[u] = h[v] => u = v
  OBVIOUS
<1>4. \A x \in OneVm(f, i) : \E u \in 1..Memory[f] : h[u] = x
  BY DEF OneVm
<1> HIDE DEF h
<1> QED BY <1>1, <1>2, <1>3, <1>4, Enumerated

\* A cache that has units has those of a whole VM.
LEMMA UnitsOfVm ==
  ASSUME NEW p \in Pools, NEW f \in DOMAIN p.cache, NEW i \in 1..p.cache[f]
  PROVE  OneVm(f, i) \subseteq Units(p)
BY UnitIn DEF OneVm

LEMMA FreshUnits == FreshPool \in Pools /\ Units(FreshPool) = {} /\ FreshPool.free = TotalMem
<1>1. Units(FreshPool) = {}
  BY DEF Units, FreshPool
<1>2. FreshPool.cache \in [{} -> Nat]
  BY DEF FreshPool
<1>3. FreshPool \in Pools
  BY <1>2, TotalAssumption DEF FreshPool, Pools, Caches
<1> QED BY <1>1, <1>3 DEF FreshPool

\* get_cached_vm takes the units of one VM away.
LEMMA TakenUnits ==
  ASSUME NEW p \in Pools, NEW f \in Function, CachedVms(p, f) > 0, IsFiniteSet(Units(p))
  PROVE  /\ Taken(p, f) \in Pools /\ Taken(p, f).free = p.free
         /\ DOMAIN Taken(p, f).cache = DOMAIN p.cache
         /\ IsFiniteSet(Units(Taken(p, f)))
         /\ CachedMem(Taken(p, f)) + Memory[f] = CachedMem(p)
<1> DEFINE q == Taken(p, f)
<1>1. f \in DOMAIN p.cache /\ p.cache[f] \in Nat /\ p.cache[f] > 0
  BY CacheFacts DEF CachedVms
<1>2. /\ q.free = p.free /\ DOMAIN q.cache = DOMAIN p.cache
      /\ \A g \in DOMAIN p.cache : q.cache[g] = IF g = f THEN p.cache[g] - 1 ELSE p.cache[g]
      /\ q.cache \in [DOMAIN p.cache -> Nat]
  <2>1. p.cache \in [DOMAIN p.cache -> Nat] /\ p \in [cache : Caches, free : Nat]
    BY CacheFacts DEF Pools, Caches
  <2>2. q.free = p.free /\ q.cache = [p.cache EXCEPT ![f] = @ - 1]
    BY <2>1 DEF Taken
  <2> QED BY <1>1, <2>1, <2>2
<1>3. q \in Pools
  BY <1>2, CacheFacts DEF Taken, Pools, Caches
<1> HIDE DEF q
<1>4. Units(q) = Units(p) \ OneVm(f, p.cache[f])
  <2>1. ASSUME NEW x \in Units(q)
        PROVE  x \in Units(p) /\ x \notin OneVm(f, p.cache[f])
    <3>1. PICK g \in DOMAIN q.cache : \E i \in 1..q.cache[g] : \E u \in 1..Memory[g] : x = <<g, i, u>>
      BY UnitIn
    <3>2. PICK i \in 1..q.cache[g] : \E u \in 1..Memory[g] : x = <<g, i, u>>
      BY <3>1
    <3>3. PICK u \in 1..Memory[g] : x = <<g, i, u>>
      BY <3>2
    <3>4. p.cache[g] \in Nat /\ i \in 1..p.cache[g] /\ (g = f => i # p.cache[f])
      BY <1>1, <1>2, CacheFacts
    <3>5. x \in Units(p)
      BY <1>2, <3>3, <3>4, UnitIn
    <3> QED BY <3>3, <3>4, <3>5 DEF OneVm
  <2>2. ASSUME NEW x \in Units(p), x \notin OneVm(f, p.cache[f])
        PROVE  x \in Units(q)
    <3>1. PICK g \in DOMAIN p.cache : \E i \in 1..p.cache[g] : \E u \in 1..Memory[g] : x = <<g, i, u>>
      BY UnitIn
    <3>2. PICK i \in 1..p.cache[g] : \E u \in 1..Memory[g] : x = <<g, i, u>>
      BY <3>1
    <3>3. PICK u \in 1..Memory[g] : x = <<g, i, u>>
      BY <3>2
    <3>4. g = f => i # p.cache[f]
      BY <2>2, <3>3 DEF OneVm
    <3>5. p.cache[g] \in Nat /\ i \in 1..q.cache[g]
      BY <1>1, <1>2, <3>4, CacheFacts
    <3> QED BY <1>2, <3>3, <3>5, UnitIn
  <2> QED BY <2>1, <2>2
<1>5. OneVm(f, p.cache[f]) \subseteq Units(p)
  BY <1>1, UnitsOfVm
<1>6. Units(p) \cap OneVm(f, p.cache[f]) = OneVm(f, p.cache[f])
  BY <1>5
<1>7. /\ IsFiniteSet(Units(q))
      /\ Cardinality(Units(q)) = Cardinality(Units(p)) - Cardinality(OneVm(f, p.cache[f]))
  BY <1>4, <1>6, FS_Difference
<1>8. /\ Cardinality(OneVm(f, p.cache[f])) = Memory[f] /\ Memory[f] \in Nat
      /\ Cardinality(Units(p)) \in Nat
  BY OneVmSize, CacheFacts, FS_CardinalityType
<1>9. CachedMem(q) + Memory[f] = CachedMem(p)
  BY <1>7, <1>8 DEF CachedMem
<1> QED BY <1>2, <1>3, <1>7, <1>9 DEF q

\* release adds the units of one VM.
LEMMA ReleasedUnits ==
  ASSUME NEW p \in Pools, NEW f \in Function, IsFiniteSet(Units(p))
  PROVE  /\ Released(p, f) \in Pools /\ Released(p, f).free = p.free
         /\ IsFiniteSet(Units(Released(p, f)))
         /\ CachedMem(Released(p, f)) = CachedMem(p) + Memory[f]
<1> DEFINE q == Released(p, f)
<1> DEFINE c == CachedVms(p, f)
<1>1. c \in Nat /\ Memory[f] \in Nat
  BY CacheFacts
<1>2. /\ q.free = p.free /\ DOMAIN q.cache = DOMAIN p.cache \cup {f}
      /\ q.cache[f] = c + 1
      /\ \A g \in DOMAIN p.cache \ {f} : q.cache[g] = p.cache[g]
      /\ q.cache \in [DOMAIN p.cache \cup {f} -> Nat]
  BY <1>1, CacheFacts DEF Released, Pools, CachedVms
<1>3. q \in Pools
  BY <1>2, CacheFacts DEF Released, Pools, Caches
<1>4. f \in DOMAIN p.cache => c = p.cache[f]
  BY DEF CachedVms
<1>5. f \notin DOMAIN p.cache => c = 0
  BY DEF CachedVms
<1> HIDE DEF q, c
<1>6. Units(q) = Units(p) \cup OneVm(f, c + 1)
  <2>1. ASSUME NEW x \in Units(q)
        PROVE  x \in Units(p) \cup OneVm(f, c + 1)
    <3>1. PICK g \in DOMAIN q.cache : \E i \in 1..q.cache[g] : \E u \in 1..Memory[g] : x = <<g, i, u>>
      BY UnitIn
    <3>2. PICK i \in 1..q.cache[g] : \E u \in 1..Memory[g] : x = <<g, i, u>>
      BY <3>1
    <3>3. PICK u \in 1..Memory[g] : x = <<g, i, u>>
      BY <3>2
    <3>4. CASE g = f /\ i = c + 1
      BY <3>3, <3>4 DEF OneVm
    <3>5. CASE ~(g = f /\ i = c + 1)
      <4>1. g \in DOMAIN p.cache /\ i \in 1..p.cache[g]
        BY <1>1, <1>2, <1>4, <1>5, <3>5
      <4> QED BY <3>3, <4>1, UnitIn
    <3> QED BY <3>4, <3>5
  <2>2. Units(p) \subseteq Units(q)
    <3> SUFFICES ASSUME NEW x \in Units(p)
                 PROVE  x \in Units(q)
      OBVIOUS
    <3>1. PICK g \in DOMAIN p.cache : \E i \in 1..p.cache[g] : \E u \in 1..Memory[g] : x = <<g, i, u>>
      BY UnitIn
    <3>2. PICK i \in 1..p.cache[g] : \E u \in 1..Memory[g] : x = <<g, i, u>>
      BY <3>1
    <3>3. p.cache[g] \in Nat /\ i \in 1..q.cache[g] /\ g \in DOMAIN q.cache
      BY <1>1, <1>2, <1>4, CacheFacts
    <3> QED BY <3>2, <3>3, UnitIn
  <2>3. OneVm(f, c + 1) \subseteq Units(q)
    <3>1. f \in DOMAIN q.cache /\ c + 1 \in 1..q.cache[f]
      BY <1>1, <1>2
    <3> QED BY <1>3, <3>1, UnitsOfVm
  <2> QED BY <2>1, <2>2, <2>3
<1>7. Units(p) \cap OneVm(f, c + 1) = {}
  <2> SUFFICES ASSUME NEW x \in Units(p), x \in OneVm(f, c + 1)
               PROVE  FALSE
    OBVIOUS
  <2>1. PICK g \in DOMAIN p.cache : \E i \in 1..p.cache[g] : \E u \in 1..Memory[g] : x = <<g, i, u>>
    BY UnitIn
  <2>2. PICK i \in 1..p.cache[g] : \E u \in 1..Memory[g] : x = <<g, i, u>>
    BY <2>1
  <2>3. g = f /\ i = c + 1
    BY <2>2 DEF OneVm
  <2> QED BY <1>1, <1>4, <2>3
<1>8. IsFiniteSet(OneVm(f, c + 1)) /\ Cardinality(OneVm(f, c + 1)) = Memory[f]
  BY OneVmSize
<1>9. /\ IsFiniteSet(Units(q))
      /\ Cardinality(Units(q)) = Cardinality(Units(p)) + Cardinality(OneVm(f, c + 1))
                                   - Cardinality(Units(p) \cap OneVm(f, c + 1))
  BY <1>6, <1>8, FS_Union
<1>10. Cardinality(Units(p)) \in Nat /\ Cardinality({}) = 0
  BY FS_CardinalityType, FS_EmptySet
<1>11. CachedMem(q) = CachedMem(p) + Memory[f]
  <2>1. Cardinality(Units(p) \cap OneVm(f, c + 1)) = 0
    BY <1>7, <1>10
  <2> QED BY <1>1, <1>8, <1>9, <1>10, <2>1 DEF CachedMem
<1> QED BY <1>2, <1>3, <1>9, <1>11 DEF q

\* k rounds of dummy_evict turn cached units into free ones, and lose none.
LEMMA EvictedUnits ==
  ASSUME NEW p \in Pools, NEW k \in Nat, IsFiniteSet(Units(p))
  PROVE  /\ Evicted(p, k) \in Pools /\ IsFiniteSet(Units(Evicted(p, k)))
         /\ DOMAIN Evicted(p, k).cache = DOMAIN p.cache
         /\ FreedBy(p, k) \in Nat
         /\ Evicted(p, k).free = p.free + FreedBy(p, k)
         /\ CachedMem(Evicted(p, k)) + FreedBy(p, k) = CachedMem(p)
<1> DEFINE q == Evicted(p, k)
<1>0. FreedUnits(p, k) \subseteq Units(p)
  BY DEF FreedUnits
<1>1. FreedBy(p, k) \in Nat
  BY <1>0, FS_Subset, FS_CardinalityType DEF FreedBy
<1>2. /\ q.free = p.free + FreedBy(p, k) /\ DOMAIN q.cache = DOMAIN p.cache
      /\ \A g \in DOMAIN p.cache : q.cache[g] = IF p.cache[g] > k THEN p.cache[g] - k ELSE 0
      /\ q.cache \in [DOMAIN p.cache -> Nat]
  BY CacheFacts DEF Evicted
<1>3. q \in Pools
  BY <1>1, <1>2, CacheFacts DEF Evicted, Pools, Caches
<1> HIDE DEF q
<1>4. Units(q) = Units(p) \ FreedUnits(p, k)
  <2>1. ASSUME NEW x \in Units(q)
        PROVE  x \in Units(p) /\ x \notin FreedUnits(p, k)
    <3>1. PICK g \in DOMAIN q.cache : \E i \in 1..q.cache[g] : \E u \in 1..Memory[g] : x = <<g, i, u>>
      BY UnitIn
    <3>2. PICK i \in 1..q.cache[g] : \E u \in 1..Memory[g] : x = <<g, i, u>>
      BY <3>1
    <3>3. PICK u \in 1..Memory[g] : x = <<g, i, u>>
      BY <3>2
    <3>4. p.cache[g] \in Nat /\ i \in 1..p.cache[g] /\ ~(i > p.cache[g] - k)
      BY <1>2, CacheFacts
    <3>5. x \in Units(p)
      BY <1>2, <3>3, <3>4, UnitIn
    <3> QED BY <3>3, <3>4, <3>5 DEF FreedUnits
  <2>2. ASSUME NEW x \in Units(p), x \notin FreedUnits(p, k)
        PROVE  x \in Units(q)
    <3>1. PICK g \in DOMAIN p.cache : \E i \in 1..p.cache[g] : \E u \in 1..Memory[g] : x = <<g, i, u>>
      BY UnitIn
    <3>2. PICK i \in 1..p.cache[g] : \E u \in 1..Memory[g] : x = <<g, i, u>>
      BY <3>1
    <3>3. PICK u \in 1..Memory[g] : x = <<g, i, u>>
      BY <3>2
    <3>4. ~(i > p.cache[g] - k)
      BY <2>2, <3>3 DEF FreedUnits
    <3>5. p.cache[g] \in Nat /\ i \in 1..q.cache[g]
      BY <1>2, <3>4, CacheFacts
    <3> QED BY <1>2, <3>3, <3>5, UnitIn
  <2> QED BY <2>1, <2>2
<1>5. Units(p) \cap FreedUnits(p, k) = FreedUnits(p, k)
  BY <1>0
<1>6. /\ IsFiniteSet(Units(q))
      /\ Cardinality(Units(q)) = Cardinality(Units(p)) - Cardinality(FreedUnits(p, k))
  BY <1>4, <1>5, FS_Difference
<1>7. Cardinality(Units(p)) \in Nat
  BY FS_CardinalityType
<1>8. CachedMem(q) + FreedBy(p, k) = CachedMem(p)
  BY <1>1, <1>6, <1>7 DEF CachedMem, FreedBy
<1> QED BY <1>1, <1>2, <1>3, <1>6, <1>8 DEF q

\* More rounds free more.
LEMMA FreedMore ==
  ASSUME NEW p \in Pools, NEW j \in Nat, NEW k \in Nat, j <= k, IsFiniteSet(Units(p))
  PROVE  FreedBy(p, j) <= FreedBy(p, k)
<1>1. FreedUnits(p, j) \subseteq FreedUnits(p, k)
  <2> SUFFICES ASSUME NEW x \in Units(p), x[2] > p.cache[x[1]] - j
               PROVE  x[2] > p.cache[x[1]] - k
    BY DEF FreedUnits
  <2>1. PICK g \in DOMAIN p.cache : \E i \in 1..p.cache[g] : \E u \in 1..Memory[g] : x = <<g, i, u>>
    BY UnitIn
  <2>2. PICK i \in 1..p.cache[g] : \E u \in 1..Memory[g] : x = <<g, i, u>>
    BY <2>1
  <2>3. x[1] = g /\ x[2] = i /\ p.cache[g] \in Nat
    BY <2>2, CacheFacts
  <2> QED BY <2>3
<1>2. IsFiniteSet(FreedUnits(p, k))
  BY FS_Subset DEF FreedUnits
<1> QED BY <1>1, <1>2, FS_Subset DEF FreedBy

\* As many rounds as the request has units free enough, if the cache has it at
\* all: they empty every list, or pop that many VMs from one of them.
LEMMA FreedEnough ==
  ASSUME NEW p \in Pools, NEW f \in Function, Enough(p, f), IsFiniteSet(Units(p))
  PROVE  FreedBy(p, Memory[f]) >= Memory[f]
<1> DEFINE m == Memory[f]
<1>0. m \in Nat
  BY CacheFacts
<1> HIDE DEF m
<1>1. CASE \A g \in DOMAIN p.cache : p.cache[g] <= m
  <2>1. ASSUME NEW x \in Units(p)
        PROVE  x[2] > p.cache[x[1]] - m
    <3>1. PICK g \in DOMAIN p.cache : \E i \in 1..p.cache[g] : \E u \in 1..Memory[g] : x = <<g, i, u>>
      BY UnitIn
    <3>2. PICK i \in 1..p.cache[g] : \E u \in 1..Memory[g] : x = <<g, i, u>>
      BY <3>1
    <3>3. x[1] = g /\ x[2] = i /\ p.cache[g] \in Nat /\ p.cache[g] <= m
      BY <1>1, <3>2, CacheFacts
    <3> QED BY <1>0, <3>3
  <2>2. FreedUnits(p, m) = Units(p)
    BY <2>1 DEF FreedUnits
  <2> QED BY <2>2 DEF FreedBy, CachedMem, Enough, m
<1>2. ASSUME NEW g \in DOMAIN p.cache, p.cache[g] > m
      PROVE  FreedBy(p, m) >= m
  <2> DEFINE c == p.cache[g]
  <2> DEFINE h == [j \in 1..m |-> <<g, c - m + j, 1>>]
  <2> DEFINE S == {h[j] : j \in 1..m}
  <2>1. c \in Nat /\ c > m /\ 1 \in 1..Memory[g]
    BY <1>2, CacheFacts
  <2> HIDE DEF c
  <2>2. /\ h \in [1..m -> S]
        /\ \A x \in S : \E j \in 1..m : h[j] = x
    OBVIOUS
  <2>3. \A i, j \in 1..m : h[i] = h[j] => i = j
    BY <1>0, <2>1
  <2>4. S \subseteq FreedUnits(p, m)
    <3> SUFFICES ASSUME NEW j \in 1..m
                 PROVE  <<g, c - m + j, 1>> \in FreedUnits(p, m)
      OBVIOUS
    <3>1. c - m + j \in 1..c /\ c - m + j > c - m
      BY <1>0, <2>1
    <3>2. <<g, c - m + j, 1>> \in Units(p)
      BY <2>1, <3>1, UnitIn DEF c
    <3> QED BY <3>1, <3>2 DEF FreedUnits, c
  <2> HIDE DEF h, S
  <2>5. Cardinality(S) = m
    BY <1>0, <2>2, <2>3, Enumerated
  <2>6. IsFiniteSet(FreedUnits(p, m))
    BY FS_Subset DEF FreedUnits
  <2>7. Cardinality(S) <= Cardinality(FreedUnits(p, m)) /\ Cardinality(FreedUnits(p, m)) \in Nat
    BY <2>4, <2>6, FS_Subset, FS_CardinalityType
  <2> QED BY <1>0, <2>5, <2>7 DEF FreedBy
<1>3. CASE \E g \in DOMAIN p.cache : ~(p.cache[g] <= m)
  <2>1. PICK g \in DOMAIN p.cache : ~(p.cache[g] <= m)
    BY <1>3
  <2>2. p.cache[g] > m
    BY <1>0, <2>1, CacheFacts
  <2> QED BY <1>2, <2>2 DEF m
<1> QED BY <1>1, <1>3

\* When the loop of dummy_evict ends, what it freed covers the request.
LEMMA RoundsFreeEnough ==
  ASSUME NEW p \in Pools, NEW f \in Function, Enough(p, f), IsFiniteSet(Units(p))
  PROVE  EvictRounds(p, f) \in Nat /\ FreedBy(p, EvictRounds(p, f)) >= Memory[f]
<1> DEFINE m == Memory[f]
<1> DEFINE T == {k \in Nat : FreedBy(p, k) >= m}
<1>0. m \in Nat /\ \A k \in Nat : FreedBy(p, k) \in Nat
  BY CacheFacts, EvictedUnits
<1>1. m \in T
  BY <1>0, FreedEnough
<1>2. PICK K \in T : \A j \in T : K <= j
  BY <1>1, Least
<1>3. K \in Nat /\ FreedBy(p, K) >= m /\ K <= m
  BY <1>1, <1>2
<1>4. {k \in 0..(m - 1) : FreedBy(p, k) < m} = 0..(K - 1)
  <2>1. ASSUME NEW k \in 0..(m - 1), FreedBy(p, k) < m
        PROVE  k \in 0..(K - 1)
    <3>1. ASSUME k >= K
          PROVE  FALSE
      <4>1. FreedBy(p, K) <= FreedBy(p, k)
        BY <1>3, <3>1, FreedMore
      <4> QED BY <1>0, <1>3, <2>1, <4>1
    <3> QED BY <1>0, <1>3, <3>1
  <2>2. ASSUME NEW k \in 0..(K - 1)
        PROVE  k \in 0..(m - 1) /\ FreedBy(p, k) < m
    <3>1. k \notin T /\ k \in Nat
      BY <1>2, <1>3
    <3> QED BY <1>0, <1>3, <3>1
  <2> QED BY <2>1, <2>2
<1>5. Cardinality(0..(K - 1)) = K
  BY <1>3, FS_Interval
<1> QED BY <1>3, <1>4, <1>5 DEF EvictRounds

\* new_vm with result "ok" has reserved the memory of one VM, all told.
LEMMA NewVmOk ==
  ASSUME NEW p \in Pools, NEW f \in Function, IsFiniteSet(Units(p)), NewVm(p, f).res = "ok"
  PROVE  LET q == NewVm(p, f).pool IN
         /\ q \in Pools /\ IsFiniteSet(Units(q)) /\ DOMAIN q.cache = DOMAIN p.cache
         /\ q.free + CachedMem(q) + Memory[f] = p.free + CachedMem(p)
<1>0. /\ Memory[f] \in Nat /\ p.free \in Nat /\ CachedMem(p) \in Nat
  BY CacheFacts, FS_CardinalityType DEF CachedMem
<1>1. ASSUME NEW q \in Pools, q.free >= Memory[f], IsFiniteSet(Units(q)),
             DOMAIN q.cache = DOMAIN p.cache, q.free + CachedMem(q) = p.free + CachedMem(p)
      PROVE  LET r == Reserved(q, f) IN
             /\ r \in Pools /\ IsFiniteSet(Units(r)) /\ DOMAIN r.cache = DOMAIN p.cache
             /\ r.free + CachedMem(r) + Memory[f] = p.free + CachedMem(p)
  <2> DEFINE r == Reserved(q, f)
  <2>1. r.cache = q.cache /\ r.free = q.free - Memory[f] /\ r \in Pools
    BY <1>0, <1>1 DEF Reserved, Pools
  <2>2. Units(r) = Units(q) /\ CachedMem(q) \in Nat /\ q.free \in Nat
    BY <1>1, <2>1, FS_CardinalityType DEF Units, CachedMem, Pools
  <2> HIDE DEF r
  <2>3. r.free + CachedMem(r) + Memory[f] = p.free + CachedMem(p)
    BY <1>0, <1>1, <2>1, <2>2 DEF CachedMem
  <2> QED BY <1>1, <2>1, <2>2, <2>3 DEF r
<1>2. CASE p.free >= Memory[f]
  <2>1. NewVm(p, f).pool = Reserved(p, f)
    BY <1>2 DEF NewVm
  <2> QED BY <1>1, <1>2, <2>1
<1>3. CASE ~(p.free >= Memory[f])
  <2>1. Enough(p, f) /\ NewVm(p, f).pool = Reserved(Evicted(p, EvictRounds(p, f)), f)
    BY <1>3 DEF NewVm
  <2> DEFINE q == Evicted(p, EvictRounds(p, f))
  <2>2. EvictRounds(p, f) \in Nat /\ FreedBy(p, EvictRounds(p, f)) >= Memory[f]
    BY <2>1, RoundsFreeEnough
  <2>3. /\ q \in Pools /\ IsFiniteSet(Units(q)) /\ DOMAIN q.cache = DOMAIN p.cache
        /\ FreedBy(p, EvictRounds(p, f)) \in Nat
        /\ q.free = p.free + FreedBy(p, EvictRounds(p, f))
        /\ CachedMem(q) + FreedBy(p, EvictRounds(p, f)) = CachedMem(p)
    BY <2>2, EvictedUnits
  <2>4. CachedMem(q) \in Nat
    BY <2>3, FS_CardinalityType DEF CachedMem
  <2> HIDE DEF q
  <2>5. q.free >= Memory[f] /\ q.free + CachedMem(q) = p.free + CachedMem(p)
    BY <1>0, <2>2, <2>3, <2>4
  <2> QED BY <1>1, <2>1, <2>3, <2>5 DEF q
<1> QED BY <1>2, <1>3

-----------------------------------------------------------------------------
(* The invariant. *)

Thread  == [pc : Busy \cup {"wait", "alloc", "dead"}, fn : Function \cup {None}, up : BOOLEAN,
            cnt : 0..(MaxTries + 2), res : Codes]
Threads == [Worker -> Thread]

\* The threads that hold a VM or have lost one.
Gone == Busy \cup {"dead"}

\* A thread that is not waiting has a function.
Assigned == \A w \in Worker : wk[w].pc # "wait" => wk[w].fn \in Function

\* Nothing is lost: the units that are free, cached, held and lost make up the machine.
Balanced ==
  /\ IsFiniteSet(Units(pool)) /\ IsFiniteSet(Held(Gone))
  /\ pool.free + CachedMem(pool) + Cardinality(Held(Gone)) = TotalMem

\* The functions that stay in play while the manager's lock is not given back:
\* those cached, and those of threads that have a task.
InPlay  == DOMAIN pool.cache \cup {wk[w].fn : w \in {v \in Worker : wk[v].pc # "wait"}}
OneSize == \A f, g \in InPlay : /\ Memory[f] = Memory[g]
                                /\ Memory[f] * Cardinality(Worker) <= TotalMem

LMInv ==
  /\ pool \in Pools
  /\ wk \in Threads
  /\ owner \in Worker \cup {None}
  /\ report \in Caches
  /\ Assigned
  /\ Balanced
  /\ ReportsCurrent
  /\ ExhaustedOnlyIfTooBig
  /\ owner # None => ~OneSize

-----------------------------------------------------------------------------
(* The units of the VMs that threads hold or have lost, as a function of the *)
(* threads.                                                                 *)

Slice(w, f) == {w} \X (1..Memory[f])
Lost(v)     == UNION {Slice(w, v[w].fn) : w \in {u \in Worker : v[u].pc \in Gone}}

LEMMA HeldIsLost == Held(Gone) = Lost(wk) /\ Held(Gone)' = Lost(wk')
BY DEF Held, Lost, Slice, Gone

LEMMA SliceSize ==
  ASSUME NEW w, NEW f \in Function
  PROVE  IsFiniteSet(Slice(w, f)) /\ Cardinality(Slice(w, f)) = Memory[f]
<1> DEFINE h == [u \in 1..Memory[f] |-> <<w, u>>]
<1>1. Memory[f] \in Nat
  BY MemoryAssumption
<1>2. h \in [1..Memory[f] -> Slice(w, f)]
  BY DEF Slice
<1>3. \A u, v \in 1..Memory[f] : h[u] = h[v] => u = v
  OBVIOUS
<1>4. \A x \in Slice(w, f) : \E u \in 1..Memory[f] : h[u] = x
  BY DEF Slice
<1> HIDE DEF h
<1> QED BY <1>1, <1>2, <1>3, <1>4, Enumerated

\* A thread whose VM stays where it is changes nothing.
LEMMA LostSame ==
  ASSUME NEW u, NEW v,
         \A w \in Worker : (u[w].pc \in Gone <=> v[w].pc \in Gone)
                             /\ (v[w].pc \in Gone => u[w].fn = v[w].fn)
  PROVE  Lost(u) = Lost(v)
BY DEF Lost

\* A thread that gets a VM adds its units.
LEMMA LostGrows ==
  ASSUME NEW u, NEW v, NEW w \in Worker, NEW f \in Function,
         \A x \in Worker \ {w} : v[x] = u[x],
         u[w].pc \notin Gone, v[w].pc \in Gone, v[w].fn = f,
         IsFiniteSet(Lost(u))
  PROVE  /\ IsFiniteSet(Lost(v))
         /\ Cardinality(Lost(v)) = Cardinality(Lost(u)) + Memory[f]
<1>1. Lost(v) = Lost(u) \cup Slice(w, f)
  <2>1. Lost(v) \subseteq Lost(u) \cup Slice(w, f)
    BY DEF Lost
  <2>2. Lost(u) \subseteq Lost(v)
    BY DEF Lost
  <2>3. Slice(w, f) \subseteq Lost(v)
    BY DEF Lost
  <2> QED BY <2>1, <2>2, <2>3
<1>2. Lost(u) \cap Slice(w, f) = {}
  BY DEF Lost, Slice
<1>3. IsFiniteSet(Slice(w, f)) /\ Cardinality(Slice(w, f)) = Memory[f] /\ Memory[f] \in Nat
  BY SliceSize, MemoryAssumption
<1>4. /\ IsFiniteSet(Lost(v))
      /\ Cardinality(Lost(v)) = Cardinality(Lost(u)) + Cardinality(Slice(w, f))
                                  - Cardinality(Lost(u) \cap Slice(w, f))
  BY <1>1, <1>3, FS_Union
<1>5. Cardinality(Lost(u) \cap Slice(w, f)) = 0 /\ Cardinality(Lost(u)) \in Nat
  BY <1>2, FS_EmptySet, FS_CardinalityType
<1> QED BY <1>3, <1>4, <1>5

\* A thread that hands its VM back takes them away.
LEMMA LostShrinks ==
  ASSUME NEW u, NEW v, NEW w \in Worker, NEW f \in Function,
         \A x \in Worker \ {w} : v[x] = u[x],
         v[w].pc \notin Gone, u[w].pc \in Gone, u[w].fn = f,
         IsFiniteSet(Lost(u))
  PROVE  /\ IsFiniteSet(Lost(v))
         /\ Cardinality(Lost(v)) + Memory[f] = Cardinality(Lost(u))
<1>1. Lost(v) \subseteq Lost(u)
  BY DEF Lost
<1>2. IsFiniteSet(Lost(v))
  BY <1>1, FS_Subset
<1> QED BY <1>2, LostGrows

\* All threads with a VM together hold less than one VM per thread when one of
\* them has none and the VMs have one size.
LEMMA LostBound ==
  ASSUME NEW u, NEW w \in Worker, NEW m \in Nat, u[w].pc \notin Gone,
         \A x \in Worker : u[x].pc \in Gone => Memory[u[x].fn] = m
  PROVE  /\ IsFiniteSet(Lost(u)) /\ Cardinality(Worker) \in Nat
         /\ Cardinality(Lost(u)) + m <= m * Cardinality(Worker)
<1> DEFINE B == {x \in Worker : u[x].pc \in Gone}
<1> DEFINE W == Cardinality(Worker)
<1> DEFINE b == Cardinality(B)
<1>1. Lost(u) = B \X (1..m)
  BY DEF Lost, Slice
<1>2. IsFiniteSet(Worker) /\ W \in Nat
  BY WorkerAssumption, FS_CardinalityType
<1>3. /\ IsFiniteSet(Worker \ {w}) /\ Cardinality(Worker \ {w}) = W - 1
  BY <1>2, FS_RemoveElement
<1>4. IsFiniteSet(B) /\ b \in Nat /\ b <= W - 1
  BY <1>3, FS_Subset, FS_CardinalityType
<1>5. IsFiniteSet(1..m) /\ Cardinality(1..m) = m
  BY FS_Interval
<1> HIDE DEF B
<1>6. IsFiniteSet(B \X (1..m)) /\ Cardinality(B \X (1..m)) = b * m
  BY <1>4, <1>5, FS_Product
<1> HIDE DEF W, b
<1>7. b * m + m <= m * W
  <2>1. PICK d \in Nat : W = b + 1 + d
    <3>1. W - 1 - b \in Nat /\ W = b + 1 + (W - 1 - b)
      BY <1>2, <1>4
    <3> QED BY <3>1
  <2>2. m * W = b * m + m + m * d /\ m * d \in Nat
    BY <1>2, <1>4, <2>1
  <2>3. b * m \in Nat
    BY <1>4
  <2> QED BY <2>2, <2>3
<1> QED BY <1>1, <1>2, <1>6, <1>7 DEF W

-----------------------------------------------------------------------------
(* The steps. *)

LEMMA InitLM == Init => LMInv
<1> SUFFICES ASSUME Init
             PROVE  LMInv
  OBVIOUS
<1>1. pool \in Pools /\ Units(pool) = {} /\ pool.free = TotalMem
  BY FreshUnits DEF Init
<1>2. wk \in Threads
  BY TriesAssumption DEF Init, Threads, Thread, Busy, Codes
<1>3. Held(Gone) = {}
  BY DEF Init, Held, Gone, Busy
<1>4. Balanced
  BY <1>1, <1>3, FS_EmptySet, TotalAssumption DEF Balanced, CachedMem
<1>5. report \in Caches /\ report = pool.cache
  BY <1>1 DEF Init, Pools
<1>6. Assigned /\ ExhaustedOnlyIfTooBig
  BY DEF Init, Assigned, ExhaustedOnlyIfTooBig
<1> QED BY <1>1, <1>2, <1>4, <1>5, <1>6 DEF Init, LMInv, ReportsCurrent

\* What is in play stays so while no thread starts to wait.
LEMMA SizesStay ==
  ASSUME ~OneSize, InPlay \subseteq InPlay'
  PROVE  ~OneSize'
BY DEF OneSize

\* A thread that keeps the VM it has.
LEMMA KeepsVm ==
  ASSUME LMInv, NEW w \in Worker, UNCHANGED <<pool, owner, report>>, wk' \in Threads,
         \A x \in Worker \ {w} : wk'[x] = wk[x],
         wk[w].pc \in Gone, wk'[w].pc \in Gone,
         wk'[w].fn = wk[w].fn, wk'[w].res = wk[w].res
  PROVE  LMInv'
<1>1. Lost(wk') = Lost(wk)
  BY LostSame
<1>2. Balanced'
  BY <1>1, HeldIsLost DEF LMInv, Balanced
<1>3. Assigned' /\ ExhaustedOnlyIfTooBig' /\ ReportsCurrent'
  BY DEF LMInv, Assigned, ExhaustedOnlyIfTooBig, ReportsCurrent, Gone, Busy
<1>4. InPlay \subseteq InPlay'
  BY DEF InPlay, Gone, Busy
<1>5. owner' # None => ~OneSize'
  BY <1>4, SizesStay DEF LMInv
<1> QED BY <1>2, <1>3, <1>5 DEF LMInv

LEMMA ThreadFields ==
  ASSUME wk \in Threads, NEW w \in Worker
  PROVE  /\ wk[w].pc \in Busy \cup {"wait", "alloc", "dead"} /\ wk[w].fn \in Function \cup {None}
         /\ wk[w].up \in BOOLEAN /\ wk[w].cnt \in 0..(MaxTries + 2) /\ wk[w].res \in Codes
         /\ Counted(wk[w].cnt) \in 0..(MaxTries + 2)
BY TriesAssumption DEF Threads, Thread, Counted

LEMMA TakeTaskLM ==
  ASSUME LMInv, NEW w \in Worker, NEW f \in Function, TakeTask(w, f)
  PROVE  LMInv'
<1>0. wk \in Threads /\ wk[w].pc = "wait" /\ UNCHANGED <<pool, owner, report>>
  BY DEF LMInv, TakeTask
<1>1. /\ wk'[w].pc = "alloc" /\ wk'[w].fn = f /\ wk'[w].res = "none"
      /\ wk' \in Threads
      /\ \A x \in Worker \ {w} : wk'[x] = wk[x]
  <2> DEFINE r == [wk[w] EXCEPT !.pc = "alloc", !.fn = f, !.res = "none"]
  <2>1. wk' = [wk EXCEPT ![w] = r]
    BY <1>0 DEF TakeTask
  <2>2. r \in Thread /\ r.pc = "alloc" /\ r.fn = f /\ r.res = "none"
    <3>1. wk[w] \in Thread
      BY <1>0 DEF Threads, Thread
    <3> QED BY <3>1 DEF Thread, Codes
  <2> HIDE DEF r
  <2>3. wk' \in Threads /\ wk'[w] = r /\ \A x \in Worker \ {w} : wk'[x] = wk[x]
    BY <1>0, <2>1, <2>2 DEF Threads, Thread
  <2> QED BY <2>2, <2>3
<1>2. Lost(wk') = Lost(wk)
  BY <1>0, <1>1, LostSame DEF Gone, Busy
<1>3. Balanced'
  BY <1>0, <1>2, HeldIsLost DEF LMInv, Balanced
<1>4. Assigned' /\ ExhaustedOnlyIfTooBig' /\ ReportsCurrent'
  BY <1>0, <1>1 DEF LMInv, Assigned, ExhaustedOnlyIfTooBig, ReportsCurrent
<1>5. InPlay \subseteq InPlay'
  BY <1>0, <1>1 DEF InPlay
<1>6. owner' # None => ~OneSize'
  BY <1>0, <1>5, SizesStay DEF LMInv
<1> QED BY <1>0, <1>1, <1>3, <1>4, <1>6 DEF LMInv

LEMMA RetryLoopLM ==
  ASSUME LMInv, NEW w \in Worker,
         Launch(w) \/ LaunchFails(w) \/ RunSucceeds(w) \/ RunFails(w) \/ RunPanics(w)
  PROVE  LMInv'
<1>0. wk \in Threads
  BY DEF LMInv
<1>1. CASE Launch(w)
  BY <1>0, <1>1, ThreadFields, KeepsVm DEF Launch, Threads, Thread, Gone, Busy
<1>2. CASE LaunchFails(w)
  BY <1>0, <1>2, ThreadFields, KeepsVm DEF LaunchFails, Threads, Thread, Gone, Busy
<1>3. CASE RunSucceeds(w)
  BY <1>0, <1>3, ThreadFields, KeepsVm DEF RunSucceeds, Threads, Thread, Gone, Busy
<1>4. CASE RunFails(w)
  BY <1>0, <1>4, ThreadFields, KeepsVm DEF RunFails, Threads, Thread, Gone, Busy
<1>5. CASE RunPanics(w)
  BY <1>0, <1>5, ThreadFields, KeepsVm DEF RunPanics, Threads, Thread, Gone, Busy
<1> QED BY <1>1, <1>2, <1>3, <1>4, <1>5

\* A thread that answers its task is back at rpc::get.
LEMMA AnsweredThread ==
  ASSUME wk \in Threads, NEW w \in Worker, NEW code \in Codes, wk' = Answered(w, code)
  PROVE  /\ wk' \in Threads
         /\ wk'[w].pc = "wait" /\ wk'[w].fn = wk[w].fn /\ wk'[w].res = code
         /\ \A x \in Worker \ {w} : wk'[x] = wk[x]
<1> DEFINE r == [wk[w] EXCEPT !.pc = "wait", !.up = FALSE, !.cnt = 0, !.res = code]
<1>1. wk' = [wk EXCEPT ![w] = r]
  BY DEF Answered
<1>2. 0 \in 0..(MaxTries + 2)
  BY TriesAssumption
<1>3. wk[w] \in Thread
  BY DEF Threads, Thread
<1>4. r \in Thread /\ r.pc = "wait" /\ r.fn = wk[w].fn /\ r.res = code
  BY <1>2, <1>3 DEF Thread
<1> HIDE DEF r
<1>5. PICK q \in Thread : q = r
  BY <1>4
<1>6. wk' = [wk EXCEPT ![w] = q]
  BY <1>1, <1>5
<1>7. wk' \in Threads /\ wk'[w] = q /\ \A x \in Worker \ {w} : wk'[x] = wk[x]
  BY <1>6 DEF Threads, Thread
<1> QED BY <1>4, <1>5, <1>7

LEMMA GiveBackLM ==
  ASSUME LMInv, NEW w \in Worker, ReleaseVm(w) \/ DeleteVm(w)
  PROVE  LMInv'
<1> DEFINE f == wk[w].fn
<1>0. /\ wk \in Threads /\ pool \in Pools /\ wk[w].pc \in {"release", "delete"}
      /\ owner = None /\ owner' = None /\ report' = pool'.cache
      /\ pool' = Released(pool, f) \/ pool' = Deleted(pool, f)
      /\ IsFiniteSet(Units(pool)) /\ IsFiniteSet(Lost(wk))
      /\ pool.free + CachedMem(pool) + Cardinality(Lost(wk)) = TotalMem
  BY HeldIsLost DEF LMInv, ReleaseVm, DeleteVm, UpdateScheduler, Balanced
<1>1. f \in Function /\ Memory[f] \in Nat
  BY <1>0, MemoryAssumption DEF LMInv, Assigned
<1>2. PICK code \in {"success", "failed"} : wk' = Answered(w, code)
  BY DEF ReleaseVm, DeleteVm
<1>3. /\ wk' \in Threads
      /\ wk'[w].pc = "wait" /\ wk'[w].fn = f /\ wk'[w].res = code
      /\ \A x \in Worker \ {w} : wk'[x] = wk[x]
  BY <1>0, <1>2, AnsweredThread DEF Codes
<1>4. /\ pool' \in Pools /\ IsFiniteSet(Units(pool')) /\ CachedMem(pool') \in Nat
      /\ pool'.free + CachedMem(pool') = pool.free + CachedMem(pool) + Memory[f]
  <2>1. pool.free \in Nat /\ CachedMem(pool) \in Nat
    BY <1>0, CacheFacts, FS_CardinalityType DEF CachedMem
  <2>2. CASE pool' = Released(pool, f)
    <3>1. /\ pool' \in Pools /\ IsFiniteSet(Units(pool')) /\ pool'.free = pool.free
          /\ CachedMem(pool') = CachedMem(pool) + Memory[f]
      BY <1>0, <1>1, <2>2, ReleasedUnits
    <3> QED BY <1>1, <2>1, <3>1
  <2>3. CASE pool' = Deleted(pool, f)
    <3>1. pool' \in Pools /\ pool'.cache = pool.cache /\ pool'.free = pool.free + Memory[f]
      BY <1>0, <1>1, <2>1, <2>3 DEF Deleted, Pools
    <3>2. Units(pool') = Units(pool)
      BY <3>1 DEF Units
    <3> QED BY <1>0, <1>1, <2>1, <3>1, <3>2 DEF CachedMem
  <2> QED BY <1>0, <2>2, <2>3
<1>5. /\ IsFiniteSet(Lost(wk'))
      /\ Cardinality(Lost(wk')) + Memory[f] = Cardinality(Lost(wk))
  <2>1. wk'[w].pc \notin Gone /\ wk[w].pc \in Gone
    BY <1>0, <1>3 DEF Gone, Busy
  <2> QED BY <1>0, <1>1, <1>3, <2>1, LostShrinks
<1>6. Balanced'
  <2>1. pool.free \in Nat /\ pool'.free \in Nat /\ CachedMem(pool) \in Nat
        /\ Cardinality(Lost(wk)) \in Nat /\ Cardinality(Lost(wk')) \in Nat
    BY <1>0, <1>4, <1>5, CacheFacts, FS_CardinalityType DEF CachedMem
  <2>2. pool'.free + CachedMem(pool') + Cardinality(Lost(wk')) = TotalMem
    BY <1>0, <1>1, <1>4, <1>5, <2>1
  <2> QED BY <1>4, <1>5, <2>2, HeldIsLost DEF Balanced
<1>7. Assigned' /\ ExhaustedOnlyIfTooBig' /\ ReportsCurrent'
  BY <1>0, <1>3 DEF LMInv, Assigned, ExhaustedOnlyIfTooBig, ReportsCurrent
<1>8. report' \in Caches
  BY <1>0, <1>4 DEF Pools
<1> QED BY <1>0, <1>3, <1>4, <1>6, <1>7, <1>8 DEF LMInv

\* A thread that got a VM: the pool has lost what the thread holds.
LEMMA GetsVm ==
  ASSUME LMInv, NEW w \in Worker, NEW f, f = wk[w].fn, NEW up \in BOOLEAN,
         wk[w].pc = "alloc", owner = None, owner' = None, report' = pool'.cache,
         wk' = [wk EXCEPT ![w].pc = "try", ![w].up = up],
         pool' \in Pools, IsFiniteSet(Units(pool')),
         pool'.free + CachedMem(pool') + Memory[f] = pool.free + CachedMem(pool)
  PROVE  LMInv'
<1>0. /\ wk \in Threads /\ pool \in Pools
      /\ IsFiniteSet(Units(pool)) /\ IsFiniteSet(Lost(wk))
      /\ pool.free + CachedMem(pool) + Cardinality(Lost(wk)) = TotalMem
  BY HeldIsLost DEF LMInv, Balanced
<1>1. f \in Function /\ Memory[f] \in Nat
  BY MemoryAssumption DEF LMInv, Assigned
<1>2. /\ wk' \in Threads
      /\ wk'[w].pc = "try" /\ wk'[w].fn = f /\ wk'[w].res = wk[w].res
      /\ \A x \in Worker \ {w} : wk'[x] = wk[x]
  <2> DEFINE r == [wk[w] EXCEPT !.pc = "try", !.up = up]
  <2>1. wk' = [wk EXCEPT ![w] = r]
    BY <1>0
  <2>2. wk[w] \in Thread
    BY <1>0 DEF Threads, Thread
  <2>3. r \in Thread /\ r.pc = "try" /\ r.fn = f /\ r.res = wk[w].res
    BY <2>2 DEF Thread, Busy
  <2> HIDE DEF r
  <2>4. PICK q \in Thread : q = r
    BY <2>3
  <2>5. wk' = [wk EXCEPT ![w] = q]
    BY <2>1, <2>4
  <2>6. wk' \in Threads /\ wk'[w] = q /\ \A x \in Worker \ {w} : wk'[x] = wk[x]
    BY <1>0, <2>5 DEF Threads, Thread
  <2> QED BY <2>3, <2>4, <2>6
<1>3. /\ IsFiniteSet(Lost(wk'))
      /\ Cardinality(Lost(wk')) = Cardinality(Lost(wk)) + Memory[f]
  <2>1. wk'[w].pc \in Gone /\ wk[w].pc \notin Gone
    BY <1>2 DEF Gone, Busy
  <2>2. wk'[w].fn = f /\ \A x \in Worker \ {w} : wk'[x] = wk[x]
    BY <1>2
  <2>3. IsFiniteSet(Lost(wk)) /\ f \in Function
    BY <1>0, <1>1
  <2> QED BY ONLY <2>1, <2>2, <2>3, w \in Worker, LostGrows
<1>4. Balanced'
  <2>1. pool.free \in Nat /\ pool'.free \in Nat /\ CachedMem(pool) \in Nat
        /\ CachedMem(pool') \in Nat /\ Cardinality(Lost(wk)) \in Nat
    BY <1>0, CacheFacts, FS_CardinalityType DEF CachedMem
  <2>2. pool'.free + CachedMem(pool') + Cardinality(Lost(wk')) = TotalMem
    BY <1>0, <1>1, <1>3, <2>1
  <2> QED BY <1>3, <2>2, HeldIsLost DEF Balanced
<1>5. Assigned' /\ ExhaustedOnlyIfTooBig' /\ ReportsCurrent'
  BY <1>1, <1>2 DEF LMInv, Assigned, ExhaustedOnlyIfTooBig, ReportsCurrent
<1>6. report' \in Caches
  BY DEF Pools
<1> QED BY <1>2, <1>4, <1>5, <1>6 DEF LMInv

\* A thread without a VM, a pool with too little free and too little cached:
\* the VMs in play are not of one size with room for one per thread.
LEMMA StuckMeansSizes ==
  ASSUME LMInv, NEW w \in Worker, NEW f, f = wk[w].fn, wk[w].pc = "alloc",
         ~(pool.free >= Memory[f]), ~Enough(pool, f)
  PROVE  ~OneSize
<1> SUFFICES ASSUME OneSize
             PROVE  FALSE
  OBVIOUS
<1> DEFINE m == Memory[f]
<1> DEFINE W == Cardinality(Worker)
<1>0. /\ pool \in Pools /\ IsFiniteSet(Units(pool)) /\ pool.free \in Nat /\ CachedMem(pool) \in Nat
      /\ pool.free + CachedMem(pool) + Cardinality(Lost(wk)) = TotalMem
  BY HeldIsLost, CacheFacts, FS_CardinalityType DEF LMInv, Balanced, CachedMem
<1>1. f \in Function /\ m \in Nat /\ m >= 1 /\ f \in InPlay
  BY MemoryAssumption DEF LMInv, Assigned, InPlay
<1>2. \A g \in InPlay : Memory[g] = m /\ m * W <= TotalMem
  BY <1>1 DEF OneSize
<1>3. wk[w].pc \notin Gone
  BY DEF Gone, Busy
<1>4. \A x \in Worker : wk[x].pc \in Gone => wk[x].fn \in InPlay
  BY DEF InPlay, Gone, Busy
<1>5. /\ IsFiniteSet(Lost(wk)) /\ W \in Nat
      /\ Cardinality(Lost(wk)) + m <= m * W
  BY <1>1, <1>2, <1>3, <1>4, LostBound
<1>6. Cardinality(Lost(wk)) \in Nat /\ m * W \in Nat
  BY <1>1, <1>5, FS_CardinalityType
<1>7. pool.free + CachedMem(pool) >= m
  <2>1. m * W <= TotalMem /\ TotalMem \in Nat
    BY <1>1, <1>2, TotalAssumption
  <2> HIDE DEF m, W
  <2> QED BY <1>0, <1>1, <1>5, <1>6, <2>1
<1>8. CachedMem(pool) > 0
  BY <1>0, <1>1, <1>7
<1>9. Units(pool) # {}
  BY <1>8, FS_EmptySet DEF CachedMem
<1>10. PICK g \in DOMAIN pool.cache : 1 \in 1..pool.cache[g]
  <2>1. PICK x : x \in Units(pool)
    BY <1>9
  <2>2. PICK g \in DOMAIN pool.cache : \E i \in 1..pool.cache[g] : \E u \in 1..Memory[g] : x = <<g, i, u>>
    BY <2>1, UnitIn
  <2>3. pool.cache[g] \in Nat /\ 1 \in 1..pool.cache[g]
    BY <1>0, <2>2, CacheFacts
  <2> QED BY <2>3
<1>11. OneVm(g, 1) \subseteq Units(pool)
  BY <1>0, <1>10, UnitsOfVm
<1>12. g \in Function /\ Memory[g] = m
  BY <1>0, <1>2, CacheFacts DEF InPlay
<1>13. m <= CachedMem(pool)
  BY <1>0, <1>11, <1>12, OneVmSize, FS_Subset DEF CachedMem
<1> QED BY <1>13, <1>0, <1>1 DEF Enough

LEMMA TryAllocateLM ==
  ASSUME LMInv, NEW w \in Worker, NEW flows \in BOOLEAN, TryAllocate(w, flows)
  PROVE  LMInv'
<1> DEFINE f == wk[w].fn
<1>0. /\ wk \in Threads /\ pool \in Pools /\ wk[w].pc = "alloc" /\ owner = None
      /\ IsFiniteSet(Units(pool)) /\ IsFiniteSet(Lost(wk))
      /\ pool.free + CachedMem(pool) + Cardinality(Lost(wk)) = TotalMem
      /\ report = pool.cache /\ report \in Caches
  BY HeldIsLost DEF LMInv, Balanced, TryAllocate, ReportsCurrent
<1>1. f \in Function /\ Memory[f] \in Nat /\ f \in InPlay
  BY <1>0, MemoryAssumption DEF LMInv, Assigned, InPlay
<1>2. CASE /\ CachedVms(pool, f) > 0 /\ pool' = Taken(pool, f) /\ UpdateScheduler(pool')
           /\ wk' = [wk EXCEPT ![w].pc = "try", ![w].up = TRUE] /\ UNCHANGED owner
  <2>1. /\ pool' \in Pools /\ pool'.free = pool.free /\ IsFiniteSet(Units(pool'))
        /\ CachedMem(pool') + Memory[f] = CachedMem(pool)
    BY <1>0, <1>1, <1>2, TakenUnits
  <2>2. pool.free \in Nat /\ CachedMem(pool') \in Nat
    BY <1>0, <2>1, CacheFacts, FS_CardinalityType DEF CachedMem
  <2>3. pool'.free + CachedMem(pool') + Memory[f] = pool.free + CachedMem(pool)
    BY <1>1, <2>1, <2>2
  <2> QED BY <1>0, <1>2, <2>1, <2>3, GetsVm DEF UpdateScheduler
<1>3. CASE /\ NewVm(pool, f).res = "ok" /\ pool' = NewVm(pool, f).pool /\ UpdateScheduler(pool')
           /\ wk' = [wk EXCEPT ![w].pc = "try", ![w].up = FALSE] /\ UNCHANGED owner
  <2>1. /\ pool' \in Pools /\ IsFiniteSet(Units(pool'))
        /\ pool'.free + CachedMem(pool') + Memory[f] = pool.free + CachedMem(pool)
    BY <1>0, <1>1, <1>3, NewVmOk
  <2> QED BY <1>0, <1>3, <2>1, GetsVm DEF UpdateScheduler
<1>4. CASE /\ NewVm(pool, f).res = "exhausted" /\ UpdateScheduler(pool)
           /\ wk' = Answered(w, "exhausted") /\ UNCHANGED <<pool, owner>>
  <2>1. TotalMem < Memory[f]
    BY <1>4 DEF NewVm
  <2>2. /\ wk' \in Threads
        /\ wk'[w].pc = "wait" /\ wk'[w].fn = f /\ wk'[w].res = "exhausted"
        /\ \A x \in Worker \ {w} : wk'[x] = wk[x]
    BY <1>0, <1>4, AnsweredThread DEF Codes
  <2>3. Lost(wk') = Lost(wk)
    BY <1>0, <2>2, LostSame DEF Gone, Busy
  <2>4. Balanced'
    BY <1>4, <2>3, HeldIsLost DEF LMInv, Balanced
  <2>5. Memory[f] > TotalMem
    BY <1>1, <2>1, TotalAssumption
  <2>6. Assigned' /\ ExhaustedOnlyIfTooBig'
    BY <1>0, <2>2, <2>5 DEF LMInv, Assigned, ExhaustedOnlyIfTooBig
  <2> QED BY <1>0, <1>4, <2>2, <2>4, <2>6 DEF LMInv, ReportsCurrent, UpdateScheduler
<1>5. CASE /\ NewVm(pool, f).res = "spin" /\ pool' = NewVm(pool, f).pool
           /\ owner' = w /\ UpdateScheduler(pool) /\ UNCHANGED wk
  <2>1. /\ pool' = Evicted(pool, TotalMem) /\ ~(pool.free >= Memory[f]) /\ ~Enough(pool, f)
    BY <1>5 DEF NewVm
  <2>2. /\ pool' \in Pools /\ IsFiniteSet(Units(pool')) /\ DOMAIN pool'.cache = DOMAIN pool.cache
        /\ FreedBy(pool, TotalMem) \in Nat
        /\ pool'.free = pool.free + FreedBy(pool, TotalMem)
        /\ CachedMem(pool') + FreedBy(pool, TotalMem) = CachedMem(pool)
    BY <1>0, <2>1, EvictedUnits, TotalAssumption
  <2>3. pool.free \in Nat /\ CachedMem(pool') \in Nat /\ Cardinality(Lost(wk)) \in Nat
    BY <1>0, <2>2, CacheFacts, FS_CardinalityType DEF CachedMem
  <2>4. pool'.free + CachedMem(pool') + Cardinality(Lost(wk)) = TotalMem
    BY <1>0, <2>2, <2>3
  <2>5. Balanced'
    BY <1>0, <1>5, <2>2, <2>4, HeldIsLost DEF Balanced
  <2>6. ~OneSize
    BY <1>0, <2>1, StuckMeansSizes
  <2>7. InPlay \subseteq InPlay'
    BY <1>5, <2>2 DEF InPlay
  <2>8. ~OneSize'
    BY <2>6, <2>7, SizesStay
  <2>9. Assigned' /\ ExhaustedOnlyIfTooBig'
    BY <1>5 DEF LMInv, Assigned, ExhaustedOnlyIfTooBig
  <2>10. ReportsCurrent' /\ owner' \in Worker \cup {None} /\ report' \in Caches /\ wk' \in Threads
    BY <1>0, <1>5, WorkerAssumption DEF ReportsCurrent, UpdateScheduler
  <2> QED BY <2>2, <2>5, <2>8, <2>9, <2>10 DEF LMInv
<1> QED BY <1>2, <1>3, <1>4, <1>5 DEF TryAllocate

LEMMA NextLM == LMInv /\ [Next]_vars => LMInv'
<1> SUFFICES ASSUME LMInv, [Next]_vars
             PROVE  LMInv'
  OBVIOUS
<1>1. ASSUME NEW w \in Worker, NEW f \in Function, TakeTask(w, f)
      PROVE  LMInv'
  BY <1>1, TakeTaskLM
<1>2. ASSUME NEW w \in Worker, Progress(w)
      PROVE  LMInv'
  BY <1>2, TryAllocateLM, RetryLoopLM, GiveBackLM DEF Progress
<1>3. CASE UNCHANGED vars
  <2>1. Balanced'
    BY <1>3, HeldIsLost DEF vars, LMInv, Balanced
  <2>2. OneSize' = OneSize
    BY <1>3 DEF vars, OneSize, InPlay
  <2> QED BY <1>3, <2>1, <2>2 DEF vars, LMInv, Assigned, ReportsCurrent, ExhaustedOnlyIfTooBig
<1> QED BY <1>1, <1>2, <1>3 DEF Next

-----------------------------------------------------------------------------
(* The theorems. *)

\* The invariant of the machine holds whatever the threads do, in any order.
THEOREM LMInvHolds == Spec => []LMInv
BY InitLM, NextLM, PTL DEF Spec

\* free_mem never runs below zero or above the total, and all the state of the
\* manager and its threads keeps its type.
THEOREM LocalTyped == Spec => []TypeOK
<1>1. LMInv => TypeOK
  <2> SUFFICES ASSUME LMInv
               PROVE  TypeOK
    OBVIOUS
  <2>1. pool \in Pools /\ pool.free \in Nat /\ CachedMem(pool) \in Nat
        /\ Cardinality(Held(Gone)) \in Nat
        /\ pool.free + CachedMem(pool) + Cardinality(Held(Gone)) = TotalMem
    BY CacheFacts, FS_CardinalityType DEF LMInv, Balanced, CachedMem
  <2>2. pool.free \in 0..TotalMem
    BY <2>1, TotalAssumption
  <2>3. DOMAIN report \subseteq Function
    BY DEF LMInv, Caches
  <2> QED BY <2>1, <2>2, <2>3, CacheFacts DEF LMInv, TypeOK, Threads, Thread
<1> QED BY <1>1, LMInvHolds, PTL

\* Free, cached and held memory together never exceed the machine, and make it
\* up exactly as long as no thread has panicked.
THEOREM MemoryBalanced == Spec => []MemoryBalance
<1>1. LMInv => MemoryBalance
  <2> SUFFICES ASSUME LMInv
               PROVE  MemoryBalance
    OBVIOUS
  <2>1. pool \in Pools /\ pool.free \in Nat /\ CachedMem(pool) \in Nat
        /\ IsFiniteSet(Held(Gone)) /\ Cardinality(Held(Gone)) \in Nat
        /\ pool.free + CachedMem(pool) + Cardinality(Held(Gone)) = TotalMem
    BY CacheFacts, FS_CardinalityType DEF LMInv, Balanced, CachedMem
  <2>2. Held(Busy) \subseteq Held(Gone)
    BY DEF Held, Gone
  <2>3. HeldMem \in Nat /\ HeldMem <= Cardinality(Held(Gone))
    BY <2>1, <2>2, FS_Subset, FS_CardinalityType DEF HeldMem
  <2>4. ASSUME \A w \in Worker : wk[w].pc # "dead"
        PROVE  Held(Busy) = Held(Gone)
    BY <2>4 DEF Held, Gone
  <2>5. pool.free + CachedMem(pool) + HeldMem <= TotalMem
    BY <2>1, <2>3, TotalAssumption
  <2> QED BY <2>1, <2>4, <2>5 DEF MemoryBalance, HeldMem
<1> QED BY <1>1, LMInvHolds, PTL

\* Whenever the manager's lock is free, the scheduler has been told the cache
\* as it is.
THEOREM ReportsStayCurrent == Spec => []ReportsCurrent
<1>1. LMInv => ReportsCurrent
  BY DEF LMInv
<1> QED BY <1>1, LMInvHolds, PTL

\* With VMs of one size and room for one per thread, no thread is ever caught in
\* the loop of dummy_evict with the manager's lock.
THEOREM EvictionAlwaysEnds == Spec => []EvictionEnds
<1>1. LMInv => EvictionEnds
  <2> SUFFICES ASSUME LMInv, \A m, n \in Sizes : m = n /\ m * Cardinality(Worker) <= TotalMem
               PROVE  owner = None
    BY DEF EvictionEnds
  <2>1. \A f \in InPlay : Memory[f] \in Sizes
    <3>1. ASSUME NEW f \in InPlay
          PROVE  f \in (DOMAIN pool.cache \cup {wk[w].fn : w \in Worker}) /\ f # None
      BY CacheFacts, WorkerAssumption DEF LMInv, InPlay, Assigned
    <3> QED BY <3>1 DEF Sizes
  <2>2. OneSize
    BY <2>1 DEF OneSize
  <2> QED BY <2>2 DEF LMInv
<1> QED BY <1>1, LMInvHolds, PTL

\* A task is refused for want of memory only if its function can never run here.
THEOREM RefusedOnlyIfTooBig == Spec => []ExhaustedOnlyIfTooBig
<1>1. LMInv => ExhaustedOnlyIfTooBig
  BY DEF LMInv
<1> QED BY <1>1, LMInvHolds, PTL

=============================================================================
