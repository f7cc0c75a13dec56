-------------------------------- MODULE VmPool --------------------------------
(***************************************************************************)
(* The VM cache and the memory account of one worker machine: what the     *)
(* methods of the local ResourceManager (snapfaas/src/resource_manager.rs) *)
(* compute.  A pool is a record: cache maps each function that was ever    *)
(* cached to the number of its idle VMs (the vector of Vm values; keys are *)
(* never removed), free is free_mem.  VMs of one function are alike: their *)
(* label is set to public when they are made and never changed.            *)
(***************************************************************************)
EXTENDS Integers, FiniteSets

CONSTANTS
  Function,   \* function images
  Memory,     \* the memory each function asks for
  TotalMem    \* total_mem of the machine

ASSUME MemoryAssumption == Memory \in [Function -> Nat \ {0}]
ASSUME TotalAssumption  == TotalMem \in Nat \ {0}

\* ResourceManager::new and set_total_mem: nothing cached, all memory free.
FreshPool == [cache |-> [f \in {} |-> 0], free |-> TotalMem]

\* The number of cached VMs of f.
CachedVms(p, f) == IF f \in DOMAIN p.cache THEN p.cache[f] ELSE 0

\* The memory of the cached VMs, unit by unit: <<f, i, u>> is unit u of the i-th
\* VM in the list of f.
Units(p) == UNION {{f} \X (1..p.cache[f]) \X (1..Memory[f]) : f \in DOMAIN p.cache}

\* The part of it that k rounds of the loop in dummy_evict free: a round pops the
\* last VM of every list that has one.
FreedUnits(p, k) == {x \in Units(p) : x[2] > p.cache[x[1]] - k}

CachedMem(p)  == Cardinality(Units(p))
FreedBy(p, k) == Cardinality(FreedUnits(p, k))

\* Mutant of Evicted: memory is credited, the VMs stay in the cache.
EvictedKept(p, k) == [p EXCEPT !.free = @ + FreedBy(p, k)]

\* The pool after k rounds of dummy_evict.
Evicted(p, k) ==
  [cache |-> [f \in DOMAIN p.cache |-> IF p.cache[f] > k THEN p.cache[f] - k ELSE 0],
   free  |-> p.free + FreedBy(p, k)]

\* get_cached_vm: take a cached VM of f.
Taken(p, f) == [p EXCEPT !.cache[f] = @ - 1]

\* Mutant of Released: a cached VM gives its memory back as well.
ReleasedFree(p, f) ==
  [cache |-> [g \in DOMAIN p.cache \cup {f} |->
                CachedVms(p, g) + (IF g = f THEN 1 ELSE 0)],
   free  |-> p.free + Memory[f]]

\* release: put a VM of f in the cache.
Released(p, f) ==
  [p EXCEPT !.cache = [g \in DOMAIN @ \cup {f} |->
                         CachedVms(p, g) + (IF g = f THEN 1 ELSE 0)]]

\* delete: give the memory of a VM back.
Deleted(p, f) == [p EXCEPT !.free = @ + Memory[f]]

\* try_allocate_memory: reserve the memory of f.
Reserved(p, f) == [p EXCEPT !.free = @ - Memory[f]]

\* Mutant of Enough: the loop asks for more than the request.
EnoughStrictly(p, f) == CachedMem(p) > Memory[f]

\* The loop of dummy_evict counts only what it frees itself, not free_mem, and
\* goes round as long as that does not cover the request: once for every k such
\* that k rounds are not enough, and for ever when the cache is too small.
Enough(p, f)      == CachedMem(p) >= Memory[f]
EvictRounds(p, f) == Cardinality({k \in 0..(Memory[f] - 1) : FreedBy(p, k) < Memory[f]})

\* Mutant of NewVm: nothing is evicted.
NewVmUnlessFull(p, f) ==
  IF p.free >= Memory[f] THEN [res |-> "ok", pool |-> Reserved(p, f)]
                         ELSE [res |-> "exhausted", pool |-> p]

\* new_vm: the outcome for function f and the pool it leaves.
\*   "ok"         memory is reserved, after an eviction if need be;
\*   "exhausted"  f does not fit the machine;
\*   "spin"       the eviction loop has emptied the cache and never returns.
NewVm(p, f) ==
  IF p.free >= Memory[f]
    THEN [res |-> "ok", pool |-> Reserved(p, f)]
  ELSE IF TotalMem < Memory[f]
    THEN [res |-> "exhausted", pool |-> p]
  ELSE IF Enough(p, f)
    THEN [res |-> "ok", pool |-> Reserved(Evicted(p, EvictRounds(p, f)), f)]
  ELSE [res |-> "spin", pool |-> Evicted(p, TotalMem)]

=============================================================================
