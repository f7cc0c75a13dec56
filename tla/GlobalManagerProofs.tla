------------------------- MODULE GlobalManagerProofs -------------------------
(***************************************************************************)
(* Proofs that the invariants of the global resource manager hold for any  *)
(* set of nodes, worker connections and functions, and for calls in any    *)
(* order.  GMTypeOK, KnownNodes, LiveEntries and FiledByNode are inductive *)
(* together: FindAny marks NodeOf[r] dirty, which is a key of info only    *)
(* because r was filed under its own node and that node is known.          *)
(***************************************************************************)
EXTENDS GlobalManager, TLAPS

\* A worker is filed under its own node.
FiledByNode ==
  \A n \in DOMAIN idle : \A i \in 1..Len(idle[n]) : NodeOf[idle[n][i]] = n

GMInv == GMTypeOK /\ KnownNodes /\ LiveEntries /\ FiledByNode

-----------------------------------------------------------------------------
(* The helpers on maps and stacks. *)

\* Dropping the zero counts of a map of counts leaves a map of positive
\* counts over fewer nodes.
LEMMA RetainCountedFacts ==
  ASSUME NEW m, NEW S, DOMAIN m \subseteq S, \A n \in DOMAIN m : m[n] \in Nat
  PROVE  /\ DOMAIN RetainCounted(m) \subseteq S
         /\ DOMAIN RetainCounted(m) \subseteq DOMAIN m
         /\ RetainCounted(m) \in [DOMAIN RetainCounted(m) -> Nat]
         /\ \A n \in DOMAIN RetainCounted(m) : RetainCounted(m)[n] > 0
BY DEF RetainCounted, Restrict

\* Popping from a stack filed under one node leaves a stack of that node.
LEMMA RestFacts ==
  ASSUME NEW s \in Seq(Worker)
  PROVE  /\ Rest(s) \in Seq(Worker)
         /\ Len(Rest(s)) <= Len(s)
         /\ \A i \in 1..Len(Rest(s)) : Rest(s)[i] = s[i]
<1>1. CASE s = <<>>
  BY <1>1 DEF Rest
<1>2. CASE s # <<>>
  BY <1>2 DEF Rest
<1> QED BY <1>1, <1>2

\* What the idle map is after a pop followed by retain.
LEMMA IdlePoppedFacts ==
  ASSUME GMInv, NEW n
  PROVE  /\ DOMAIN IdlePopped(n) \subseteq DOMAIN idle
         /\ IdlePopped(n) \in [DOMAIN IdlePopped(n) -> Seq(Worker)]
         /\ \A k \in DOMAIN IdlePopped(n) :
              /\ IdlePopped(n)[k] # <<>>
              /\ \A i \in 1..Len(IdlePopped(n)[k]) : NodeOf[IdlePopped(n)[k][i]] = k
<1> DEFINE m == IF n \in DOMAIN idle THEN [idle EXCEPT ![n] = Rest(@)] ELSE idle
<1>1. /\ DOMAIN m = DOMAIN idle
      /\ \A k \in DOMAIN idle : m[k] = IF k = n THEN Rest(idle[n]) ELSE idle[k]
  OBVIOUS
<1>2. \A k \in DOMAIN idle : /\ idle[k] \in Seq(Worker)
                             /\ \A i \in 1..Len(idle[k]) : NodeOf[idle[k][i]] = k
  BY DEF GMInv, GMTypeOK, FiledByNode
<1>3. ASSUME NEW k \in DOMAIN idle
      PROVE  /\ m[k] \in Seq(Worker)
             /\ \A i \in 1..Len(m[k]) : NodeOf[m[k][i]] = k
  <2>1. CASE k = n
    <3>1. m[k] = Rest(idle[k])
      BY <1>1, <2>1
    <3>2. /\ Rest(idle[k]) \in Seq(Worker)
          /\ Len(Rest(idle[k])) <= Len(idle[k])
          /\ \A i \in 1..Len(Rest(idle[k])) : Rest(idle[k])[i] = idle[k][i]
      BY <1>2, RestFacts
    <3>3. Len(Rest(idle[k])) \in Nat /\ Len(idle[k]) \in Nat
      BY <1>2, <3>2
    <3> QED BY <1>2, <3>1, <3>2, <3>3
  <2>2. CASE k # n
    BY <1>1, <1>2, <2>2
  <2> QED BY <2>1, <2>2
<1> HIDE DEF m
<1>4. IdlePopped(n) = [k \in {j \in DOMAIN m : m[j] # <<>>} |-> m[k]]
  BY DEF IdlePopped, RetainStaffed, Restrict, m
<1> QED BY <1>1, <1>3, <1>4

\* A worker that find_idle returns was filed under the node it runs on.
LEMMA PoppedFacts ==
  ASSUME GMInv, NEW n \in DOMAIN idle
  PROVE  /\ Popped(idle[n]) \in Worker
         /\ NodeOf[Popped(idle[n])] = n
<1>1. idle[n] \in Seq(Worker) /\ idle[n] # <<>>
  BY DEF GMInv, GMTypeOK, LiveEntries
<1>2. Len(idle[n]) \in 1..Len(idle[n])
  BY <1>1
<1> QED BY <1>1, <1>2 DEF GMInv, FiledByNode, Popped

-----------------------------------------------------------------------------
(* Each operation preserves the invariant. *)

LEMMA AddIdlePreserves ==
  ASSUME GMInv, NEW w \in Worker, AddIdle(w)
  PROVE  GMInv'
<1> DEFINE n == NodeOf[w]
           v == IF n \in DOMAIN idle THEN idle[n] ELSE <<>>
<1>1. /\ n \in Node
      /\ v \in Seq(Worker)
      /\ \A i \in 1..Len(v) : NodeOf[v[i]] = n
  BY NodeOfAssumption DEF GMInv, GMTypeOK, FiledByNode
<1>2. /\ Append(v, w) \in Seq(Worker)
      /\ Append(v, w) # <<>>
      /\ \A i \in 1..Len(Append(v, w)) : NodeOf[Append(v, w)[i]] = n
  BY <1>1
<1>3. /\ info' = TryAddNode(n)
      /\ idle' = Put(idle, n, Append(v, w))
      /\ cached' = cached
  BY DEF AddIdle
<1> HIDE DEF v
<1>4. /\ DOMAIN info' = DOMAIN info \cup {n}
      /\ info' \in [DOMAIN info' -> BOOLEAN]
  BY <1>3 DEF TryAddNode, Put, GMInv, GMTypeOK
<1>5. /\ DOMAIN idle' = DOMAIN idle \cup {n}
      /\ \A k \in DOMAIN idle' : idle'[k] = IF k = n THEN Append(v, w) ELSE idle[k]
      /\ idle' = [k \in DOMAIN idle' |-> idle'[k]]
  BY <1>3 DEF Put
<1> HIDE DEF n
<1>6. GMTypeOK'
  BY <1>1, <1>2, <1>3, <1>4, <1>5 DEF GMInv, GMTypeOK
<1>7. KnownNodes'
  BY <1>3, <1>4, <1>5 DEF GMInv, KnownNodes
<1>8. LiveEntries'
  BY <1>2, <1>3, <1>5 DEF GMInv, LiveEntries
<1>9. FiledByNode'
  BY <1>2, <1>5 DEF GMInv, FiledByNode
<1> QED BY <1>6, <1>7, <1>8, <1>9 DEF GMInv

LEMMA FindCachedPreserves ==
  ASSUME GMInv, NEW f \in Function, NEW r, FindCached(f, r)
  PROVE  GMInv'
<1>1. PICK n \in Clean(f) :
        /\ cached' = [cached EXCEPT ![f] = Spent(f, n)]
        /\ idle' = IdlePopped(n)
        /\ info' = info
  BY DEF FindCached
<1> DEFINE m == [cached[f] EXCEPT ![n] = @ - 1]
<1>2. /\ DOMAIN m = DOMAIN cached[f]
      /\ \A k \in DOMAIN m : m[k] \in Nat
  BY DEF Clean, GMInv, GMTypeOK, LiveEntries
<1>3. cached' = [cached EXCEPT ![f] = RetainCounted(m)]
  BY <1>1 DEF Spent
<1>4. /\ DOMAIN RetainCounted(m) \subseteq DOMAIN cached[f]
      /\ RetainCounted(m) \in [DOMAIN RetainCounted(m) -> Nat]
      /\ \A k \in DOMAIN RetainCounted(m) : RetainCounted(m)[k] > 0
  BY <1>2, RetainCountedFacts
<1> HIDE DEF m
<1>5. /\ DOMAIN cached' = Function
      /\ \A g \in Function : cached'[g] = IF g = f THEN RetainCounted(m) ELSE cached[g]
  BY <1>3 DEF GMInv, GMTypeOK
<1>6. /\ DOMAIN idle' \subseteq DOMAIN idle
      /\ idle' \in [DOMAIN idle' -> Seq(Worker)]
      /\ \A k \in DOMAIN idle' :
           /\ idle'[k] # <<>>
           /\ \A i \in 1..Len(idle'[k]) : NodeOf[idle'[k][i]] = k
  BY <1>1, IdlePoppedFacts
<1>7. GMTypeOK'
  BY <1>1, <1>4, <1>5, <1>6 DEF GMInv, GMTypeOK
<1>8. KnownNodes'
  BY <1>1, <1>4, <1>5, <1>6 DEF GMInv, KnownNodes
<1>9. LiveEntries'
  BY <1>4, <1>5, <1>6 DEF GMInv, LiveEntries
<1>10. FiledByNode'
  BY <1>6 DEF FiledByNode
<1> QED BY <1>7, <1>8, <1>9, <1>10 DEF GMInv

LEMMA FindAnyPreserves ==
  ASSUME GMInv, NEW f \in Function, NEW r, FindAny(f, r)
  PROVE  GMInv'
<1>1. CASE UNCHANGED gmVars
  BY <1>1 DEF GMInv, GMTypeOK, KnownNodes, LiveEntries, FiledByNode, gmVars
<1>2. CASE \E n \in DOMAIN idle :
             /\ r = Popped(idle[n])
             /\ info' = IF r = None THEN info ELSE [info EXCEPT ![NodeOf[r]] = TRUE]
             /\ idle' = IdlePopped(n)
             /\ cached' = cached
  <2>1. PICK n \in DOMAIN idle :
             /\ r = Popped(idle[n])
             /\ info' = IF r = None THEN info ELSE [info EXCEPT ![NodeOf[r]] = TRUE]
             /\ idle' = IdlePopped(n)
             /\ cached' = cached
    BY <1>2
  <2>2. DOMAIN info' = DOMAIN info /\ info' \in [DOMAIN info' -> BOOLEAN]
    <3>1. NodeOf[r] \in DOMAIN info
      BY <2>1, PoppedFacts DEF GMInv, KnownNodes
    <3> QED BY <2>1, <3>1 DEF GMInv, GMTypeOK
  <2>3. /\ DOMAIN idle' \subseteq DOMAIN idle
        /\ idle' \in [DOMAIN idle' -> Seq(Worker)]
        /\ \A k \in DOMAIN idle' :
             /\ idle'[k] # <<>>
             /\ \A i \in 1..Len(idle'[k]) : NodeOf[idle'[k][i]] = k
    BY <2>1, IdlePoppedFacts
  <2>4. GMTypeOK'
    BY <2>1, <2>2, <2>3 DEF GMInv, GMTypeOK
  <2>5. KnownNodes'
    BY <2>1, <2>2, <2>3 DEF GMInv, KnownNodes
  <2>6. LiveEntries'
    BY <2>1, <2>3 DEF GMInv, LiveEntries
  <2>7. FiledByNode'
    BY <2>3 DEF FiledByNode
  <2> QED BY <2>4, <2>5, <2>6, <2>7 DEF GMInv
<1> QED BY <1>1, <1>2 DEF FindAny, gmVars

LEMMA UpdatePreserves ==
  ASSUME GMInv, NEW n \in Node, NEW stats, \A f \in DOMAIN stats : stats[f] \in Nat,
         Update(n, stats)
  PROVE  GMInv'
<1>1. /\ info' = Put(TryAddNode(n), n, FALSE)
      /\ idle' = idle
      /\ DOMAIN cached' = Function
      /\ \A f \in Function :
           cached'[f] = IF f \in DOMAIN stats
                        THEN RetainCounted(Put(cached[f], n, stats[f])) ELSE cached[f]
  BY DEF Update
<1>2. DOMAIN info' = DOMAIN info \cup {n} /\ info' \in [DOMAIN info' -> BOOLEAN]
  BY <1>1 DEF TryAddNode, Put, GMInv, GMTypeOK
<1>3. \A f \in DOMAIN stats : stats[f] \in Nat
  OBVIOUS
<1>4. ASSUME NEW f \in Function
      PROVE  /\ DOMAIN cached'[f] \subseteq DOMAIN cached[f] \cup {n}
             /\ cached'[f] \in [DOMAIN cached'[f] -> Nat]
             /\ \A k \in DOMAIN cached'[f] : cached'[f][k] > 0
  <2>1. CASE f \in DOMAIN stats
    <3> DEFINE m == Put(cached[f], n, stats[f])
    <3>1. DOMAIN m = DOMAIN cached[f] \cup {n} /\ \A k \in DOMAIN m : m[k] \in Nat
      BY <1>3, <2>1 DEF Put, GMInv, GMTypeOK
    <3>2. cached'[f] = RetainCounted(m)
      BY <1>1, <2>1
    <3> HIDE DEF m
    <3> QED BY <3>1, <3>2, RetainCountedFacts
  <2>2. CASE f \notin DOMAIN stats
    BY <1>1, <2>2 DEF GMInv, GMTypeOK, LiveEntries
  <2> QED BY <2>1, <2>2
<1>5. GMTypeOK'
  BY <1>1, <1>2, <1>4 DEF GMInv, GMTypeOK
<1>6. KnownNodes'
  BY <1>1, <1>2, <1>4 DEF GMInv, KnownNodes
<1>7. LiveEntries'
  BY <1>1, <1>4 DEF GMInv, LiveEntries
<1>8. FiledByNode'
  BY <1>1 DEF GMInv, FiledByNode
<1> QED BY <1>5, <1>6, <1>7, <1>8 DEF GMInv

LEMMA RemovePreserves ==
  ASSUME GMInv, NEW n \in Node, Remove(n)
  PROVE  GMInv'
<1>1. /\ info' = [k \in DOMAIN info \ {n} |-> info[k]]
      /\ idle' = [k \in DOMAIN idle \ {n} |-> idle[k]]
  BY DEF Remove, Drop, Restrict
<1>2. DOMAIN cached' = Function
  BY DEF Remove
<1>3. ASSUME NEW f \in Function
      PROVE  /\ DOMAIN cached'[f] \subseteq DOMAIN cached[f] \ {n}
             /\ cached'[f] \in [DOMAIN cached'[f] -> Nat]
             /\ \A k \in DOMAIN cached'[f] : cached'[f][k] > 0
  <2>1. CASE n \in DOMAIN cached[f]
    <3> DEFINE m == Drop(cached[f], n)
    <3>1. DOMAIN m = DOMAIN cached[f] \ {n} /\ \A k \in DOMAIN m : m[k] \in Nat
      BY DEF Drop, Restrict, GMInv, GMTypeOK
    <3>2. cached'[f] = RetainCounted(m)
      BY <2>1 DEF Remove
    <3> HIDE DEF m
    <3> QED BY <3>1, <3>2, RetainCountedFacts
  <2>2. CASE n \notin DOMAIN cached[f]
    BY <2>2 DEF Remove, GMInv, GMTypeOK, LiveEntries
  <2> QED BY <2>1, <2>2
<1>4. GMTypeOK'
  BY <1>1, <1>2, <1>3 DEF GMInv, GMTypeOK
<1>5. KnownNodes'
  BY <1>1, <1>3 DEF GMInv, KnownNodes
<1>6. LiveEntries'
  BY <1>1, <1>3 DEF GMInv, LiveEntries
<1>7. FiledByNode'
  BY <1>1 DEF GMInv, FiledByNode
<1> QED BY <1>4, <1>5, <1>6, <1>7 DEF GMInv

LEMMA RemoveAllPreserves ==
  ASSUME GMInv, RemoveAll
  PROVE  GMInv'
<1>1. /\ DOMAIN info' = {} /\ info' \in [DOMAIN info' -> BOOLEAN]
      /\ DOMAIN idle' = {} /\ idle' \in [DOMAIN idle' -> Seq(Worker)]
      /\ DOMAIN cached' = Function
      /\ \A f \in Function : DOMAIN cached'[f] = {} /\ cached'[f] \in [{} -> Nat]
  BY DEF RemoveAll, Restrict, EmptyMap, GMInv, KnownNodes, GMTypeOK
<1> QED BY <1>1 DEF GMInv, GMTypeOK, KnownNodes, LiveEntries, FiledByNode

-----------------------------------------------------------------------------

\* The types of the maps, the safety of both unwraps, the absence of dead
\* entries and the filing of workers under their own node hold in every
\* reachable state of the manager, for any nodes, workers and functions.
THEOREM GMInvariant == GMSpec => []GMInv
<1>1. GMInit => GMInv
  BY DEF GMInit, EmptyMap, GMInv, GMTypeOK, KnownNodes, LiveEntries, FiledByNode
<1>2. GMInv /\ [GMNext]_gmVars => GMInv'
  <2> SUFFICES ASSUME GMInv, [GMNext]_gmVars PROVE GMInv'
    OBVIOUS
  <2>1. CASE \E w \in Worker : AddIdle(w)
    BY <2>1, AddIdlePreserves
  <2>2. CASE \E f \in Function, r \in Worker \cup {None} : FindIdle(f, r)
    BY <2>2, FindCachedPreserves, FindAnyPreserves DEF FindIdle
  <2>3. CASE \E n \in Node, stats \in Stats : Update(n, stats)
    <3>1. \A stats \in Stats : \A f \in DOMAIN stats : stats[f] \in Nat
      BY CountAssumption DEF Stats
    <3> QED BY <2>3, <3>1, UpdatePreserves
  <2>4. CASE \E n \in Node : Remove(n)
    BY <2>4, RemovePreserves
  <2>5. CASE RemoveAll
    BY <2>5, RemoveAllPreserves
  <2>6. CASE UNCHANGED gmVars
    BY <2>6 DEF gmVars, GMInv, GMTypeOK, KnownNodes, LiveEntries, FiledByNode
  <2> QED BY <2>1, <2>2, <2>3, <2>4, <2>5, <2>6 DEF GMNext
<1> QED BY <1>1, <1>2, PTL DEF GMSpec

\* The maps keep their types under any order of the manager's methods.
THEOREM GMTypeOKHolds == GMSpec => []GMTypeOK
BY GMInvariant, PTL DEF GMInv

\* No call of find_idle panics on an unknown node.
THEOREM KnownNodesHolds == GMSpec => []KnownNodes
BY GMInvariant, PTL DEF GMInv

\* No count underflows, and the fallback of find_idle never meets an empty
\* vector.
THEOREM LiveEntriesHolds == GMSpec => []LiveEntries
BY GMInvariant, PTL DEF GMInv

=============================================================================
