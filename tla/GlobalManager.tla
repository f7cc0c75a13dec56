---------------------------- MODULE GlobalManager ----------------------------
(***************************************************************************)
(* The scheduler's global resource manager: snapfaas/src/sched/            *)
(* resource_manager.rs.  Every operation runs under one mutex, so each is  *)
(* one atomic action.                                                      *)
(*                                                                         *)
(* info, cached and idle are the struct's hash maps; the domain of each    *)
(* function is the set of keys present.  A NodeInfo is its dirty flag (the *)
(* two memory fields are written and never read).  cached[f] is the vector *)
(* of (node, count) pairs of f as a map from nodes to counts: the vector   *)
(* holds a node at most once, and its order only decides which clean node  *)
(* is "first", so any clean node may be taken here.  A function without a  *)
(* key and a function with an empty vector behave alike and are both the   *)
(* empty map.                                                              *)
(***************************************************************************)
EXTENDS Integers, Sequences, FiniteSets, Functions

CONSTANTS
  Node,       \* IP addresses of worker machines
  Worker,     \* worker connections (the scheduler's Worker structs)
  Function,   \* function images
  NodeOf,     \* the peer address of each worker connection
  Count,      \* the numbers of cached VMs a node may report
  None        \* Rust's None

ASSUME NodeOfAssumption == NodeOf \in [Worker -> Node]
ASSUME CountAssumption  == Count \subseteq Nat
ASSUME NoneAssumption   == None \notin Worker

VARIABLES
  info,    \* node -> dirty flag
  cached,  \* function -> (node -> number of cached VMs)
  idle     \* node -> stack of idle workers

gmVars == <<info, cached, idle>>

-----------------------------------------------------------------------------
(* Maps. *)

EmptyMap == [k \in {} |-> None]

\* HashMap::insert
Put(m, k, v) == [x \in DOMAIN m \cup {k} |-> IF x = k THEN v ELSE m[x]]

\* HashMap::remove
Drop(m, k) == Restrict(m, DOMAIN m \ {k})

\* Vec::pop on a vector of workers: what it returns, and what is left.
Popped(s) == IF s = <<>> THEN None ELSE s[Len(s)]
Rest(s)   == IF s = <<>> THEN <<>> ELSE SubSeq(s, 1, Len(s) - 1)

\* Mutant of RetainCounted: entries whose count reached zero are kept.
RetainAll(m) == m

\* v.retain(|n| n.1 != 0) and nodes.retain(|n| n.1 > 0)
RetainCounted(m) == Restrict(m, {n \in DOMAIN m : m[n] # 0})

\* self.idle.retain(|_, v| !v.is_empty())
RetainStaffed(m) == Restrict(m, {n \in DOMAIN m : m[n] # <<>>})

-----------------------------------------------------------------------------
(* Operations. *)

GMInit ==
  /\ info   = EmptyMap
  /\ cached = [f \in Function |-> EmptyMap]
  /\ idle   = EmptyMap

\* try_add_node: a node that is not known yet starts clean.
TryAddNode(n) == IF n \in DOMAIN info THEN info ELSE Put(info, n, FALSE)

\* add_idle
AddIdle(w) ==
  LET n == NodeOf[w]
      v == IF n \in DOMAIN idle THEN idle[n] ELSE <<>>
  IN  /\ info' = TryAddNode(n)
      /\ idle' = Put(idle, n, Append(v, w))
      /\ UNCHANGED cached

\* The nodes find_idle may rely on for f.
Clean(f) == {n \in DOMAIN cached[f] : ~info[n]}

\* Mutant of IdlePopped: the worker is looked at and not popped.
IdlePeeked(n) == idle

\* The idle map once a worker is popped from the vector of node n.
IdlePopped(n) ==
  RetainStaffed(IF n \in DOMAIN idle THEN [idle EXCEPT ![n] = Rest(@)] ELSE idle)

\* The entries of f once one VM cached on node n is spoken for.
Spent(f, n) == RetainCounted([cached[f] EXCEPT ![n] = @ - 1])

\* find_idle when a clean node is recorded to cache f: its count is spent
\* whether or not the node has an idle worker to return.
FindCached(f, r) ==
  \E n \in Clean(f) :
    /\ cached' = [cached EXCEPT ![f] = Spent(f, n)]
    /\ r = IF n \in DOMAIN idle THEN Popped(idle[n]) ELSE None
    /\ idle' = IdlePopped(n)
    /\ UNCHANGED info

\* find_idle otherwise: the first entry of the hash map, in no fixed order;
\* the node is marked dirty since it may now evict to make room for f.
FindAny(f, r) ==
  /\ Clean(f) = {}
  /\ \/ /\ DOMAIN idle = {}
        /\ r = None
        /\ UNCHANGED <<info, idle>>
     \/ \E n \in DOMAIN idle :
          /\ r = Popped(idle[n])
          /\ info' = IF r = None THEN info ELSE [info EXCEPT ![NodeOf[r]] = TRUE]
          /\ idle' = IdlePopped(n)
  /\ UNCHANGED cached

\* find_idle(f) returning r, a worker or None
FindIdle(f, r) == FindCached(f, r) \/ FindAny(f, r)

\* update: stats maps the functions the node reports to counts.  Functions
\* it does not report keep the count they had.
Update(n, stats) ==
  /\ info' = Put(TryAddNode(n), n, FALSE)
  /\ cached' = [f \in Function |->
                  IF f \in DOMAIN stats
                  THEN RetainCounted(Put(cached[f], n, stats[f]))
                  ELSE cached[f]]
  /\ UNCHANGED idle

\* The idle workers of node n that remove sends Terminate to.
Terminated(n) == IF n \in DOMAIN idle THEN idle[n] ELSE <<>>

\* Mutant of Remove: the idle workers of the node are left behind.
RemoveButIdle(n) ==
  /\ cached' = [f \in Function |-> RetainCounted(Drop(cached[f], n))]
  /\ info' = Drop(info, n)
  /\ UNCHANGED idle

\* remove
Remove(n) ==
  /\ cached' = [f \in Function |->
                  IF n \in DOMAIN cached[f]
                  THEN RetainCounted(Drop(cached[f], n))
                  ELSE cached[f]]
  /\ info' = Drop(info, n)
  /\ idle' = Drop(idle, n)

\* remove_all: remove for every key of info.
RemoveAll ==
  /\ cached' = [f \in Function |-> Restrict(cached[f], DOMAIN cached[f] \ DOMAIN info)]
  /\ info' = EmptyMap
  /\ idle' = Restrict(idle, DOMAIN idle \ DOMAIN info)

\* What a local resource manager may report.
Stats == UNION {[S -> Count] : S \in SUBSET Function}

\* The most general caller: the handlers of rpc_server.rs and the scheduling
\* thread may call the operations in any order.
GMNext ==
  \/ \E w \in Worker : AddIdle(w)
  \/ \E f \in Function, r \in Worker \cup {None} : FindIdle(f, r)
  \/ \E n \in Node, stats \in Stats : Update(n, stats)
  \/ \E n \in Node : Remove(n)
  \/ RemoveAll

GMSpec == GMInit /\ [][GMNext]_gmVars

-----------------------------------------------------------------------------
(* Properties. *)

\* The types of the three maps.
GMTypeOK ==
  /\ DOMAIN info \subseteq Node
  /\ info \in [DOMAIN info -> BOOLEAN]
  /\ DOMAIN cached = Function
  /\ \A f \in Function : /\ DOMAIN cached[f] \subseteq Node
                         /\ cached[f] \in [DOMAIN cached[f] -> Nat]
  /\ DOMAIN idle \subseteq Node
  /\ idle \in [DOMAIN idle -> Seq(Worker)]

\* Both info.get(..).unwrap() in find_idle succeed: every node that is
\* recorded to cache a VM or to have an idle worker is a key of info, however
\* registrations, reports and removals interleave.
KnownNodes ==
  /\ \A f \in Function : DOMAIN cached[f] \subseteq DOMAIN info
  /\ DOMAIN idle \subseteq DOMAIN info

\* The retain calls keep the maps free of dead entries.  A zero count would
\* make `n.1 -= 1` underflow; an empty vector would make the fallback of
\* find_idle, which looks at one entry only, return None while workers of
\* other nodes are idle.
LiveEntries ==
  /\ \A f \in Function : \A n \in DOMAIN cached[f] : cached[f][n] > 0
  /\ \A n \in DOMAIN idle : idle[n] # <<>>

=============================================================================
