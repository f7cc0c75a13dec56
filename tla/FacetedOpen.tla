----------------------------- MODULE FacetedOpen -----------------------------
(***************************************************************************)
(* open of a faceted directory (snapfaas/src/fs/mod.rs) by threads that    *)
(* share the backing store.  A facet is created the first time it is       *)
(* opened: a labeled directory is written under a new random uid, then the *)
(* list of facets is swapped for one that has it.  A thread that loses the *)
(* race looks again in the list the store now has, and leaves the          *)
(* directory it made behind.                                               *)
(*                                                                         *)
(* The list is only ever appended to, so the set of its pairs tells as     *)
(* much as the list.  A faceted directory that was never written (get      *)
(* returns None) behaves as the empty list.  set_new_id reserves a uid and *)
(* then writes the object: nobody else has the uid in between, so it is    *)
(* one step.                                                               *)
(***************************************************************************)
CONSTANTS
  Thread, Facet,
  Uid,      \* uids
  Draw(_),  \* those of the unused ones that rand::random may draw
  None

ASSUME NoneAssumption == None \notin Uid /\ None \notin Facet
ASSUME DrawAssumption == \A unused \in SUBSET Uid : Draw(unused) \subseteq unused

VARIABLES
  facets,  \* the faceted directory: pairs of a facet and the uid of its directory
  label,   \* the labeled directories: uid -> label, None while unused
  pc,      \* per thread: "idle", "get", "new", "cas", "done"
  want,    \* per thread: the facet it opens
  prev,    \* per thread: mfaceted_dir, the list it last saw
  mine,    \* per thread: new_dir, the uid it drew
  res      \* per thread: the uid that open returns

locals == <<pc, want, prev, mine, res>>
vars   == <<facets, label, locals>>

Init ==
  /\ facets = {}
  /\ label  = [u \in Uid |-> None]
  /\ pc     = [t \in Thread |-> "idle"]
  /\ want   = [t \in Thread |-> None]
  /\ prev   = [t \in Thread |-> {}]
  /\ mine   = [t \in Thread |-> None]
  /\ res    = [t \in Thread |-> None]

\* find_map: the directory of facet f in list s.
Found(s, f) == {x[2] : x \in {y \in s : y[1] = f}}

Open(t, f) ==
  /\ pc[t] = "idle"
  /\ pc'   = [pc EXCEPT ![t] = "get"]
  /\ want' = [want EXCEPT ![t] = f]
  /\ UNCHANGED <<facets, label, prev, mine, res>>

\* The head of the loop, on the list that get or a failed cas brought.
Look(t) ==
  /\ prev' = [prev EXCEPT ![t] = facets]
  /\ \/ \E u \in Found(facets, want[t]) :
          /\ pc'  = [pc EXCEPT ![t] = "done"]
          /\ res' = [res EXCEPT ![t] = u]
     \/ /\ Found(facets, want[t]) = {}
        /\ pc' = [pc EXCEPT ![t] = "new"]
        /\ UNCHANGED res
  /\ UNCHANGED <<facets, label, want, mine>>

Get(t) == pc[t] = "get" /\ Look(t)

\* set_new_id
SetNewId(t) ==
  /\ pc[t] = "new"
  /\ \E u \in Draw({v \in Uid : label[v] = None}) :
       /\ label' = [label EXCEPT ![u] = want[t]]
       /\ mine'  = [mine EXCEPT ![t] = u]
  /\ pc' = [pc EXCEPT ![t] = "cas"]
  /\ UNCHANGED <<facets, want, prev, res>>

\* Mutant of CasSucceeds: the list is set, whatever it has become.
SetBlindly(t) ==
  /\ pc[t] = "cas"
  /\ facets' = prev[t] \cup {<<want[t], mine[t]>>}
  /\ res'    = [res EXCEPT ![t] = mine[t]]
  /\ pc'     = [pc EXCEPT ![t] = "done"]
  /\ UNCHANGED <<label, want, prev, mine>>

CasSucceeds(t) ==
  /\ pc[t] = "cas"
  /\ facets = prev[t]
  /\ facets' = facets \cup {<<want[t], mine[t]>>}
  /\ res'    = [res EXCEPT ![t] = mine[t]]
  /\ pc'     = [pc EXCEPT ![t] = "done"]
  /\ UNCHANGED <<label, want, prev, mine>>

\* Mutant of CasFails: the new list is not searched.
CasFailsUnsearched(t) ==
  /\ pc[t] = "cas"
  /\ facets # prev[t]
  /\ prev' = [prev EXCEPT ![t] = facets]
  /\ UNCHANGED <<facets, label, pc, want, mine, res>>

\* Mutant of CasFails: the directory that lost the race is returned.
CasFailsReturns(t) ==
  /\ pc[t] = "cas"
  /\ facets # prev[t]
  /\ pc'  = [pc EXCEPT ![t] = "done"]
  /\ res' = [res EXCEPT ![t] = mine[t]]
  /\ UNCHANGED <<facets, label, want, prev, mine>>

\* Mutant of CasFails: the loop goes round with the list it had.
CasFailsStale(t) ==
  /\ pc[t] = "cas"
  /\ facets # prev[t]
  /\ UNCHANGED vars

CasFails(t) ==
  /\ pc[t] = "cas"
  /\ facets # prev[t]
  /\ Look(t)

\* The caller has its directory.
Return(t) ==
  /\ pc[t] = "done"
  /\ pc'   = [pc EXCEPT ![t] = "idle"]
  /\ want' = [want EXCEPT ![t] = None]
  /\ prev' = [prev EXCEPT ![t] = {}]
  /\ mine' = [mine EXCEPT ![t] = None]
  /\ res'  = [res EXCEPT ![t] = None]
  /\ UNCHANGED <<facets, label>>

Step(t) == Get(t) \/ SetNewId(t) \/ CasSucceeds(t) \/ CasFails(t) \/ Return(t)

Next == \E t \in Thread : Step(t) \/ \E f \in Facet : Open(t, f)

\* Threads run; they need not call open again.
Fairness == \A t \in Thread : WF_vars(Step(t))

Spec == Init /\ [][Next]_vars /\ Fairness

-----------------------------------------------------------------------------
(* Properties. *)

\* Types of the shared list, the labels of the directories and the threads' locals.
TypeOK ==
  /\ facets \subseteq Facet \X Uid
  /\ label \in [Uid -> Facet \cup {None}]
  /\ pc \in [Thread -> {"idle", "get", "new", "cas", "done"}]
  /\ want \in [Thread -> Facet \cup {None}]
  /\ prev \in [Thread -> SUBSET (Facet \X Uid)]
  /\ mine \in [Thread -> Uid \cup {None}]
  /\ res \in [Thread -> Uid \cup {None}]

\* Threads that open the same facet at the same time end up in one directory: a
\* facet is listed once.
OneDirectoryPerFacet == \A x, y \in facets : x[1] = y[1] => x = y

\* Nobody is handed a directory that lost the race: what open returns is in the
\* list, under the facet asked for, and labeled with it.
ReturnsListed ==
  \A t \in Thread : pc[t] = "done" => /\ <<want[t], res[t]>> \in facets
                                      /\ label[res[t]] = want[t]

\* Facets are never lost or redirected by a concurrent open.
FacetsKept == [][facets \subseteq facets']_facets

=============================================================================
