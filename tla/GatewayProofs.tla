---------------------------- MODULE GatewayProofs ----------------------------
(***************************************************************************)
(* Proofs about faceted directories and about the gateway that keeps its   *)
(* homes in one.                                                           *)
(*                                                                         *)
(* First, that concurrent opens of a faceted directory agree: one directory*)
(* per facet, and nobody is handed one that lost the race, for any number  *)
(* of threads, facets and uids.  The invariant says what a thread knows in *)
(* the loop: the list it compares with does not have its facet, and the    *)
(* directory it made is labeled with the facet.                            *)
(*                                                                         *)
(* Then the gateway as an authority, for any threads, users, principals,   *)
(* requests and number of them: no token and no gate is worth more than a  *)
(* user who logged in, a request acts as its caller and as nobody before   *)
(* it, and a registration that could succeed has.  What is proved of open  *)
(* is used there step by step: each step of the gateway is one of open or  *)
(* leaves the directories alone.                                           *)
(***************************************************************************)
EXTENDS Gateway, TLAPS

-----------------------------------------------------------------------------
(* Opening a faceted directory. *)


\* What a thread that is inside open knows.
Knows(t) ==
  /\ pc[t] # "idle" => want[t] \in Facet
  /\ pc[t] \in {"new", "cas"} => \A x \in prev[t] : x[1] # want[t]
  /\ pc[t] = "cas" => mine[t] \in Uid /\ label[mine[t]] = want[t]

\* A listed directory is labeled with its facet.
ListedLabels == \A x \in facets : label[x[2]] = x[1]

Inv ==
  /\ TypeOK
  /\ OneDirectoryPerFacet
  /\ ReturnsListed
  /\ ListedLabels
  /\ \A t \in Thread : Knows(t)

\* Nothing is found exactly when no pair has the facet.
LEMMA FoundNothing ==
  ASSUME NEW s, NEW f
  PROVE  Found(s, f) = {} <=> \A x \in s : x[1] # f
BY DEF Found

\* Looking the facet up, at the head of the loop, keeps the invariant.
LEMMA LookPreserves ==
  ASSUME Inv, NEW t \in Thread, pc[t] \in {"get", "cas"}, Look(t)
  PROVE  Inv'
<1>1. want[t] \in Facet
  BY DEF Inv, Knows
<1>2. CASE Found(facets, want[t]) = {}
  <2>1. /\ pc' = [pc EXCEPT ![t] = "new"]
        /\ prev' = [prev EXCEPT ![t] = facets]
        /\ UNCHANGED <<facets, label, want, mine, res>>
    BY <1>2 DEF Look
  <2>2. \A x \in facets : x[1] # want[t]
    BY <1>2, FoundNothing
  <2>3. TypeOK'
    BY <2>1 DEF Inv, TypeOK
  <2>4. OneDirectoryPerFacet' /\ ListedLabels'
    BY <2>1 DEF Inv, OneDirectoryPerFacet, ListedLabels
  <2>5. ReturnsListed'
    BY <2>1 DEF Inv, TypeOK, ReturnsListed
  <2>6. \A u \in Thread : Knows(u)'
    BY <1>1, <2>1, <2>2 DEF Inv, TypeOK, Knows
  <2> QED BY <2>3, <2>4, <2>5, <2>6 DEF Inv
<1>3. ASSUME NEW u \in Found(facets, want[t]),
             pc' = [pc EXCEPT ![t] = "done"], res' = [res EXCEPT ![t] = u]
      PROVE  Inv'
  <2>1. prev' = [prev EXCEPT ![t] = facets] /\ UNCHANGED <<facets, label, want, mine>>
    BY DEF Look
  <2>2. PICK x \in facets : x[1] = want[t] /\ u = x[2]
    BY <1>3 DEF Found
  <2>3. u \in Uid /\ x = <<want[t], u>>
    BY <2>2 DEF Inv, TypeOK
  <2>4. TypeOK'
    BY <1>3, <2>1, <2>3 DEF Inv, TypeOK
  <2>5. OneDirectoryPerFacet' /\ ListedLabels'
    BY <2>1 DEF Inv, OneDirectoryPerFacet, ListedLabels
  <2>6. label[u] = want[t]
    BY <2>2 DEF Inv, ListedLabels
  <2>7. ReturnsListed'
    BY <1>3, <2>1, <2>2, <2>3, <2>6 DEF Inv, TypeOK, ReturnsListed
  <2>8. \A v \in Thread : Knows(v)'
    BY <1>1, <1>3, <2>1 DEF Inv, TypeOK, Knows
  <2> QED BY <2>4, <2>5, <2>7, <2>8 DEF Inv
<1> QED BY <1>2, <1>3 DEF Look

\* Each step of a thread preserves the invariant.
LEMMA InvStep ==
  ASSUME Inv, NEW t \in Thread, Step(t) \/ \E f \in Facet : Open(t, f)
  PROVE  Inv'
<1>1. ASSUME NEW f \in Facet, Open(t, f)
      PROVE  Inv'
  <2>1. TypeOK'
    BY <1>1 DEF Inv, TypeOK, Open
  <2>2. OneDirectoryPerFacet' /\ ListedLabels'
    BY <1>1 DEF Inv, OneDirectoryPerFacet, ListedLabels, Open
  <2>3. ReturnsListed'
    BY <1>1 DEF Inv, TypeOK, ReturnsListed, Open
  <2>4. \A u \in Thread : Knows(u)'
    BY <1>1 DEF Inv, TypeOK, Knows, Open
  <2> QED BY <2>1, <2>2, <2>3, <2>4 DEF Inv
<1>2. CASE Get(t)
  BY <1>2, LookPreserves DEF Get
<1>3. CASE CasFails(t)
  BY <1>3, LookPreserves DEF CasFails
<1>4. CASE SetNewId(t)
  <2>1. PICK u \in Uid : /\ label[u] = None
                         /\ label' = [label EXCEPT ![u] = want[t]]
                         /\ mine' = [mine EXCEPT ![t] = u]
    <3> DEFINE unused == {v \in Uid : label[v] = None}
    <3>1. unused \in SUBSET Uid /\ \A u \in unused : u \in Uid /\ label[u] = None
      OBVIOUS
    <3>2. Draw(unused) \subseteq unused
      BY <3>1, DrawAssumption
    <3>3. PICK u \in Draw(unused) : /\ label' = [label EXCEPT ![u] = want[t]]
                                    /\ mine' = [mine EXCEPT ![t] = u]
      BY <1>4 DEF SetNewId
    <3> QED BY <3>1, <3>2, <3>3
  <2>2. want[t] \in Facet
    BY <1>4 DEF Inv, Knows, SetNewId
  <2>3. \A v \in Uid : label[v] \in Facet => label'[v] = label[v]
    BY <2>1, NoneAssumption DEF Inv, TypeOK
  <2>4. TypeOK'
    BY <1>4, <2>1, <2>2 DEF Inv, TypeOK, SetNewId
  <2>5. OneDirectoryPerFacet'
    BY <1>4 DEF Inv, OneDirectoryPerFacet, SetNewId
  <2>6. ListedLabels'
    <3> SUFFICES ASSUME NEW x \in facets PROVE label'[x[2]] = x[1]
      BY <1>4 DEF ListedLabels, SetNewId
    <3>1. x[1] \in Facet /\ x[2] \in Uid /\ label[x[2]] = x[1]
      BY DEF Inv, TypeOK, ListedLabels
    <3> QED BY <2>3, <3>1
  <2>7. ReturnsListed'
    <3> SUFFICES ASSUME NEW v \in Thread, pc'[v] = "done"
                 PROVE  <<want'[v], res'[v]>> \in facets' /\ label'[res'[v]] = want'[v]
      BY DEF ReturnsListed
    <3>1. pc[v] = "done" /\ want'[v] = want[v] /\ res'[v] = res[v] /\ facets' = facets
      BY <1>4 DEF Inv, TypeOK, SetNewId
    <3>2. <<want[v], res[v]>> \in facets /\ label[res[v]] = want[v]
      BY <3>1 DEF Inv, ReturnsListed
    <3>3. want[v] \in Facet /\ res[v] \in Uid
      BY <3>2 DEF Inv, TypeOK
    <3> QED BY <2>3, <3>1, <3>2, <3>3
  <2>8. ASSUME NEW v \in Thread PROVE Knows(v)'
    <3>1. CASE v = t
      BY <1>4, <2>1, <2>2, <3>1 DEF Inv, TypeOK, Knows, SetNewId
    <3>2. CASE v # t
      <4>1. pc'[v] = pc[v] /\ want'[v] = want[v] /\ prev'[v] = prev[v] /\ mine'[v] = mine[v]
        BY <1>4, <2>1, <3>2 DEF Inv, TypeOK, SetNewId
      <4>2. pc[v] = "cas" => label'[mine[v]] = want[v]
        BY <2>3 DEF Inv, Knows
      <4> QED BY <4>1, <4>2 DEF Inv, Knows
    <3> QED BY <3>1, <3>2
  <2> QED BY <2>4, <2>5, <2>6, <2>7, <2>8 DEF Inv
<1>5. CASE CasSucceeds(t)
  <2>1. /\ want[t] \in Facet /\ mine[t] \in Uid /\ label[mine[t]] = want[t]
        /\ \A x \in facets : x[1] # want[t]
    BY <1>5 DEF Inv, Knows, CasSucceeds
  <2>2. TypeOK'
    BY <1>5, <2>1 DEF Inv, TypeOK, CasSucceeds
  <2>3. OneDirectoryPerFacet'
    BY <1>5, <2>1 DEF Inv, OneDirectoryPerFacet, CasSucceeds
  <2>4. ListedLabels'
    BY <1>5, <2>1 DEF Inv, ListedLabels, CasSucceeds
  <2>5. ReturnsListed'
    BY <1>5, <2>1 DEF Inv, TypeOK, ReturnsListed, CasSucceeds
  <2>6. \A u \in Thread : Knows(u)'
    BY <1>5 DEF Inv, TypeOK, Knows, CasSucceeds
  <2> QED BY <2>2, <2>3, <2>4, <2>5, <2>6 DEF Inv
<1>6. CASE Return(t)
  <2>1. TypeOK'
    BY <1>6 DEF Inv, TypeOK, Return
  <2>2. OneDirectoryPerFacet' /\ ListedLabels'
    BY <1>6 DEF Inv, OneDirectoryPerFacet, ListedLabels, Return
  <2>3. ReturnsListed'
    BY <1>6 DEF Inv, TypeOK, ReturnsListed, Return
  <2>4. \A u \in Thread : Knows(u)'
    BY <1>6 DEF Inv, TypeOK, Knows, Return
  <2> QED BY <2>1, <2>2, <2>3, <2>4 DEF Inv
<1> QED BY <1>1, <1>2, <1>3, <1>4, <1>5, <1>6 DEF Step

LEMMA InvStutter == Inv /\ UNCHANGED vars => Inv'
BY DEF Inv, TypeOK, OneDirectoryPerFacet, ReturnsListed, ListedLabels, Knows, vars, locals

\* The invariant holds in every reachable state.
THEOREM InvHolds == Spec => []Inv
<1>1. Init => Inv
  BY DEF Init, Inv, TypeOK, OneDirectoryPerFacet, ReturnsListed, ListedLabels, Knows
<1>2. Inv /\ [Next]_vars => Inv'
  BY InvStep, InvStutter DEF Next
<1> QED BY <1>1, <1>2, PTL DEF Spec

\* The list, the labels and the locals of open keep their types.
THEOREM TypeOKHolds == Spec => []TypeOK
<1>1. Inv => TypeOK
  BY DEF Inv
<1> QED BY <1>1, InvHolds, PTL

\* Opens of one facet that race end up in one directory.
THEOREM OneDirectoryPerFacetHolds == Spec => []OneDirectoryPerFacet
<1>1. Inv => OneDirectoryPerFacet
  BY DEF Inv
<1> QED BY <1>1, InvHolds, PTL

\* open never returns a directory that lost the race.
THEOREM ReturnsListedHolds == Spec => []ReturnsListed
<1>1. Inv => ReturnsListed
  BY DEF Inv
<1> QED BY <1>1, InvHolds, PTL

\* A listed facet stays listed, with the same directory.
THEOREM FacetsKeptHolds == Spec => FacetsKept
<1>1. [Next]_vars => [facets \subseteq facets']_facets
  <2> SUFFICES ASSUME [Next]_vars PROVE facets \subseteq facets'
    OBVIOUS
  <2>1. CASE UNCHANGED vars
    BY <2>1 DEF vars
  <2>2. ASSUME NEW t \in Thread, Step(t) \/ \E f \in Facet : Open(t, f)
        PROVE  facets \subseteq facets'
    BY <2>2 DEF Step, Open, Get, SetNewId, CasSucceeds, CasFails, Look, Return
  <2> QED BY <2>1, <2>2 DEF Next
<1> QED BY <1>1, PTL DEF Spec, FacetsKept

-----------------------------------------------------------------------------
(* The gateway. *)


\* The gate in a home is its owner's, and somebody stands behind it.
HomesOwned ==
  \A u \in Uid : homes[u] # None => /\ label[u] = Ufacet(homes[u].privilege)
                                    /\ Backed(homes[u].privilege)

\* A request that will be answered with a token.
Registers(t) == gw[t].at \in {"register", "reply"} \/ (gw[t].at = "open" /\ gw[t].job = "register")

\* The home of p has its gate.
HasGate(p) == \E u \in Found(facets, Ufacet(p)) : homes[u] # None

\* What holds of the request that thread t serves.
Serving(t) ==
  /\ gw[t].at \in {"register", "open", "wait"} => priv[t] = gw[t].user
  /\ gw[t].at = "register" => gw[t].job = "register"
  /\ gw[t].at = "open" => want[t] = Ufacet(gw[t].user)
  /\ gw[t].at = "open" /\ gw[t].job = "invoke" => cur[t] = Lub(Public, gw[t].asked)
  /\ gw[t].at = "wait" =>
       /\ gw[t].gate = gw[t].user
       /\ cur[t] = Lub(Lub(Lub(Public, gw[t].asked), Ufacet(gw[t].user)), FSUTIL_POLICY)
  /\ Registers(t) => Backed(gw[t].user)
  /\ Registers(t) /\ gw[t].at # "reply" /\ gw[t].clean => cur[t] = Public
  /\ gw[t].at = "reply" /\ gw[t].clean => HasGate(gw[t].user)

GwInv ==
  /\ Inv
  /\ GwTypeOK
  /\ TokensBacked
  /\ HomesOwned
  /\ \A t \in Thread : Serving(t)

-----------------------------------------------------------------------------
(* Labels. *)

\* Conjunction and disjunction of formulas are formulas.
LEMMA ComponentsClosed ==
  ASSUME NEW c \in Component, NEW d \in Component
  PROVE  And(c, d) \in Component /\ Or(c, d) \in Component
BY DEF Component, And, Or

\* The formula that everybody satisfies is one.
LEMMA DcTrueComponent == DcTrue \in Component
BY DEF Component, DcTrue

\* A principal alone is a formula.
LEMMA OnlyComponent ==
  ASSUME NEW p
  PROVE  Only(p) \in Component
BY DEF Component, Only

\* The join of two labels is a label.
LEMMA LabelsClosed ==
  ASSUME NEW l \in Label, NEW m \in Label
  PROVE  Lub(l, m) \in Label
BY ComponentsClosed DEF Label, Lub, Labeled

\* The public label is one.
LEMMA PublicLabel == Public \in Label
BY DcTrueComponent DEF Public, Labeled, Label

\* The facet of a principal is a label, and `home` can have it.
LEMMA UfacetLabel ==
  ASSUME NEW p \in Component
  PROVE  Ufacet(p) \in Label /\ Ufacet(p) \in Facet
BY GatewayAssumption DEF Ufacet, Labeled, Label

\* Two principals do not share a facet.
LEMMA UfacetInjective ==
  ASSUME NEW p, NEW q, Ufacet(p) = Ufacet(q)
  PROVE  p = q
BY DEF Ufacet, Labeled

\* Reading faasten's own home leaves a public label public.
LEMMA FsutilPolicy ==
  FSUTIL_POLICY \in Label /\ Lub(Public, FSUTIL_POLICY) = Public
<1>1. FaastenPriv \in Component /\ FaastenPriv \subseteq World
  BY GatewayAssumption DEF Component
<1>2. FSUTIL_POLICY \in Label
  BY <1>1, DcTrueComponent DEF FSUTIL_POLICY, Labeled, Label
<1>3. And(World, World) = World /\ Or(World, FaastenPriv) = World
  BY <1>1 DEF And, Or
<1>4. Lub(Public, FSUTIL_POLICY) = Public
  BY <1>3 DEF Lub, Public, FSUTIL_POLICY, Labeled, DcTrue
<1> QED BY <1>2, <1>4

\* A principal with a public label may create a public gate and link it at home.
LEMMA MayRegister ==
  ASSUME NEW p \in Component
  PROVE  /\ CanFlowToWithPrivilege(Public, Public, p)
         /\ CanFlowToWithPrivilege(Lub(Public, Ufacet(p)), Ufacet(p), p)
<1>1. p \subseteq World
  BY DEF Component
<1>2. CanFlowToWithPrivilege(Public, Public, p)
  BY <1>1 DEF CanFlowToWithPrivilege, Public, Labeled, Implies, And, DcTrue
<1>3. CanFlowToWithPrivilege(Lub(Public, Ufacet(p)), Ufacet(p), p)
  BY <1>1 DEF CanFlowToWithPrivilege, Lub, Public, Ufacet, Labeled, Implies, And, Or, DcTrue
<1> QED BY <1>2, <1>3

\* Who stands behind a privilege stands behind what it implies.
LEMMA BackedWeaker ==
  ASSUME NEW p, NEW q, Backed(p), Implies(p, q)
  PROVE  Backed(q)
BY DEF Backed, Implies

-----------------------------------------------------------------------------
(* What every step keeps. *)

\* Facets stay listed, directories keep their labels.
Kept ==
  /\ facets \subseteq facets'
  /\ \A u \in Uid : label[u] # None => label'[u] = label[u]

\* A step of open by t keeps what is listed, and the facets others want.
LEMMA OpenKeeps ==
  ASSUME Inv, NEW t \in Thread, Step(t) \/ \E f \in Facet : Open(t, f)
  PROVE  Inv' /\ Kept /\ \A v \in Thread \ {t} : want'[v] = want[v]
<1>1. Inv'
  BY InvStep
<1>2. Kept
  <2>1. CASE SetNewId(t)
    <3> DEFINE unused == {v \in Uid : label[v] = None}
    <3>1. unused \in SUBSET Uid /\ \A u \in unused : label[u] = None
      OBVIOUS
    <3>2. Draw(unused) \subseteq unused
      BY <3>1, DrawAssumption
    <3>3. PICK u \in Draw(unused) : label' = [label EXCEPT ![u] = want[t]]
      BY <2>1 DEF SetNewId
    <3> QED BY <2>1, <3>1, <3>2, <3>3 DEF Kept, SetNewId, Inv, TypeOK
  <2>2. CASE ~SetNewId(t)
    BY <2>2 DEF Kept, Step, Open, Get, CasSucceeds, CasFails, Look, Return
  <2> QED BY <2>1, <2>2
<1>3. \A v \in Thread \ {t} : want'[v] = want[v]
  BY DEF Inv, TypeOK, Step, Open, Get, SetNewId, CasSucceeds, CasFails, Look, Return
<1> QED BY <1>1, <1>2, <1>3

\* So does a step that is none of open's.
LEMMA Unopened ==
  ASSUME Inv, UNCHANGED vars
  PROVE  Inv' /\ Kept /\ UNCHANGED want
BY InvStutter DEF Kept, vars, locals

\* Users stay logged in and gates stay in their homes.
Grows ==
  /\ Kept
  /\ logged \subseteq logged'
  /\ \A u \in Uid : homes[u] # None => homes'[u] = homes[u]

\* Backed and HasGate in the next state, of a principal of this one.
BackedNext(p)  == \E u \in logged' : Implies(Only(u), p)
HasGateNext(p) == \E u \in Found(facets', Ufacet(p)) : homes'[u] # None

\* Nobody who stood behind a privilege goes away.
LEMMA BackedGrows ==
  ASSUME Grows, NEW p, Backed(p)
  PROVE  BackedNext(p)
BY DEF Grows, Backed, BackedNext

\* A home that has its gate keeps it.
LEMMA HasGateGrows ==
  ASSUME Grows, Inv, NEW p, HasGate(p)
  PROVE  HasGateNext(p)
<1>1. PICK u \in Found(facets, Ufacet(p)) : homes[u] # None
  BY DEF HasGate
<1>2. PICK x \in facets : x[1] = Ufacet(p) /\ u = x[2]
  BY <1>1 DEF Found
<1>3. u \in Uid
  BY <1>2 DEF Inv, TypeOK
<1>4. u \in Found(facets', Ufacet(p))
  BY <1>2 DEF Grows, Kept, Found
<1>5. homes'[u] # None
  BY <1>1, <1>3 DEF Grows
<1> QED BY <1>4, <1>5 DEF HasGateNext

\* What a step does not touch of a thread's request stays true of it.
LEMMA OthersServed ==
  ASSUME Inv, Grows, NEW v \in Thread, Serving(v),
         gw'[v] = gw[v], cur'[v] = cur[v], priv'[v] = priv[v], want'[v] = want[v]
  PROVE  Serving(v)'
<1>1. Registers(v)' <=> Registers(v)
  BY DEF Registers
<1>2. Registers(v) => BackedNext(gw'[v].user)
  BY BackedGrows DEF Serving
<1>3. gw[v].at = "reply" /\ gw[v].clean => HasGateNext(gw'[v].user)
  BY HasGateGrows DEF Serving
<1> QED BY <1>1, <1>2, <1>3 DEF Serving, Backed, BackedNext, HasGate, HasGateNext

\* Homes whose gates are not touched stay their owners'.
LEMMA HomesStay ==
  ASSUME HomesOwned, Inv, Grows, UNCHANGED homes, GwTypeOK
  PROVE  HomesOwned'
<1> SUFFICES ASSUME NEW u \in Uid, homes[u] # None
             PROVE  label'[u] = Ufacet(homes[u].privilege) /\ BackedNext(homes[u].privilege)
  BY DEF HomesOwned, Backed, BackedNext
<1>1. label[u] = Ufacet(homes[u].privilege) /\ Backed(homes[u].privilege)
  BY DEF HomesOwned
<1>2. homes[u].privilege \in Component
  BY DEF GwTypeOK
<1>3. label[u] # None
  BY <1>1, <1>2, UfacetLabel, NoneAssumption
<1>4. label'[u] = label[u]
  BY <1>3 DEF Grows, Kept
<1>5. BackedNext(homes[u].privilege)
  BY <1>1, BackedGrows
<1> QED BY <1>1, <1>4, <1>5


-----------------------------------------------------------------------------
(* The steps. *)

\* The locals of the other threads stay.
OnlyThread(t) ==
  \A v \in Thread \ {t} : /\ gw'[v] = gw[v] /\ cur'[v] = cur[v]
                          /\ priv'[v] = priv[v] /\ want'[v] = want[v]

\* A step of t is good when it is for t, if it leaves tokens and homes alone.
LEMMA StepOfThread ==
  ASSUME GwInv, NEW t \in Thread, Inv', GwTypeOK', Grows, OnlyThread(t),
         UNCHANGED <<tokens, homes>>, Serving(t)'
  PROVE  GwInv'
<1>1. TokensBacked'
  BY BackedGrows DEF GwInv, TokensBacked, Backed, BackedNext
<1>2. HomesOwned'
  BY HomesStay DEF GwInv
<1>3. \A v \in Thread : Serving(v)'
  BY OthersServed DEF GwInv, OnlyThread
<1> QED BY <1>1, <1>2, <1>3 DEF GwInv

\* A new thread has no request.
LEMMA RespawnKeeps ==
  ASSUME GwInv, NEW t \in Thread, Respawn(t)
  PROVE  GwInv'
<1> USE DEF Respawn, SetLabel, SetPriv, authority
<1>1. Inv' /\ Kept /\ UNCHANGED want
  BY Unopened DEF GwInv
<1>2. Grows /\ OnlyThread(t)
  BY <1>1 DEF Grows, OnlyThread, GwInv, GwTypeOK
<1>3. GwTypeOK'
  BY <1>1, PublicLabel, DcTrueComponent DEF GwInv, GwTypeOK, Inv
<1>4. Serving(t)'
  BY DEF GwInv, GwTypeOK, Serving, Registers
<1> QED BY <1>1, <1>2, <1>3, <1>4, StepOfThread

\* A registration begins for a principal that is backed.
LEMMA RegisterKeeps ==
  ASSUME GwInv, NEW t \in Thread, NEW p \in Component, NEW clearance \in Component,
         Register(t, p, clearance), logged \subseteq logged', logged' \subseteq User,
         BackedNext(p)
  PROVE  GwInv'
<1> USE DEF Register, SetPriv, Serve
<1>1. Inv' /\ Kept /\ UNCHANGED want
  BY Unopened DEF GwInv
<1>2. Grows /\ OnlyThread(t)
  BY <1>1 DEF Grows, OnlyThread, GwInv, GwTypeOK
<1>3. GwTypeOK'
  BY <1>1, PublicLabel, DcTrueComponent DEF GwInv, GwTypeOK, Inv, Idle
<1>4. /\ gw'[t].at = "register" /\ gw'[t].job = "register" /\ gw'[t].user = p
      /\ priv'[t] = p /\ cur'[t] = cur[t]
      /\ gw'[t].clean => cur[t] = Public
  BY DEF GwInv, GwTypeOK, Idle
<1>5. Serving(t)'
  BY <1>4 DEF Serving, Registers, Backed, BackedNext
<1> QED BY <1>1, <1>2, <1>3, <1>5, StepOfThread

\* A login: the user has just been vouched for.
LEMMA AuthenticateCasKeeps ==
  ASSUME GwInv, NEW t \in Thread, NEW u \in User, AuthenticateCas(t, u)
  PROVE  GwInv'
<1>1. Only(u) \in Component
  BY OnlyComponent
<1>2. logged' = logged \cup {u} /\ Register(t, Only(u), Only(u))
  BY DEF AuthenticateCas
<1>3. BackedNext(Only(u))
  BY <1>2 DEF BackedNext, Implies
<1>4. logged \subseteq logged' /\ logged' \subseteq User
  BY <1>2 DEF GwInv, GwTypeOK
<1> QED BY <1>1, <1>2, <1>3, <1>4, RegisterKeeps

\* A delegation: the holder of the token is backed, so is what it implies.
LEMMA DelegateKeeps ==
  ASSUME GwInv, NEW t \in Thread, NEW login \in tokens, NEW p \in Delegated,
         NEW clearance \in Clearances \cup {p}, Delegate(t, login, p, clearance)
  PROVE  GwInv'
<1>1. p \in Component /\ clearance \in Component
  BY GatewayAssumption
<1>2. Backed(p) /\ UNCHANGED logged
  BY BackedWeaker DEF Delegate, GwInv, TokensBacked
<1>3. BackedNext(p)
  BY <1>2 DEF Backed, BackedNext
<1>4. CASE Register(t, p, clearance)
  BY <1>1, <1>2, <1>3, <1>4, RegisterKeeps DEF GwInv, GwTypeOK
<1>5. CASE tokens' = tokens \cup {p} /\ UNCHANGED <<vars, installed, homes, cur, priv, gw>>
  <2>1. Inv' /\ Kept /\ UNCHANGED want
    BY <1>5, Unopened DEF GwInv
  <2>2. Grows
    BY <1>2, <1>5, <2>1 DEF Grows
  <2>3. GwTypeOK'
    BY <1>1, <1>2, <1>5, <2>1 DEF GwInv, GwTypeOK, Inv
  <2>4. TokensBacked'
    BY <1>2, <1>5 DEF GwInv, TokensBacked, Backed
  <2>5. HomesOwned'
    BY <1>5, <2>2, HomesStay DEF GwInv
  <2>6. \A v \in Thread : Serving(v)'
    BY <1>5, <2>1, <2>2, OthersServed DEF GwInv
  <2> QED BY <2>1, <2>3, <2>4, <2>5, <2>6 DEF GwInv
<1> QED BY <1>4, <1>5 DEF Delegate

\* The home that is opened is that of the principal that registers.
LEMMA DupFsutilKeeps ==
  ASSUME GwInv, NEW t \in Thread, DupFsutil(t)
  PROVE  GwInv'
<1> USE DEF DupFsutil, SetLabel, Serve, authority
<1>1. priv[t] \in Component /\ gw[t].user = priv[t] /\ gw[t].job = "register"
  BY DEF GwInv, GwTypeOK, Serving
<1>2. Ufacet(priv[t]) \in Facet
  BY <1>1, UfacetLabel
<1>3. Inv' /\ Kept /\ \A v \in Thread \ {t} : want'[v] = want[v]
  BY <1>2, OpenKeeps DEF GwInv
<1>4. Grows /\ OnlyThread(t)
  BY <1>3 DEF Grows, OnlyThread, GwInv, GwTypeOK
<1>5. Lub(cur[t], FSUTIL_POLICY) \in Label
  BY LabelsClosed, FsutilPolicy DEF GwInv, GwTypeOK
<1>6. GwTypeOK'
  BY <1>3, <1>5 DEF GwInv, GwTypeOK, Inv
<1>7. /\ gw'[t] = [gw[t] EXCEPT !.at = "open"] /\ priv'[t] = priv[t]
      /\ cur'[t] = Lub(cur[t], FSUTIL_POLICY) /\ want'[t] = Ufacet(priv[t])
  BY DEF GwInv, GwTypeOK, Inv, TypeOK, Open
<1>8. gw'[t].at = "open" /\ gw'[t].job = "register" /\ gw'[t].user = gw[t].user
      /\ gw'[t].clean = gw[t].clean
  BY <1>1, <1>7 DEF GwInv, GwTypeOK
<1>9. gw[t].clean => cur'[t] = Public
  BY <1>7, FsutilPolicy DEF GwInv, Serving, Registers
<1>10. Backed(gw[t].user) /\ UNCHANGED logged
  BY DEF GwInv, Serving, Registers
<1>11. Serving(t)'
  BY <1>1, <1>7, <1>8, <1>9, <1>10 DEF Serving, Registers, Backed
<1> QED BY <1>3, <1>4, <1>6, <1>11, StepOfThread

\* A clean registration does not fail once faasten's fsutil is there.
LEMMA DupFsutilFailsKeeps ==
  ASSUME GwInv, NEW t \in Thread, DupFsutilFails(t)
  PROVE  GwInv'
<1> USE DEF DupFsutilFails, Serve, authority
<1>1. Inv' /\ Kept /\ UNCHANGED want
  BY Unopened DEF GwInv
<1>2. Lub(cur[t], FSUTIL_POLICY) \in Label
  BY LabelsClosed, FsutilPolicy DEF GwInv, GwTypeOK
<1>3. cur' = [cur EXCEPT ![t] = Lub(cur[t], FSUTIL_POLICY)] \/ UNCHANGED cur
  BY DEF SetLabel
<1>4. Grows /\ OnlyThread(t)
  BY <1>1, <1>3 DEF Grows, OnlyThread, GwInv, GwTypeOK
<1>5. GwTypeOK'
  <2>1. (gw[t].clean /\ installed) \in BOOLEAN
    BY DEF GwInv, GwTypeOK
  <2>2. PICK c \in BOOLEAN :
          gw' = [gw EXCEPT ![t] = [gw[t] EXCEPT !.at = "reply", !.clean = c]]
    BY <2>1, Zenon
  <2>3. /\ UNCHANGED <<tokens, logged, installed, homes, priv>>
        /\ cur' \in [Thread -> Label]
    BY <1>2, <1>3 DEF GwInv, GwTypeOK
  <2> HIDE DEF DupFsutilFails
  <2> QED BY <1>1, <2>1, <2>2, <2>3 DEF GwInv, GwTypeOK, Inv
<1>6. ~(gw[t].clean /\ installed)
  <2> SUFFICES ASSUME gw[t].clean, installed PROVE FALSE
    OBVIOUS
  <2>1. cur[t] = Public /\ priv[t] \in Component
    BY DEF GwInv, GwTypeOK, Serving, Registers
  <2>2. CanFlowToWithPrivilege(Lub(cur[t], FSUTIL_POLICY), Public, priv[t])
    BY <2>1, FsutilPolicy, MayRegister
  <2> QED BY <2>2
<1>7. gw'[t].at = "reply" /\ gw'[t].user = gw[t].user /\ ~gw'[t].clean
  BY <1>6 DEF GwInv, GwTypeOK
<1>8. Backed(gw[t].user) /\ UNCHANGED logged
  BY DEF GwInv, Serving, Registers
<1>9. Serving(t)'
  BY <1>7, <1>8 DEF Serving, Registers, Backed
<1> QED BY <1>1, <1>4, <1>5, <1>9, StepOfThread

\* What open has returned to t: the listed directory of its home.
LEMMA HomeOpened ==
  ASSUME GwInv, NEW t \in Thread, gw[t].at = "open", pc[t] = "done"
  PROVE  /\ res[t] \in Uid
         /\ label[res[t]] = Ufacet(gw[t].user)
         /\ res[t] \in Found(facets, Ufacet(gw[t].user))
         /\ gw[t].user \in Component /\ priv[t] = gw[t].user
         /\ label[res[t]] \in Label
<1>1. want[t] = Ufacet(gw[t].user) /\ priv[t] = gw[t].user
  BY DEF GwInv, Serving
<1>2. <<want[t], res[t]>> \in facets /\ label[res[t]] = want[t]
  BY DEF GwInv, Inv, ReturnsListed
<1>3. res[t] \in Uid
  BY <1>2 DEF GwInv, Inv, TypeOK
<1>4. gw[t].user \in Component
  BY DEF GwInv, GwTypeOK
<1>5. res[t] \in Found(facets, want[t])
  BY <1>2 DEF Found
<1> QED BY <1>1, <1>2, <1>3, <1>4, <1>5, UfacetLabel

\* The gate of the caller is put in the caller's home, or one was there.
LEMMA LinkFsutilKeeps ==
  ASSUME GwInv, NEW t \in Thread, LinkFsutil(t)
  PROVE  GwInv'
<1> DEFINE home == res[t]
           l    == Lub(cur[t], label[home])
           gate == [privilege |-> priv[t], clearance |-> gw[t].clearance]
           may  == CanFlowToWithPrivilege(l, label[home], priv[t]) /\ homes[home] = None
<1>1. /\ gw[t].at = "open" /\ gw[t].job = "register" /\ Return(t)
      /\ cur' = [cur EXCEPT ![t] = l]
      /\ homes' = IF may THEN [homes EXCEPT ![home] = gate] ELSE homes
      /\ gw' = [gw EXCEPT ![t] = [gw[t] EXCEPT !.at = "reply"]]
      /\ UNCHANGED <<tokens, logged, installed, priv, made>>
  BY DEF LinkFsutil, SetLabel, Serve
<1>2. pc[t] = "done"
  BY <1>1 DEF Return
<1>3. /\ home \in Uid /\ label[home] = Ufacet(gw[t].user)
      /\ home \in Found(facets, Ufacet(gw[t].user))
      /\ gw[t].user \in Component /\ priv[t] = gw[t].user /\ label[home] \in Label
  BY <1>1, <1>2, HomeOpened
<1>4. Inv' /\ Kept /\ \A v \in Thread \ {t} : want'[v] = want[v]
  BY <1>1, OpenKeeps DEF GwInv, Step
<1>5. facets' = facets /\ label' = label
  BY <1>1 DEF Return
<1>6. gate \in [privilege : Component, clearance : Component] /\ gate # None
  BY <1>3, GatewayAssumption DEF GwInv, GwTypeOK
<1>7. homes' \in [Uid -> [privilege : Component, clearance : Component] \cup {None}]
  BY <1>1, <1>3, <1>6 DEF GwInv, GwTypeOK
<1>8. \A u \in Uid : homes[u] # None => homes'[u] = homes[u]
  BY <1>1, <1>3 DEF GwInv, GwTypeOK
<1>9. Grows /\ OnlyThread(t)
  BY <1>1, <1>4, <1>8 DEF Grows, OnlyThread, GwInv, GwTypeOK
<1>10. l \in Label
  BY <1>3, LabelsClosed DEF GwInv, GwTypeOK
<1>11. GwTypeOK'
  BY <1>1, <1>4, <1>7, <1>10 DEF GwInv, GwTypeOK, Inv
<1>12. Backed(gw[t].user)
  BY <1>1 DEF GwInv, Serving, Registers
<1>13. TokensBacked'
  BY <1>1 DEF GwInv, TokensBacked, Backed
<1>14. HomesOwned'
  <2> SUFFICES ASSUME NEW u \in Uid, homes'[u] # None
               PROVE  label[u] = Ufacet(homes'[u].privilege) /\ Backed(homes'[u].privilege)
    BY <1>1, <1>5 DEF HomesOwned, Backed
  <2>1. homes'[u] = homes[u] \/ (u = home /\ homes'[u] = gate)
    BY <1>1, <1>3 DEF GwInv, GwTypeOK
  <2>2. CASE homes'[u] = homes[u]
    BY <2>2 DEF GwInv, HomesOwned
  <2>3. CASE u = home /\ homes'[u] = gate
    BY <1>3, <1>12, <2>3
  <2> QED BY <2>1, <2>2, <2>3
<1>15. gw[t].clean => homes'[home] # None
  <2> SUFFICES ASSUME gw[t].clean PROVE homes'[home] # None
    OBVIOUS
  <2>1. cur[t] = Public
    BY <1>1 DEF GwInv, Serving, Registers
  <2>2. CanFlowToWithPrivilege(l, label[home], priv[t])
    BY <1>3, <2>1, MayRegister
  <2>3. CASE homes[home] = None
    BY <1>1, <1>3, <1>6, <2>2, <2>3 DEF GwInv, GwTypeOK
  <2>4. CASE homes[home] # None
    BY <1>3, <1>8, <2>4
  <2> QED BY <2>3, <2>4
<1>16. gw'[t].at = "reply" /\ gw'[t].user = gw[t].user /\ gw'[t].clean = gw[t].clean
  BY <1>1 DEF GwInv, GwTypeOK
<1>17. gw[t].clean => HasGateNext(gw[t].user)
  BY <1>3, <1>5, <1>15 DEF HasGateNext
<1>18. Serving(t)'
  BY <1>1, <1>12, <1>16, <1>17 DEF Serving, Registers, Backed, HasGate, HasGateNext
<1>19. \A v \in Thread : Serving(v)'
  BY <1>9, <1>18, OthersServed DEF GwInv, OnlyThread
<1> QED BY <1>4, <1>11, <1>13, <1>14, <1>19 DEF GwInv

\* The token is for the principal of the registration.
LEMMA ReplyTokenKeeps ==
  ASSUME GwInv, NEW t \in Thread, ReplyToken(t)
  PROVE  GwInv'
<1> USE DEF ReplyToken, SetPriv, Serve
<1>1. Inv' /\ Kept /\ UNCHANGED want
  BY Unopened DEF GwInv
<1>2. Grows /\ OnlyThread(t)
  BY <1>1 DEF Grows, OnlyThread, GwInv, GwTypeOK
<1>3. GwTypeOK'
  BY <1>1, PublicLabel, DcTrueComponent DEF GwInv, GwTypeOK, Inv, Idle
<1>4. Backed(gw[t].user)
  BY DEF GwInv, Serving, Registers
<1>5. TokensBacked'
  BY <1>4 DEF GwInv, TokensBacked, Backed
<1>6. HomesOwned'
  BY <1>2, HomesStay DEF GwInv
<1>7. gw'[t].at = "idle"
  BY DEF GwInv, GwTypeOK, Idle
<1>8. Serving(t)'
  BY <1>7 DEF Serving, Registers
<1>9. \A v \in Thread : Serving(v)'
  BY <1>2, <1>8, OthersServed DEF GwInv, OnlyThread
<1> QED BY <1>1, <1>3, <1>5, <1>6, <1>9 DEF GwInv

\* An invocation begins with the caller's privilege and a fresh label.
LEMMA FaastenInvokeKeeps ==
  ASSUME GwInv, NEW t \in Thread, NEW p \in tokens \cup {DcTrue},
         NEW asked \in Asked \cup {Public}, FaastenInvoke(t, p, asked)
  PROVE  GwInv'
<1> USE DEF FaastenInvoke, Began, SetPriv, SetLabel, Request, authority
<1>1. p \in Component /\ asked \in Label /\ Lub(Public, asked) \in Label
  BY DcTrueComponent, PublicLabel, LabelsClosed, GatewayAssumption DEF GwInv, GwTypeOK
<1>2. CASE UNCHANGED <<vars, gw>>
  <2>1. Inv' /\ Kept /\ UNCHANGED want
    BY <1>2, Unopened DEF GwInv
  <2>2. Grows /\ OnlyThread(t)
    BY <1>2, <2>1 DEF Grows, OnlyThread, GwInv, GwTypeOK
  <2>3. GwTypeOK'
    BY <1>1, <1>2, <2>1 DEF GwInv, GwTypeOK, Inv
  <2>4. Serving(t)'
    BY <1>2 DEF Serving, Registers
  <2> QED BY <2>1, <2>2, <2>3, <2>4, StepOfThread
<1>3. CASE /\ Open(t, Ufacet(p))
           /\ Serve(t, [Idle EXCEPT !.at = "open", !.job = "invoke", !.user = p, !.asked = asked])
  <2> USE DEF Serve
  <2>1. Ufacet(p) \in Facet
    BY <1>1, UfacetLabel
  <2>2. Inv' /\ Kept /\ \A v \in Thread \ {t} : want'[v] = want[v]
    BY <1>3, <2>1, OpenKeeps DEF GwInv
  <2>3. Grows /\ OnlyThread(t)
    BY <1>3, <2>2 DEF Grows, OnlyThread, GwInv, GwTypeOK
  <2>4. GwTypeOK'
    BY <1>1, <1>3, <2>2, DcTrueComponent DEF GwInv, GwTypeOK, Inv, Idle
  <2>5. /\ gw'[t].at = "open" /\ gw'[t].job = "invoke" /\ gw'[t].user = p
        /\ gw'[t].asked = asked /\ priv'[t] = p /\ cur'[t] = Lub(Public, asked)
        /\ want'[t] = Ufacet(p)
    BY <1>3 DEF GwInv, GwTypeOK, Inv, TypeOK, Open, Idle
  <2>6. Serving(t)'
    BY <2>5 DEF Serving, Registers
  <2> QED BY <2>2, <2>3, <2>4, <2>6, StepOfThread
<1> QED BY <1>2, <1>3

\* The gate found in the caller's home has the caller's privilege.
LEMMA SubmitKeeps ==
  ASSUME GwInv, NEW t \in Thread, Submit(t)
  PROVE  GwInv'
<1> DEFINE gate == homes[res[t]]
           l    == Lub(cur[t], label[res[t]])
<1>1. /\ gw[t].at = "open" /\ gw[t].job = "invoke" /\ Return(t)
      /\ UNCHANGED <<tokens, logged, installed, homes, priv, made>>
  BY DEF Submit, authority
<1>2. pc[t] = "done"
  BY <1>1 DEF Return
<1>3. /\ res[t] \in Uid /\ label[res[t]] = Ufacet(gw[t].user)
      /\ gw[t].user \in Component /\ priv[t] = gw[t].user /\ label[res[t]] \in Label
  BY <1>1, <1>2, HomeOpened
<1>4. Inv' /\ Kept /\ \A v \in Thread \ {t} : want'[v] = want[v]
  BY <1>1, OpenKeeps DEF GwInv, Step
<1>5. l \in Label /\ Lub(l, FSUTIL_POLICY) \in Label
  BY <1>3, LabelsClosed, FsutilPolicy DEF GwInv, GwTypeOK
<1>6. cur[t] = Lub(Public, gw[t].asked)
  BY <1>1 DEF GwInv, Serving
<1>7. ASSUME NEW m \in Label, SetLabel(t, m), Serve(t, Idle)
      PROVE  GwInv'
  <2>1. Grows /\ OnlyThread(t)
    BY <1>1, <1>4, <1>7 DEF Grows, OnlyThread, GwInv, GwTypeOK, SetLabel, Serve
  <2>2. GwTypeOK'
    BY <1>1, <1>4, <1>7, PublicLabel, DcTrueComponent
       DEF GwInv, GwTypeOK, Inv, Idle, SetLabel, Serve
  <2>3. gw'[t].at = "idle"
    BY <1>7 DEF GwInv, GwTypeOK, Idle, Serve
  <2>4. Serving(t)'
    BY <2>3 DEF Serving, Registers
  <2> QED BY <1>1, <1>4, <2>1, <2>2, <2>4, StepOfThread
<1>8. ASSUME gate # None, SetLabel(t, Lub(l, FSUTIL_POLICY)),
             Serve(t, [gw[t] EXCEPT !.at = "wait", !.gate = gate.privilege])
      PROVE  GwInv'
  <2>1. label[res[t]] = Ufacet(gate.privilege) /\ gate.privilege \in Component
    BY <1>3, <1>8 DEF GwInv, GwTypeOK, HomesOwned
  <2>2. gate.privilege = gw[t].user
    BY <1>3, <2>1, UfacetInjective
  <2>3. Grows /\ OnlyThread(t)
    BY <1>1, <1>4, <1>8 DEF Grows, OnlyThread, GwInv, GwTypeOK, SetLabel, Serve
  <2>4. GwTypeOK'
    <3>1. gw' = [gw EXCEPT ![t] = [gw[t] EXCEPT !.at = "wait", !.gate = gw[t].user]]
      BY <1>8, <2>2 DEF Serve
    <3>2. cur' \in [Thread -> Label]
      BY <1>5, <1>8 DEF GwInv, GwTypeOK, SetLabel
    <3> QED BY <1>1, <1>3, <1>4, <3>1, <3>2 DEF GwInv, GwTypeOK, Inv
  <2>5. /\ gw'[t].at = "wait" /\ gw'[t].gate = gw[t].user /\ gw'[t].user = gw[t].user
        /\ gw'[t].asked = gw[t].asked /\ cur'[t] = Lub(l, FSUTIL_POLICY)
        /\ priv'[t] = priv[t]
    BY <1>1, <1>8, <2>2 DEF GwInv, GwTypeOK, SetLabel, Serve
  <2>6. Serving(t)'
    BY <1>3, <1>6, <2>5 DEF Serving, Registers
  <2> QED BY <1>1, <1>4, <2>3, <2>4, <2>6, StepOfThread
<1> QED BY <1>5, <1>7, <1>8 DEF Submit

\* The request is over.
LEMMA AnsweredKeeps ==
  ASSUME GwInv, NEW t \in Thread, Answered(t)
  PROVE  GwInv'
<1> USE DEF Answered, Serve, authority
<1>1. Inv' /\ Kept /\ UNCHANGED want
  BY Unopened DEF GwInv
<1>2. Grows /\ OnlyThread(t)
  BY <1>1 DEF Grows, OnlyThread, GwInv, GwTypeOK
<1>3. GwTypeOK'
  BY <1>1, PublicLabel, DcTrueComponent DEF GwInv, GwTypeOK, Inv, Idle
<1>4. gw'[t].at = "idle"
  BY DEF GwInv, GwTypeOK, Idle
<1>5. Serving(t)'
  BY <1>4 DEF Serving, Registers
<1> QED BY <1>1, <1>2, <1>3, <1>5, StepOfThread

\* Inside open, nothing of the gateway's own state moves.
LEMMA InOpenKeeps ==
  ASSUME GwInv, NEW t \in Thread, InOpen(t)
  PROVE  GwInv'
<1> USE DEF InOpen, authority
<1>1. Inv' /\ Kept /\ \A v \in Thread \ {t} : want'[v] = want[v]
  BY OpenKeeps DEF GwInv, Step
<1>2. UNCHANGED want
  BY DEF Get, SetNewId, CasSucceeds, CasFails, Look
<1>3. Grows /\ OnlyThread(t)
  BY <1>1, <1>2 DEF Grows, OnlyThread
<1>4. GwTypeOK'
  BY <1>1 DEF GwInv, GwTypeOK, Inv
<1>5. Serving(t)'
  BY <1>2, <1>3, OthersServed DEF GwInv
<1> QED BY <1>1, <1>3, <1>4, <1>5, StepOfThread

-----------------------------------------------------------------------------
(* The theorems. *)

\* The invariant holds at the start.
LEMMA GwInvInit == GwInit => GwInv
<1> SUFFICES ASSUME GwInit PROVE GwInv
  OBVIOUS
<1> USE DEF GwInit
<1>1. Inv
  BY DEF Init, Inv, TypeOK, OneDirectoryPerFacet, ReturnsListed, ListedLabels, Knows
<1>2. GwTypeOK
  BY <1>1, PublicLabel, DcTrueComponent DEF GwTypeOK, Idle, Inv
<1>3. TokensBacked /\ HomesOwned
  BY DEF TokensBacked, HomesOwned
<1>4. \A t \in Thread : Serving(t)
  BY DEF Serving, Registers, Idle
<1> QED BY <1>1, <1>2, <1>3, <1>4 DEF GwInv

\* Every step preserves it.
LEMMA GwInvStep == GwInv /\ [GwNext]_gwVars => GwInv'
<1> SUFFICES ASSUME GwInv, [GwNext]_gwVars PROVE GwInv'
  OBVIOUS
<1>1. CASE UNCHANGED gwVars
  <2>1. Inv'
    BY <1>1, InvStutter DEF GwInv, gwVars
  <2> QED BY <1>1, <2>1
          DEF GwInv, GwTypeOK, Inv, TokensBacked, HomesOwned, Serving, Registers, Backed,
              HasGate, gwVars, authority, vars, locals
<1>2. ASSUME NEW t \in Thread, GwStep(t)
      PROVE  GwInv'
  BY <1>2, DupFsutilKeeps, DupFsutilFailsKeeps, InOpenKeeps, LinkFsutilKeeps,
     ReplyTokenKeeps, SubmitKeeps DEF GwStep
<1> QED BY <1>1, <1>2, RespawnKeeps, AuthenticateCasKeeps, DelegateKeeps,
        FaastenInvokeKeeps, AnsweredKeeps DEF GwNext

\* The inductive invariant of the gateway.
THEOREM GwInvHolds == GwSpec => []GwInv
BY GwInvInit, GwInvStep, PTL DEF GwSpec

\* The tokens, the homes and the locals of request threads keep their types.
THEOREM GwTypeOKHolds == GwSpec => []GwTypeOK
<1>1. GwInv => GwTypeOK
  BY DEF GwInv
<1> QED BY <1>1, GwInvHolds, PTL

\* No chain of logins and delegations signs a token for more than some user who
\* logged in may do.
THEOREM TokensBackedHolds == GwSpec => []TokensBacked
<1>1. GwInv => TokensBacked
  BY DEF GwInv
<1> QED BY <1>1, GwInvHolds, PTL

\* A request acts with the privilege and the label of its own caller, whatever its
\* thread has served before.
THEOREM ActsAsRequestHolds == GwSpec => []ActsAsRequest
<1>1. GwInv => ActsAsRequest
  BY DEF GwInv, Serving, ActsAsRequest
<1> QED BY <1>1, GwInvHolds, PTL

\* The gate of a home has its owner's privilege, and an invocation through it the
\* caller's.
THEOREM HomeGatesHolds == GwSpec => []HomeGates
<1>1. GwInv => HomeGates
  BY DEF GwInv, HomesOwned, Serving, HomeGates
<1> QED BY <1>1, GwInvHolds, PTL

\* A registration on a thread without a past, after the bootstrap, leaves the
\* user with an fsutil gate.
THEOREM RegisteredHasGateHolds == GwSpec => []RegisteredHasGate
<1>1. GwInv => RegisteredHasGate
  BY DEF GwInv, Serving, HasGate, RegisteredHasGate
<1> QED BY <1>1, GwInvHolds, PTL

=============================================================================
