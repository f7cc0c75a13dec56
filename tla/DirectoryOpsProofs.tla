-------------------------- MODULE DirectoryOpsProofs --------------------------
(***************************************************************************)
(* Proof that the compare-and-swap loops of link and unlink implement the  *)
(* atomic directory, for any number of threads, names and entries.  An     *)
(* operation takes effect at its successful cas, or at the get or failed   *)
(* cas that brought the contents it was refused on.  A successful cas is   *)
(* an atomic link or unlink because the contents compared equal to the     *)
(* copy the loop had checked: that check, CasReady, is the inductive       *)
(* invariant, on top of the types and of the fact that a thread outside an *)
(* operation holds no copy.                                                *)
(***************************************************************************)
EXTENDS DirectoryOps, TLAPS

\* A thread that is in no operation holds no copy and no result.
IdleHoldsNothing == \A t \in Thread : call[t] = None => ~read[t] /\ ret[t] = None

Inv == TypeOK /\ CasReady /\ IdleHoldsNothing

\* An operation is never the value that stands for "no operation".
LEMMA OpIsNotNone == None \notin Op
BY NoneIsNoOp DEF Op

\* Editing the entries keeps the names within Name.
LEMMA EditedNames ==
  ASSUME NEW op \in Op, NEW m, DOMAIN m \subseteq Name
  PROVE  DOMAIN Edited(op, m) \subseteq Name
BY DEF Edited, Op

\* A turn of the loop on contents m either decides the operation, keeping the
\* thread's copy, or stores the contents after passing both checks.
LEMMA TurnPreserves ==
  ASSUME Inv, NEW t \in Thread, Pending(t), Turn(t, dir), UNCHANGED <<dir, call>>
  PROVE  Inv'
<1>1. TypeOK'
  BY DEF Inv, TypeOK, Turn
<1>2. IdleHoldsNothing'
  BY DEF Inv, TypeOK, IdleHoldsNothing, Turn, Pending
<1>3. ASSUME NEW u \in Thread, Pending(u)', read'[u]
      PROVE  u \in MayWrite /\ ~Rejects(call'[u], prev'[u])
  <2>1. CASE u = t
    <3>1. ret'[t] = None
      BY <1>3, <2>1 DEF Pending
    <3>2. t \in MayWrite /\ ~Rejects(call[t], dir) /\ prev' = [prev EXCEPT ![t] = dir]
      BY <3>1, ResultAssumption DEF Inv, TypeOK, Turn
    <3> QED BY <2>1, <3>2 DEF Inv, TypeOK
  <2>2. CASE u # t
    <3>1. read'[u] = read[u] /\ ret'[u] = ret[u] /\ prev'[u] = prev[u] /\ call'[u] = call[u]
      BY <2>2 DEF Inv, TypeOK, Turn
    <3>2. Pending(u) /\ read[u]
      BY <1>3, <3>1 DEF Pending
    <3> QED BY <3>1, <3>2 DEF Inv, CasReady
  <2> QED BY <2>1, <2>2
<1> QED BY <1>1, <1>2, <1>3 DEF Inv, CasReady

\* A step that leaves every other thread alone, after which t itself is about to
\* cas no more than before, keeps CasReady.
LEMMA OthersReady ==
  ASSUME Inv, NEW t \in Thread,
         \A u \in Thread \ {t} : /\ call'[u] = call[u] /\ ret'[u] = ret[u]
                                 /\ read'[u] = read[u] /\ prev'[u] = prev[u],
         ~(Pending(t)' /\ read'[t])
  PROVE  CasReady'
<1> SUFFICES ASSUME NEW u \in Thread, Pending(u)', read'[u]
             PROVE  u \in MayWrite /\ ~Rejects(call'[u], prev'[u])
  BY DEF CasReady
<1>1. u # t
  OBVIOUS
<1>2. Pending(u) /\ read[u]
  BY <1>1 DEF Pending
<1> QED BY <1>1, <1>2 DEF Inv, CasReady

\* Each step of a thread preserves the invariant: a turn of the loop checks
\* what it stores, and no step changes another thread's copy.
LEMMA InvStep ==
  ASSUME Inv, NEW t \in Thread, Step(t) \/ Crash(t) \/ \E op \in Op : Invoke(t, op)
  PROVE  Inv'
<1>1. CASE \E op \in Op : Invoke(t, op)
  <2>1. PICK op \in Op : Invoke(t, op)
    BY <1>1
  <2>2. TypeOK'
    BY <2>1 DEF Inv, TypeOK, Invoke
  <2>3. CasReady'
    BY <2>1, OthersReady DEF Inv, TypeOK, IdleHoldsNothing, Invoke
  <2>4. IdleHoldsNothing'
    BY <2>1, OpIsNotNone DEF Inv, TypeOK, IdleHoldsNothing, Invoke
  <2> QED BY <2>2, <2>3, <2>4 DEF Inv
<1>2. CASE Get(t)
  BY <1>2, TurnPreserves DEF Get
<1>3. CASE CasFails(t)
  BY <1>3, TurnPreserves DEF CasFails
<1>4. CASE CasSucceeds(t)
  <2>1. call[t] \in Op
    BY <1>4 DEF Inv, TypeOK, CasSucceeds, Pending
  <2>2. DOMAIN dir' \subseteq Name
    BY <1>4, <2>1, EditedNames DEF Inv, TypeOK, CasSucceeds
  <2>3. TypeOK'
    BY <1>4, <2>2 DEF Inv, TypeOK, CasSucceeds
  <2>4. ~(Pending(t)' /\ read'[t])
    BY <1>4, ResultAssumption DEF Inv, TypeOK, CasSucceeds, Pending
  <2>5. CasReady'
    BY <1>4, <2>4, OthersReady DEF Inv, TypeOK, CasSucceeds
  <2>6. IdleHoldsNothing'
    BY <1>4 DEF Inv, TypeOK, IdleHoldsNothing, CasSucceeds, Pending
  <2> QED BY <2>3, <2>5, <2>6 DEF Inv
<1>5. CASE Return(t)
  <2>1. TypeOK'
    BY <1>5 DEF Inv, TypeOK, Return
  <2>2. CasReady'
    BY <1>5, OthersReady DEF Inv, TypeOK, Return
  <2>3. IdleHoldsNothing'
    BY <1>5 DEF Inv, TypeOK, IdleHoldsNothing, Return
  <2> QED BY <2>1, <2>2, <2>3 DEF Inv
<1>6. CASE Crash(t)
  <2>1. TypeOK'
    BY <1>6 DEF Inv, TypeOK, Crash
  <2>2. CasReady'
    BY <1>6, OthersReady DEF Inv, TypeOK, Crash
  <2>3. IdleHoldsNothing'
    BY <1>6 DEF Inv, TypeOK, IdleHoldsNothing, Crash
  <2> QED BY <2>1, <2>2, <2>3 DEF Inv
<1> QED BY <1>1, <1>2, <1>3, <1>4, <1>5, <1>6 DEF Step

LEMMA InvStutter == Inv /\ UNCHANGED vars => Inv'
BY DEF Inv, TypeOK, CasReady, IdleHoldsNothing, Pending, vars

\* The invariant holds in every reachable state of link and unlink.
THEOREM InvHolds == Spec => []Inv
<1>1. Init => Inv
  BY DEF Init, Inv, TypeOK, CasReady, IdleHoldsNothing, Pending, NoEntries
<1>2. Inv /\ [Next]_vars => Inv'
  BY InvStep, InvStutter DEF Next
<1> QED BY <1>1, <1>2, PTL DEF Spec

\* The directory and the locals of the loops keep their types.
THEOREM TypeOKHolds == Spec => []TypeOK
<1>1. Inv => TypeOK
  BY DEF Inv
<1> QED BY <1>1, InvHolds, PTL

\* No thread is about to compare-and-swap without having passed the label check
\* and the existence check on the very contents it compares with.
THEOREM CasReadyHolds == Spec => []CasReady
<1>1. Inv => CasReady
  BY DEF Inv
<1> QED BY <1>1, InvHolds, PTL

\* A turn that decides is the atomic operation's refusal; one that does not is
\* invisible to callers.
LEMMA TurnRefines ==
  ASSUME Inv, NEW t \in Thread, Pending(t), Turn(t, dir), UNCHANGED <<dir, call>>
  PROVE  Abstract!Effect(t) \/ UNCHANGED <<dir, call, ret>>
<1>1. call[t] \in Op /\ call[t].kind \in {"link", "unlink"}
  BY DEF Inv, TypeOK, Pending, Op
<1>2. Abstract!Pending(t)
  BY DEF Pending, Abstract!Pending
<1>3. CASE t \notin MayWrite
  BY <1>2, <1>3 DEF Turn, Abstract!Effect, Abstract!Deny, Abstract!Refuse
<1>4. CASE t \in MayWrite /\ Rejects(call[t], dir)
  <2>1. ret' = [ret EXCEPT ![t] = "no"]
    BY <1>4 DEF Turn
  <2>2. Abstract!Refuse(t, "no")
    BY <2>1 DEF Abstract!Refuse
  <2> QED BY <1>1, <1>2, <1>4, <2>2
          DEF Rejects, Existed, Abstract!Effect, Abstract!Link, Abstract!Unlink
<1>5. CASE t \in MayWrite /\ ~Rejects(call[t], dir)
  BY <1>5 DEF Turn
<1> QED BY <1>3, <1>4, <1>5

\* Every step of the loops is a step of the atomic directory, or changes nothing
\* that callers see.
LEMMA NextRefines ==
  ASSUME Inv, [Next]_vars
  PROVE  [Abstract!Next]_<<dir, call, ret>>
<1>1. CASE UNCHANGED vars
  BY <1>1 DEF vars
<1>2. ASSUME NEW t \in Thread, NEW op \in Op, Invoke(t, op)
      PROVE  Abstract!Next
  BY <1>2 DEF Invoke, Op, Abstract!Next, Abstract!Invoke, Abstract!Op
<1>3. ASSUME NEW t \in Thread, Step(t)
      PROVE  [Abstract!Next]_<<dir, call, ret>>
  <2>1. CASE Get(t)
    <3>1. Pending(t) /\ Turn(t, dir) /\ UNCHANGED <<dir, call>>
      BY <2>1 DEF Get
    <3>2. Abstract!Effect(t) \/ UNCHANGED <<dir, call, ret>>
      BY <3>1, TurnRefines
    <3> QED BY <3>2 DEF Abstract!Next
  <2>2. CASE CasFails(t)
    <3>1. Pending(t) /\ Turn(t, dir) /\ UNCHANGED <<dir, call>>
      BY <2>2 DEF CasFails
    <3>2. Abstract!Effect(t) \/ UNCHANGED <<dir, call, ret>>
      BY <3>1, TurnRefines
    <3> QED BY <3>2 DEF Abstract!Next
  <2>3. CASE CasSucceeds(t)
    <3>1. call[t] \in Op /\ call[t].kind \in {"link", "unlink"}
      BY <2>3 DEF Inv, TypeOK, CasSucceeds, Pending, Op
    <3>2. t \in MayWrite /\ ~Rejects(call[t], dir)
      BY <2>3 DEF Inv, CasReady, CasSucceeds
    <3>3. dir' = Edited(call[t], dir) /\ ret' = [ret EXCEPT ![t] = "ok"] /\ call' = call
      BY <2>3 DEF CasSucceeds
    <3>4. Abstract!Pending(t)
      BY <2>3 DEF CasSucceeds, Pending, Abstract!Pending
    <3>5. CASE call[t].kind = "link"
      BY <3>2, <3>3, <3>4, <3>5
         DEF Rejects, Existed, Edited, Abstract!Next, Abstract!Effect, Abstract!Link
    <3>6. CASE call[t].kind = "unlink"
      BY <3>2, <3>3, <3>4, <3>6
         DEF Rejects, Existed, Edited, Abstract!Next, Abstract!Effect, Abstract!Unlink
    <3> QED BY <3>1, <3>5, <3>6
  <2>4. CASE Return(t)
    BY <2>4 DEF Return, Abstract!Next, Abstract!Return
  <2> QED BY <1>3, <2>1, <2>2, <2>3, <2>4 DEF Step
<1>4. ASSUME NEW t \in Thread, Crash(t)
      PROVE  Abstract!Next
  <2>1. Abstract!Crash(t)
    BY <1>4 DEF Crash, Abstract!Crash
  <2> QED BY <2>1 DEF Abstract!Next
<1> QED BY <1>1, <1>2, <1>3, <1>4 DEF Next

\* The directory starts empty, with no calls, as the atomic one does.
LEMMA InitRefines == Init => Abstract!Init
BY DEF Init, Abstract!Init, NoEntries

\* The compare-and-swap loops implement the atomic directory: every link and
\* unlink takes effect, or is refused, at one instant within its call.
THEOREM LinearizableHolds == Spec => Linearizable
BY InitRefines, NextRefines, InvHolds, PTL DEF Spec, Linearizable, Abstract!Spec

=============================================================================
