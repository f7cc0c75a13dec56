-------------------------------- MODULE Buckle --------------------------------
(***************************************************************************)
(* The labels of the `labeled` crate, as the code in src/ uses them.  A    *)
(* component is a formula without negation over principals.  It is given   *)
(* here by what it means: the sets of principals that satisfy it, a set    *)
(* closed under supersets.  Implication is then inclusion.  The crate      *)
(* keeps formulas in conjunctive normal form, and on negation-free         *)
(* formulas its clause-by-clause tests agree with this meaning.            *)
(*                                                                         *)
(* A label is a pair: who may learn the data (secrecy), who vouches for it *)
(* (integrity).                                                            *)
(***************************************************************************)
CONSTANT Principal

\* The sets of principals that may consent together.
World == SUBSET Principal

\* Formulas.
Component == {c \in SUBSET World : \A v \in c, w \in World : v \subseteq w => w \in c}

DcTrue  == World
DcFalse == {}

\* The formula that is the principal p alone.
Only(p) == {w \in World : p \in w}

Implies(c, d) == c \subseteq d
And(c, d)     == c \cap d
Or(c, d)      == c \cup d

\* Buckle::new, Buckle::public
Labeled(s, i) == [secrecy |-> s, integrity |-> i]
Public        == Labeled(DcTrue, DcTrue)

Label == [secrecy : Component, integrity : Component]

\* lub
Lub(l, m) == Labeled(And(l.secrecy, m.secrecy), Or(l.integrity, m.integrity))

\* can_flow_to
CanFlowTo(l, m) == Implies(m.secrecy, l.secrecy) /\ Implies(l.integrity, m.integrity)

\* can_flow_to_with_privilege
CanFlowToWithPrivilege(l, m, p) ==
  /\ Implies(And(m.secrecy, p), l.secrecy)
  /\ Implies(And(l.integrity, p), m.integrity)

\* The clauses of c that p does not imply: the weakest formula that implies c
\* together with p.
Residual(c, p) == {w \in World : \A v \in World : w \subseteq v /\ v \in p => v \in c}

\* downgrade: the least label that l may be lowered to with privilege p.
Downgrade(l, p) == Labeled(Residual(l.secrecy, p), And(l.integrity, p))

=============================================================================
