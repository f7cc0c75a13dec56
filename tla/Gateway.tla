------------------------------- MODULE Gateway -------------------------------
(***************************************************************************)
(* The web front end as an authority (frontends/webfront/src/app.rs and    *)
(* init.rs): it signs a token for whoever the CAS server vouches for and   *)
(* for whatever a token holder delegates, installs each principal's own    *)
(* fsutil gate (snapfaas/src/fs/bootstrap.rs), and resolves the gate of an *)
(* invocation with the privilege of the token that comes with it.          *)
(*                                                                         *)
(* Requests run on threads.  The current label and the privilege are       *)
(* locals of the thread, so a request finds what the last one on its       *)
(* thread left; the HTTP library may as well take a new thread (Respawn).  *)
(* Homes are the facets of `home`, opened step by step as in FacetedOpen;  *)
(* the link into a home is atomic (DirectoryOps).  The gate invoked is the *)
(* `~:fsutil` of the caller.  A token is the component it is signed for:   *)
(* signatures are not forged, and an expired token is still accepted.      *)
(***************************************************************************)
EXTENDS FacetedOpen, Buckle, Naturals

CONSTANTS
  User,        \* principals that can log in
  Delegated,   \* components that token holders ask for
  Clearances,  \* clearances they name
  Asked,       \* labels that invocations ask for, when they ask for one
  MaxRequests, \* bound: requests served
  FaastenPriv

ASSUME GatewayAssumption ==
  /\ User \subseteq Principal
  /\ MaxRequests \in Nat
  /\ Delegated \cup Clearances \cup {FaastenPriv} \subseteq Component
  /\ Asked \subseteq Label
  /\ \A p \in Component : Labeled(p, p) \in Facet
  /\ None \notin [privilege : Component, clearance : Component]

VARIABLES
  tokens,     \* what tokens were signed for
  logged,     \* users the CAS server has vouched for
  installed,  \* has the file system been bootstrapped: is home:<T,faasten>:fsutil there?
  homes,      \* per directory of a facet: its fsutil gate, or None
  cur, priv,  \* per thread: CURRENT_LABEL and PRIVILEGE
  gw,         \* per thread: the request it serves
  made        \* requests so far

authority == <<tokens, logged, installed, homes>>
gwVars    == <<vars, authority, cur, priv, gw, made>>

\* The label of home:<T,faasten> and of the gate in it.
FSUTIL_POLICY == Labeled(DcTrue, FaastenPriv)

\* get_ufacet
Ufacet(p) == Labeled(p, p)

\* No request.  Of the others: whose it is, the clearance of a registration, the
\* label an invocation asks for and the privilege it is submitted with, and whether
\* it found the thread without a past.
Idle == [at |-> "idle", job |-> "none", user |-> DcTrue, clearance |-> DcTrue,
         asked |-> Public, gate |-> DcTrue, clean |-> FALSE]

GwInit ==
  /\ Init
  /\ tokens    = {}
  /\ logged    = {}
  /\ installed \in BOOLEAN
  /\ homes     = [u \in Uid |-> None]
  /\ cur       = [t \in Thread |-> Public]
  /\ priv      = [t \in Thread |-> DcTrue]
  /\ gw        = [t \in Thread |-> Idle]
  /\ made      = 0

Serve(t, r)   == gw' = [gw EXCEPT ![t] = r]
SetLabel(t, l) == cur' = [cur EXCEPT ![t] = l]
SetPriv(t, p) == priv' = [priv EXCEPT ![t] = p]

\* A request comes to the thread.
Request(t) == gw[t].at = "idle" /\ made < MaxRequests /\ made' = made + 1

\* The library serves the next request on a new thread.
Respawn(t) ==
  /\ gw[t].at = "idle"
  /\ SetLabel(t, Public)
  /\ SetPriv(t, DcTrue)
  /\ UNCHANGED <<vars, authority, gw, made>>

\* register_user_fsutil up to dup_fsutil.
Register(t, p, clearance) ==
  /\ SetPriv(t, p)
  /\ Serve(t, [Idle EXCEPT !.at = "register", !.job = "register", !.user = p,
                           !.clearance = clearance, !.clean = (cur[t] = Public)])
  /\ UNCHANGED <<vars, tokens, installed, homes, cur>>

\* authenticate_cas: the CAS server answers yes and the name of the user.
AuthenticateCas(t, u) ==
  /\ Request(t)
  /\ logged' = logged \cup {u}
  /\ Register(t, Only(u), Only(u))

\* Mutant of Delegate: the test is the wrong way round.
DelegateUp(t, login, p, clearance) ==
  /\ Request(t)
  /\ Implies(p, login)
  /\ \/ Register(t, p, clearance)
     \/ /\ tokens' = tokens \cup {p}
        /\ UNCHANGED <<vars, installed, homes, cur, priv, gw>>
  /\ UNCHANGED logged

\* delegate, with and without bootstrap.
Delegate(t, login, p, clearance) ==
  /\ Request(t)
  /\ Implies(login, p)
  /\ \/ Register(t, p, clearance)
     \/ /\ tokens' = tokens \cup {p}
        /\ UNCHANGED <<vars, installed, homes, cur, priv, gw>>
  /\ UNCHANGED logged

\* Mutant of DupFsutil: `~` is parsed before the privilege is set.
DupFsutilEarly(t) ==
  LET l == Lub(cur[t], FSUTIL_POLICY)
  IN  /\ gw[t].at = "register"
      /\ installed
      /\ CanFlowToWithPrivilege(l, Public, priv[t])
      /\ SetLabel(t, l)
      /\ Serve(t, [gw[t] EXCEPT !.at = "open"])
      /\ Open(t, Ufacet(DcTrue))
      /\ UNCHANGED <<authority, priv, made>>

\* dup_fsutil: read faasten's gate, create the redirect gate with a public label,
\* begin to open `~`.
DupFsutil(t) ==
  LET l == Lub(cur[t], FSUTIL_POLICY)
  IN  /\ gw[t].at = "register"
      /\ installed
      /\ CanFlowToWithPrivilege(l, Public, priv[t])
      /\ SetLabel(t, l)
      /\ Serve(t, [gw[t] EXCEPT !.at = "open"])
      /\ Open(t, Ufacet(priv[t]))
      /\ UNCHANGED <<authority, priv, made>>

\* dup_fsutil fails: no gate to redirect to, or the thread's label is too high for a
\* public gate.  The error is logged and the login goes on.
DupFsutilFails(t) ==
  LET l == Lub(cur[t], FSUTIL_POLICY)
  IN  /\ gw[t].at = "register"
      /\ \/ ~installed /\ UNCHANGED cur
         \/ /\ installed
            /\ ~CanFlowToWithPrivilege(l, Public, priv[t])
            /\ SetLabel(t, l)
      /\ Serve(t, [gw[t] EXCEPT !.at = "reply", !.clean = @ /\ installed])
      /\ UNCHANGED <<vars, authority, priv, made>>

\* fs.link of the gate in the directory that open returned: modify joins the label
\* and checks it; a name that is there is NameExists, logged.
LinkFsutil(t) ==
  LET home == res[t]
      l    == Lub(cur[t], label[home])
  IN  /\ gw[t].at = "open" /\ gw[t].job = "register"
      /\ Return(t)
      /\ SetLabel(t, l)
      /\ homes' = IF CanFlowToWithPrivilege(l, label[home], priv[t]) /\ homes[home] = None
                  THEN [homes EXCEPT ![home] = [privilege |-> priv[t], clearance |-> gw[t].clearance]]
                  ELSE homes
      /\ Serve(t, [gw[t] EXCEPT !.at = "reply"])
      /\ UNCHANGED <<tokens, logged, installed, priv, made>>

\* The privilege is dropped and the token sent.
ReplyToken(t) ==
  /\ gw[t].at = "reply"
  /\ SetPriv(t, DcTrue)
  /\ tokens' = tokens \cup {gw[t].user}
  /\ Serve(t, Idle)
  /\ UNCHANGED <<vars, logged, installed, homes, cur, made>>

\* Mutant of Began: the label of the thread is not cleared.
BeganTainted(t, p, asked) == SetPriv(t, p) /\ SetLabel(t, Lub(cur[t], asked))

\* init: clear_label, set_my_privilge, taint_with_label.
Began(t, p, asked) == SetPriv(t, p) /\ SetLabel(t, Lub(Public, asked))

\* faasten_invoke: without a valid token it is a public request.  With no home
\* in the file system the path leads nowhere.
FaastenInvoke(t, p, asked) ==
  /\ Request(t)
  /\ p \in tokens \cup {DcTrue}
  /\ Began(t, p, asked)
  /\ \/ ~installed /\ UNCHANGED <<vars, gw>>
     \/ /\ installed
        /\ Open(t, Ufacet(p))
        /\ Serve(t, [Idle EXCEPT !.at = "open", !.job = "invoke", !.user = p, !.asked = asked])
  /\ UNCHANGED authority

\* prepare_labeled_invoke: the home is listed, the gate and the one it redirects to
\* are read, the clearance is checked, and the invocation goes to the scheduler.
Submit(t) ==
  LET gate == homes[res[t]]
      l    == Lub(cur[t], label[res[t]])
  IN  /\ gw[t].at = "open" /\ gw[t].job = "invoke"
      /\ Return(t)
      /\ \/ /\ gate # None
            /\ SetLabel(t, Lub(l, FSUTIL_POLICY))
            /\ \/ /\ Implies(priv[t], gate.clearance)
                  /\ Serve(t, [gw[t] EXCEPT !.at = "wait", !.gate = gate.privilege])
               \/ ~Implies(priv[t], gate.clearance) /\ Serve(t, Idle)
         \/ gate = None /\ SetLabel(t, l) /\ Serve(t, Idle)
      /\ UNCHANGED <<authority, priv, made>>

\* wait_for_completion returns, with the answer or an error.  Label and privilege
\* stay on the thread.
Answered(t) ==
  /\ gw[t].at = "wait"
  /\ Serve(t, Idle)
  /\ UNCHANGED <<vars, authority, cur, priv, made>>

\* A step of open that is not its return.
InOpen(t) ==
  /\ Get(t) \/ SetNewId(t) \/ CasSucceeds(t) \/ CasFails(t)
  /\ UNCHANGED <<authority, cur, priv, gw, made>>

\* The thread goes on with the request it has.
GwStep(t) ==
  DupFsutil(t) \/ DupFsutilFails(t) \/ InOpen(t) \/ LinkFsutil(t) \/ ReplyToken(t) \/ Submit(t)

GwNext ==
  \E t \in Thread :
    \/ Respawn(t)
    \/ \E u \in User : AuthenticateCas(t, u)
    \/ \E login \in tokens, p \in Delegated :
         \E clearance \in Clearances \cup {p} : Delegate(t, login, p, clearance)
    \/ \E p \in tokens \cup {DcTrue}, asked \in Asked \cup {Public} : FaastenInvoke(t, p, asked)
    \/ GwStep(t)
    \/ Answered(t)

\* A thread goes on with its request; no request has to come.
GwFairness == \A t \in Thread : WF_gwVars(GwStep(t))

GwSpec == GwInit /\ [][GwNext]_gwVars /\ GwFairness

-----------------------------------------------------------------------------
(* Properties. *)

\* The types of the front end's state and of its threads' locals.
GwTypeOK ==
  /\ TypeOK
  /\ tokens \subseteq Component
  /\ logged \subseteq User
  /\ installed \in BOOLEAN
  /\ homes \in [Uid -> [privilege : Component, clearance : Component] \cup {None}]
  /\ cur \in [Thread -> Label]
  /\ priv \in [Thread -> Component]
  /\ gw \in [Thread -> [at    : {"idle", "register", "open", "reply", "wait"},
                        job   : {"none", "register", "invoke"},
                        user  : Component, clearance : Component,
                        asked : Label, gate : Component, clean : BOOLEAN]]

\* Somebody who has logged in may act as p.
Backed(p) == \E u \in logged : Implies(Only(u), p)

\* A chain of delegations never gets a token for more than one of the users who
\* logged in may do.
TokensBacked == \A p \in tokens : Backed(p)

\* The file system is only touched with the privilege of the request in hand, and
\* an invocation's label starts from the label it asked for: nothing is left over
\* from the request the thread served before.
ActsAsRequest ==
  \A t \in Thread :
    /\ gw[t].at \in {"register", "open", "wait"} => priv[t] = gw[t].user
    /\ gw[t].at = "open" /\ gw[t].job = "invoke" => cur[t] = Lub(Public, gw[t].asked)
    /\ gw[t].at = "wait" =>
         cur[t] = Lub(Lub(Lub(Public, gw[t].asked), Ufacet(gw[t].user)), FSUTIL_POLICY)

\* The gate in a home carries the privilege of that home's owner and nobody else's,
\* however the registrations of several principals interleave, and somebody who
\* logged in stands behind it; so what is submitted for a caller through its
\* own fsutil runs with the caller's privilege.
HomeGates ==
  /\ \A u \in Uid : homes[u] # None => /\ label[u] = Ufacet(homes[u].privilege)
                                       /\ Backed(homes[u].privilege)
  /\ \A t \in Thread : gw[t].at = "wait" => gw[t].gate = gw[t].user

\* Whoever is sent a token after a registration on a thread without a past, once
\* faasten's own fsutil was there, has an fsutil gate in the one directory that
\* its home leads to, even if the home was being created by another thread.
RegisteredHasGate ==
  \A t \in Thread : gw[t].at = "reply" /\ gw[t].clean =>
    \E u \in Found(facets, Ufacet(gw[t].user)) : homes[u] # None

\* Every request is answered, or handed to the scheduler: no registration or
\* resolution hangs in the loop that opens the home.
RequestsEnd ==
  \A t \in Thread : gw[t].at \in {"register", "open", "reply"} ~> gw[t].at \in {"idle", "wait"}

=============================================================================
