------------------------------ MODULE MCMonitor ------------------------------
(* TLC instances of Monitor: two principals, of which b is held by nobody.    *)
EXTENDS Monitor, TLC

CONSTANTS a, b, w1, w2, c1, n1, n2, o0, o1, o2, o3, o4, o5

MCPrincipal == {a, b}
OneWorker   == {w1}
TwoWorkers  == {w1, w2}
OneClient   == {c1}
Names       == {n1, n2}
FourObjects == {o0, o1, o2, o3}
FiveObjects == {o0, o1, o2, o3, o4}
SixObjects  == {o0, o1, o2, o3, o4, o5}

SecretA  == Labeled(Only(a), DcTrue)
SecretAB == Labeled(And(Only(a), Only(b)), DcTrue)

PublicOrA == {Public, SecretA}
OnlyPublic == {Public}
NoPrivs == {DcTrue}
AnyPriv == {Only(a), Only(b)}
PrivA   == {DcTrue, Only(a)}

Granting(p) == [NoPolicy EXCEPT !.privilege = p]
Free      == Object("free", Public, NoPolicy)

\* The label of the root directory lets nobody write it.
RootOf(es) == [Object("dir", Labeled(DcTrue, DcFalse), NoPolicy) EXCEPT !.entries = es]

Data       == {"dir", "file", "blob"}
DataCalls  == {"open", "read", "create", "update", "link", "gate"}

\* The root links a gate that runs with no privilege, and a directory anyone may
\* write, which links a's secret file.
FileStore ==
  [o \in Obj |->
     CASE o = o0 -> RootOf((n1 :> o1) @@ (n2 :> o2))
       [] o = o1 -> Object("gate", Public, NoPolicy)
       [] o = o2 -> [Object("dir", Public, NoPolicy) EXCEPT !.entries = n1 :> o3]
       [] o = o3 -> Object("file", SecretA, NoPolicy)
       [] OTHER  -> Free]

Gates     == {"gate", "redirect"}
GateCalls == {"open", "create", "gate", "invoke"}

\* The root links a gate that runs with a's privilege, and a redirection to it that
\* only b may write and whose contents are secret to a.  The redirection has b's
\* privilege, and asks for it.
GateStore ==
  [o \in Obj |->
     CASE o = o0 -> RootOf((n1 :> o1) @@ (n2 :> o2))
       [] o = o1 -> Object("gate", Public, Granting(Only(a)))
       [] o = o2 -> Object("gate", Labeled(Only(a), Only(b)),
                           [Granting(Only(b)) EXCEPT !.clearance = Only(b), !.to = o1])
       [] OTHER  -> Free]

Others     == {"service", "blob", "faceted", "gate"}
OtherCalls == {"open", "facet", "lsfacet", "create", "service", "invoke", "unlink", "close",
               "taint", "fail", "retry"}

\* The root links a gate that runs with a's privilege, and a directory anyone may
\* write, which links a faceted directory and a blob that is secret to both a and b.
OtherStore ==
  [o \in Obj |->
     CASE o = o0 -> RootOf((n1 :> o1) @@ (n2 :> o2))
       [] o = o1 -> Object("gate", Public, Granting(Only(a)))
       [] o = o2 -> [Object("dir", Public, NoPolicy) EXCEPT
                       !.entries = (n1 :> o3) @@ (n2 :> o4)]
       [] o = o3 -> Object("faceted", Public, NoPolicy)
       [] o = o4 -> Object("blob", SecretAB, NoPolicy)
       [] OTHER  -> Free]

=============================================================================
