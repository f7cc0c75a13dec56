------------------------------ MODULE MCCluster ------------------------------
(* TLC instances of Cluster.  Memory is counted in VMs: every function that   *)
(* fits takes one unit and a machine has one unit per worker.                 *)
EXTENDS Cluster, TLC

CONSTANTS n1, n2, w1, w2, c1, f1, f2

NoClient   == {}
NoNode     == {}
NodesA     == {n1}
NodesAB    == {n1, n2}
WorkersA   == {w1}
WorkersAB  == {w1, w2}
NodeOfA    == w1 :> n1
NodeOfAB   == (w1 :> n1) @@ (w2 :> n2)
OneClient  == {c1}
OneFun     == {f1}
TwoFuns    == {f1, f2}
UnitMemory == (f1 :> 1) @@ (f2 :> 1)
BigMemory  == (f1 :> 1) @@ (f2 :> 3)
MCCount    == 0..2

NoCalls    == {}
AsyncCalls == {FALSE}
AllCalls   == {TRUE, FALSE}
Passes     == {TRUE}
Either     == {TRUE, FALSE}

\* Bound of the run with faults: reports of a machine the scheduler has not read.
MaxUnread == 2

Bounded == \A n \in Node : Len(up[n]) <= MaxUnread

=============================================================================
