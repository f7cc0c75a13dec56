---------------------------- MODULE MCLocalManager ----------------------------
(* TLC instance of LocalManager.  Memory is counted in units of 128 MB.  The  *)
(* machine has two worker threads, and functions of four kinds: two of the    *)
(* smallest size, one larger than a thread's share of the memory, and one     *)
(* that does not fit the machine at all.                                      *)
EXTENDS LocalManager, TLC

CONSTANTS w1, w2, f1, f2, f3, f4

MCWorker   == {w1, w2}
MCFunction == {f1, f2, f3, f4}
MCMemory   == (f1 :> 1) @@ (f2 :> 1) @@ (f3 :> 2) @@ (f4 :> 4)

=============================================================================
