---------------------------- MODULE DirectoryOps ----------------------------
(***************************************************************************)
(* link and unlink of a labeled directory (snapfaas/src/fs/mod.rs) by      *)
(* threads that share the backing store.  Each is an optimistic loop:      *)
(* get the object, edit a copy, compare-and-swap; a lost race brings the   *)
(* current contents and the loop goes round.                               *)
(*                                                                         *)
(* The only steps other threads can see are the store's get and cas, which *)
(* are atomic (an LMDB transaction, a TiKV compare_and_swap); the editing  *)
(* between them is local and belongs to the step before it.  The label     *)
(* check of Labeled::modify gives the same answer in every turn: the       *)
(* directory's label never changes and the thread's label is joined with   *)
(* it the first time.  So it is a constant, the set MayWrite.              *)
(***************************************************************************)
CONSTANTS Thread, Name, Entry, MayWrite, None

ASSUME MayWriteAssumption == MayWrite \subseteq Thread
ASSUME ResultAssumption   == None \notin {"ok", "no", "denied"}
ASSUME NoneIsNoOp ==
  None \notin [kind : {"link", "unlink"}, name : Name, entry : Entry \cup {None}]

VARIABLES
  dir,    \* the directory object in the store
  call,   \* per thread: the operation in progress, or None
  ret,    \* per thread: its result, or None
  read,   \* per thread: has get (or a failed cas) brought the contents?
  prev    \* per thread: prev_dir, the contents it last saw

vars == <<dir, call, ret, read, prev>>

\* Callers see the directory, the calls and the results; the copies the loops
\* work on are hidden.
Abstract == INSTANCE AtomicDirectory
              WITH dir <- dir, call <- call, ret <- ret

Op == [kind : {"link"}, name : Name, entry : Entry]
        \cup [kind : {"unlink"}, name : Name, entry : {None}]

NoEntries == [n \in {} |-> None]

Init ==
  /\ dir  = NoEntries
  /\ call = [t \in Thread |-> None]
  /\ ret  = [t \in Thread |-> None]
  /\ read = [t \in Thread |-> FALSE]
  /\ prev = [t \in Thread |-> NoEntries]

\* The closure given to modify: the edited entries, and whether the name was there.
Edited(op, m) ==
  IF op.kind = "link"
  THEN [n \in DOMAIN m \cup {op.name} |-> IF n = op.name THEN op.entry ELSE m[n]]
  ELSE [n \in DOMAIN m \ {op.name} |-> m[n]]
Existed(op, m) == op.name \in DOMAIN m

\* The early returns of the loop: Ok(false).
Rejects(op, m) == IF op.kind = "link" THEN Existed(op, m) ELSE ~Existed(op, m)

\* Mutant of Turn: what the closure found is not looked at.
TurnUnchecked(t, m) ==
  /\ read' = [read EXCEPT ![t] = TRUE]
  /\ prev' = [prev EXCEPT ![t] = m]
  /\ UNCHANGED ret

\* One turn of the loop up to its cas, on contents m just brought by the store.
Turn(t, m) ==
  \/ /\ t \notin MayWrite
     /\ ret' = [ret EXCEPT ![t] = "denied"]
     /\ UNCHANGED <<read, prev>>
  \/ /\ t \in MayWrite
     /\ Rejects(call[t], m)
     /\ ret' = [ret EXCEPT ![t] = "no"]
     /\ UNCHANGED <<read, prev>>
  \/ /\ t \in MayWrite
     /\ ~Rejects(call[t], m)
     /\ read' = [read EXCEPT ![t] = TRUE]
     /\ prev' = [prev EXCEPT ![t] = m]
     /\ UNCHANGED ret

\* The call of link or unlink.
Invoke(t, op) ==
  /\ call[t] = None
  /\ call' = [call EXCEPT ![t] = op]
  /\ UNCHANGED <<dir, ret, read, prev>>

Pending(t) == call[t] # None /\ ret[t] = None

\* self.get(fs)
Get(t) ==
  /\ Pending(t)
  /\ ~read[t]
  /\ Turn(t, dir)
  /\ UNCHANGED <<dir, call>>

\* Mutant of CasSucceeds: a plain set.
SetBlindly(t) ==
  /\ Pending(t)
  /\ read[t]
  /\ dir' = Edited(call[t], prev[t])
  /\ ret' = [ret EXCEPT ![t] = "ok"]
  /\ UNCHANGED <<call, read, prev>>

\* self.cas(Some(&prev_dir), &labeled_dir): the store compares the contents.
CasSucceeds(t) ==
  /\ Pending(t)
  /\ read[t]
  /\ dir = prev[t]
  /\ dir' = Edited(call[t], prev[t])
  /\ ret' = [ret EXCEPT ![t] = "ok"]
  /\ UNCHANGED <<call, read, prev>>

\* Mutant of CasFails: the loop goes round with the contents it had.
CasFailsStale(t) ==
  /\ Pending(t)
  /\ read[t]
  /\ dir # prev[t]
  /\ UNCHANGED vars

CasFails(t) ==
  /\ Pending(t)
  /\ read[t]
  /\ dir # prev[t]
  /\ Turn(t, dir)
  /\ UNCHANGED <<dir, call>>

Return(t) ==
  /\ ret[t] # None
  /\ call' = [call EXCEPT ![t] = None]
  /\ ret'  = [ret EXCEPT ![t] = None]
  /\ read' = [read EXCEPT ![t] = FALSE]
  /\ prev' = [prev EXCEPT ![t] = NoEntries]
  /\ UNCHANGED dir

\* The process dies in the operation, before or after its cas.
Crash(t) ==
  /\ call[t] # None
  /\ call' = [call EXCEPT ![t] = None]
  /\ ret'  = [ret EXCEPT ![t] = None]
  /\ read' = [read EXCEPT ![t] = FALSE]
  /\ prev' = [prev EXCEPT ![t] = NoEntries]
  /\ UNCHANGED dir

Step(t) == Get(t) \/ CasSucceeds(t) \/ CasFails(t) \/ Return(t)

Next == \E t \in Thread : \/ Step(t)
                          \/ Crash(t)
                          \/ \E op \in Op : Invoke(t, op)

\* Threads run; they need not call again.
Fairness == \A t \in Thread : WF_vars(Step(t))

Spec == Init /\ [][Next]_vars /\ Fairness

-----------------------------------------------------------------------------
(* Properties. *)

\* The types of the shared object and of the threads' locals.
TypeOK ==
  /\ DOMAIN dir \subseteq Name
  /\ call \in [Thread -> Op \cup {None}]
  /\ ret \in [Thread -> {"ok", "no", "denied", None}]
  /\ read \in [Thread -> BOOLEAN]
  /\ DOMAIN prev = Thread

\* A thread is about to compare-and-swap only if it passed the label check, and
\* only with contents its operation applies to: a turn that goes round after a
\* lost race repeats both checks of the loop on the contents the race brought.
CasReady ==
  \A t \in Thread : Pending(t) /\ read[t] =>
                       t \in MayWrite /\ ~Rejects(call[t], prev[t])

\* Every link and unlink is atomic: each call takes effect, or is refused, at
\* one instant between its call and its return, whatever other threads do.
Linearizable == Abstract!Spec

=============================================================================
