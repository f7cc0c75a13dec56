--------------------------- MODULE AtomicDirectory ---------------------------
(***************************************************************************)
(* What a labeled directory promises its callers: link and unlink take     *)
(* effect at one instant between the call and the return, link refuses a   *)
(* name that exists, unlink refuses one that does not, and a thread whose  *)
(* label may not flow to the directory changes nothing.  A caller that     *)
(* dies in an operation leaves it done or not done, never half done.       *)
(***************************************************************************)
CONSTANTS
  Thread,    \* threads with a reference to the directory
  Name,      \* entry names
  Entry,     \* directory entries (references to objects)
  MayWrite,  \* threads that pass the label check
  None

VARIABLES
  dir,   \* the entries: a function from the names present
  call,  \* per thread: the operation in progress, or None
  ret    \* per thread: the result of that operation once it took effect

Op == [kind : {"link"}, name : Name, entry : Entry]
        \cup [kind : {"unlink"}, name : Name, entry : {None}]

Init ==
  /\ dir  = [n \in {} |-> None]
  /\ call = [t \in Thread |-> None]
  /\ ret  = [t \in Thread |-> None]

Invoke(t, op) ==
  /\ call[t] = None
  /\ call' = [call EXCEPT ![t] = op]
  /\ UNCHANGED <<dir, ret>>

Pending(t) == call[t] # None /\ ret[t] = None

Refuse(t, why) ==
  /\ ret' = [ret EXCEPT ![t] = why]
  /\ UNCHANGED <<dir, call>>

Deny(t) == t \notin MayWrite /\ Refuse(t, "denied")

Link(t) ==
  LET op == call[t]
  IN  /\ t \in MayWrite
      /\ op.kind = "link"
      /\ \/ op.name \in DOMAIN dir /\ Refuse(t, "no")
         \/ /\ op.name \notin DOMAIN dir
            /\ dir' = [n \in DOMAIN dir \cup {op.name} |->
                         IF n = op.name THEN op.entry ELSE dir[n]]
            /\ ret' = [ret EXCEPT ![t] = "ok"]
            /\ UNCHANGED call

Unlink(t) ==
  LET op == call[t]
  IN  /\ t \in MayWrite
      /\ op.kind = "unlink"
      /\ \/ op.name \notin DOMAIN dir /\ Refuse(t, "no")
         \/ /\ op.name \in DOMAIN dir
            /\ dir' = [n \in DOMAIN dir \ {op.name} |-> dir[n]]
            /\ ret' = [ret EXCEPT ![t] = "ok"]
            /\ UNCHANGED call

Effect(t) == Pending(t) /\ (Deny(t) \/ Link(t) \/ Unlink(t))

Return(t) ==
  /\ ret[t] # None
  /\ call' = [call EXCEPT ![t] = None]
  /\ ret' = [ret EXCEPT ![t] = None]
  /\ UNCHANGED dir

\* The caller's process ends, before or after the effect.
Crash(t) ==
  /\ call[t] # None
  /\ call' = [call EXCEPT ![t] = None]
  /\ ret' = [ret EXCEPT ![t] = None]
  /\ UNCHANGED dir

Next == \E t \in Thread : \/ \E op \in Op : Invoke(t, op)
                          \/ Effect(t)
                          \/ Return(t)
                          \/ Crash(t)

Spec == Init /\ [][Next]_<<dir, call, ret>>

=============================================================================
