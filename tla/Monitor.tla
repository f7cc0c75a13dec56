------------------------------- MODULE Monitor -------------------------------
(***************************************************************************)
(* The reference monitor: the system calls of a running function           *)
(* (snapfaas/src/syscall_server.rs) on the labeled file system             *)
(* (snapfaas/src/fs/mod.rs), invocation through gates and services, and    *)
(* the gateway that resolves a gate for a client and checks the answer     *)
(* (frontends/webfront/src/init.rs).  Threads share the store; the current *)
(* label and the privilege of a thread are its own.                        *)
(*                                                                         *)
(* An object is a record: its kind, its label, and the field its kind uses *)
(* (entries of a directory, facets of a faceted directory, policy of a     *)
(* gate or a service).  A direct gate is one whose policy points nowhere.  *)
(* The table of file descriptors of a process is the set of objects it has *)
(* a descriptor for.  link and unlink are one step each (DirectoryOps),    *)
(* the update of a gate is two: a get and a set.                           *)
(*                                                                         *)
(* holds and seen do not exist in the code.  They track data: the          *)
(* principals whose secrets an object, or the memory of a process, depends *)
(* on and that have not been declassified with the principal's privilege.  *)
(* leaked is a history variable: the principals whose secrets the memory   *)
(* of a VM has brought into an execution whose label does not protect      *)
(* them.  A VM's label is never raised, so both a cached VM and a repeated *)
(* try may do that; the properties say that nothing else does.             *)
(***************************************************************************)
EXTENDS Buckle, Sequences, Naturals, Functions

CONSTANTS
  Worker, Client,   \* worker threads; gateway threads
  Obj, Root, Store0,\* objects; the root directory; the file system at the start
  Name,             \* entry names
  Kinds,            \* the kinds of objects that functions create
  Calls,            \* the system calls, and the ends, of the functions considered
  Labels, Privs,    \* the labels and the privileges that guests and clients name
  Logins,           \* the privileges that clients log in with
  MaxTasks,         \* bound: invocations and requests begun
  None

ASSUME ThreadAssumption == Worker \cap Client = {} /\ None \notin Worker \cup Client
ASSUME BoundAssumption  == MaxTasks \in Nat
ASSUME LabelAssumption  == Labels \subseteq Label /\ Privs \subseteq Component
                                                 /\ Logins \subseteq Component

Thread == Worker \cup Client

VARIABLES
  store,   \* the objects
  holds,   \* per object: whose secrets its contents depend on
  th,      \* the threads
  tasks,   \* invocations on their way to a worker
  made,    \* how many invocations and requests were begun
  inbox,   \* per thread: the TaskReturn it has been sent, or None
  vms,     \* what the memory of the cached VMs depends on
  leaked   \* whose secrets a VM has brought below their label

vars == <<store, holds, th, tasks, made, inbox, vms, leaked>>

Kind == {"free", "dir", "file", "faceted", "gate", "service", "blob"}

NoEntries == [n \in {} |-> Root]
NoPolicy  == [privilege |-> DcTrue, clearance |-> DcTrue, to |-> None, taint |-> Public]

\* Values of policies and of objects.
Policy  == [privilege : Component, clearance : Component, to : Obj \cup {None}, taint : Label]
Objects == [kind : Kind, label : Label, entries : UNION {[S -> Obj] : S \in SUBSET Name},
            facets : SUBSET (Label \X Obj), policy : Policy]

Written(s, kinds) == {o \in Obj : s[o].kind \in kinds}

\* Entries, facets and redirections of store s refer to objects that were
\* written, and a faceted directory has no label of its own.
WellFormed(s) ==
  \A o \in Obj : /\ Range(s[o].entries) \subseteq Written(s, Kind \ {"free"})
                 /\ \A x \in s[o].facets : x[2] \in Written(s, {"dir"})
                 /\ s[o].policy.to \in Written(s, {"gate"}) \cup {None}
                 /\ s[o].kind = "faceted" => s[o].label = Public

ASSUME StoreAssumption ==
  /\ Store0 \in [Obj -> Objects]
  /\ WellFormed(Store0)
  /\ Root \in Written(Store0, {"dir"})

Object(k, l, pol) ==
  [kind |-> k, label |-> l, entries |-> NoEntries, facets |-> {}, policy |-> pol]

IdleThread ==
  [pc |-> "idle", cur |-> Public, priv |-> DcTrue, dents |-> {}, seen |-> {},
   at |-> None, need |-> DcTrue, gain |-> DcTrue, sync |-> FALSE, edit |-> None,
   job |-> None, left |-> Public, got |-> {}]

\* The secrets that data with label l may contain.
Secrets(l) == {p \in Principal : Implies(l.secrecy, Only(p))}

Init ==
  /\ store = Store0
  /\ holds = [o \in Obj |-> IF Store0[o].kind \in {"free", "faceted"} THEN {}
                            ELSE Secrets(Store0[o].label)]
  /\ th    = [t \in Thread |-> IdleThread]
  /\ tasks = <<>>
  /\ made  = 0
  /\ inbox = [t \in Thread |-> None]
  /\ vms   = {}
  /\ leaked = {}

-----------------------------------------------------------------------------
(* Labels of threads and objects. *)

\* Mutant of Unlabel: the reader's label stays as it is.
UnlabelQuietly(r, o) == [r EXCEPT !.seen = @ \cup holds[o]]

\* unlabel: thread record r has read object o.
Unlabel(r, o) ==
  [r EXCEPT !.cur = Lub(store[o].label, @), !.seen = @ \cup holds[o]]

\* taint_with_label
Tainted(r, l) == [r EXCEPT !.cur = Lub(@, l)]

\* declassify_with: privilege p is exercised on what the thread has in memory.
Declassified(r, p) ==
  [r EXCEPT !.cur = Downgrade(@, p), !.seen = {q \in @ : ~Implies(p, Only(q))}]

\* Mutant of MayWrite: no check.
MayAlwaysWrite(r, l) == TRUE

\* The check of Labeled::write and modify, and of the create functions.
MayWrite(r, l) == CanFlowToWithPrivilege(r.cur, l, r.priv)

\* What a write by r reveals: its memory, less what its privilege declassifies.
Exposed(r) == {p \in r.seen : ~Implies(r.priv, Only(p))}

Became(t, r) == th' = [th EXCEPT ![t] = r]

\* Mutant of Created: a descriptor for an object that was never written.
CreatedUnwritten(t, r, obj, data) ==
  \E o \in Obj :
    /\ store[o].kind = "free"
    /\ Became(t, [r EXCEPT !.dents = @ \cup {o}])
    /\ UNCHANGED <<store, holds>>

\* set_new_id and a new descriptor for the object; r is the thread's record.
Created(t, r, obj, data) ==
  \E o \in Obj :
    /\ store[o].kind = "free"
    /\ store' = [store EXCEPT ![o] = obj]
    /\ holds' = [holds EXCEPT ![o] = data]
    /\ Became(t, [r EXCEPT !.dents = @ \cup {o}])

Running(t) == th[t].pc = "run" /\ th[t].edit = None
HasFd(t, o, kinds) == Running(t) /\ o \in th[t].dents /\ store[o].kind \in kinds
Fds(t, kinds)      == {o \in th[t].dents : store[o].kind \in kinds}

calls == <<tasks, made, inbox, vms, leaked>>

-----------------------------------------------------------------------------
(* System calls on the file system: one action each.                         *)

\* dent_open of a name: the directory is read whether or not the name is there.
DentOpen(t, d, n) ==
  LET r == Unlabel(th[t], d)
      e == store[d].entries
  IN  /\ HasFd(t, d, {"dir"})
      /\ Became(t, IF n \in DOMAIN e THEN [r EXCEPT !.dents = @ \cup {e[n]}] ELSE r)
      /\ UNCHANGED <<store, holds, calls>>

\* dent_open of a facet: found, or created with the facet as its label.
DentOpenFacet(t, d, facet) ==
  LET found == {x \in store[d].facets : x[1] = facet}
  IN  /\ HasFd(t, d, {"faceted"})
      /\ \/ /\ found # {}
            /\ Became(t, [th[t] EXCEPT !.dents = @ \cup {x[2] : x \in found}])
            /\ UNCHANGED <<store, holds>>
         \/ /\ found = {}
            /\ \E o \in Obj :
                 /\ store[o].kind = "free"
                 /\ store' = [store EXCEPT ![o] = Object("dir", facet, NoPolicy),
                                           ![d].facets = @ \cup {<<facet, o>>}]
                 /\ Became(t, [th[t] EXCEPT !.dents = @ \cup {o}])
            /\ UNCHANGED holds
      /\ UNCHANGED calls

\* dent_close of the last descriptor for an object.
DentClose(t, o) ==
  /\ HasFd(t, o, Kind)
  /\ Became(t, [th[t] EXCEPT !.dents = @ \ {o}])
  /\ UNCHANGED <<store, holds, calls>>

Reads(t, o) ==
  /\ Became(t, Unlabel(th[t], o))
  /\ UNCHANGED <<store, holds, calls>>

\* dent_read, dent_list
DentRead(t, o) == HasFd(t, o, {"file", "dir"}) /\ Reads(t, o)

\* dent_ls_gate: the gate it redirects to is not read.
DentLsGate(t, o) == HasFd(t, o, {"gate"}) /\ Reads(t, o)

\* dent_get_blob, and what blob_read brings through the descriptor it returns.
DentGetBlob(t, o) == HasFd(t, o, {"blob"}) /\ Reads(t, o)

\* dent_list_faceted: the label is raised to the clearance.
DentListFaceted(t, d, clearance) ==
  /\ HasFd(t, d, {"faceted"})
  /\ Became(t, Tainted(th[t], clearance))
  /\ UNCHANGED <<store, holds, calls>>

\* dent_create of an empty object: nothing is checked, nothing is written.  A
\* faceted directory has no label of its own.
DentCreate(t, k, l) ==
  /\ Running(t)
  /\ k \in Kinds \cap {"dir", "file", "faceted"}
  /\ Created(t, th[t], Object(k, IF k = "faceted" THEN Public ELSE l, NoPolicy), {})
  /\ UNCHANGED calls

\* Mutant of DentCreateBlob: the check of replace is dropped.
DentCreateBlobUnchecked(t, l) ==
  /\ Running(t)
  /\ "blob" \in Kinds
  /\ Created(t, th[t], Object("blob", l, NoPolicy), Exposed(th[t]))
  /\ UNCHANGED calls

\* dent_create of a blob: a new object, then replace.  When replace fails the
\* object stays in the store with nothing that refers to it.
DentCreateBlob(t, l) ==
  /\ Running(t)
  /\ "blob" \in Kinds
  /\ MayWrite(th[t], l)
  /\ Created(t, th[t], Object("blob", l, NoPolicy), Exposed(th[t]))
  /\ UNCHANGED calls

\* Mutant of CreateGuarded: the creator need not have the privilege it gives.
CreateUnguarded(t, r, k, l, pol) ==
  IF MayWrite(r, l)
  THEN Created(t, r, Object(k, l, pol), Exposed(r))
  ELSE Became(t, r) /\ UNCHANGED <<store, holds>>

\* The creation of a gate or service by a thread with record r.
CreateGuarded(t, r, k, l, pol) ==
  IF MayWrite(r, l) /\ Implies(r.priv, pol.privilege)
  THEN Created(t, r, Object(k, l, pol), Exposed(r))
  ELSE Became(t, r) /\ UNCHANGED <<store, holds>>

\* dent_create of a direct gate: the three images are read first.  One read is
\* part of this step; DentRead (dent_get_blob) of the others does the same.
DentCreateDirect(t, b, l, p, c) ==
  /\ HasFd(t, b, {"blob"})
  /\ "gate" \in Kinds
  /\ CreateGuarded(t, Unlabel(th[t], b), "gate", l,
                   [NoPolicy EXCEPT !.privilege = p, !.clearance = c])
  /\ UNCHANGED calls

\* dent_create of a redirect gate: the target is not read.
DentCreateRedirect(t, g, l, p, c) ==
  /\ HasFd(t, g, {"gate"})
  /\ "redirect" \in Kinds
  /\ CreateGuarded(t, th[t], "gate", l,
                   [NoPolicy EXCEPT !.privilege = p, !.clearance = c, !.to = g])
  /\ UNCHANGED calls

DentCreateService(t, l, p, c, taint) ==
  /\ Running(t)
  /\ "service" \in Kinds
  /\ CreateGuarded(t, th[t], "service", l,
                   [NoPolicy EXCEPT !.privilege = p, !.clearance = c, !.taint = taint])
  /\ UNCHANGED calls

\* Labeled::write, then set: a blind write.
Overwrites(t, o) ==
  /\ MayWrite(th[t], store[o].label)
  /\ holds' = [holds EXCEPT ![o] = Exposed(th[t])]
  /\ UNCHANGED <<store, th, calls>>

\* dent_update of a file
DentUpdate(t, o) == HasFd(t, o, {"file"}) /\ Overwrites(t, o)

\* dent_update of a blob
DentUpdateBlob(t, o) == HasFd(t, o, {"blob"}) /\ Overwrites(t, o)

\* Service::replace: the whole policy is replaced.
ServiceReplace(t, s, pol) ==
  /\ Implies(th[t].priv, pol.privilege)
  /\ MayWrite(th[t], store[s].label)
  /\ store' = [store EXCEPT ![s].policy = pol]
  /\ holds' = [holds EXCEPT ![s] = Exposed(th[t])]
  /\ UNCHANGED <<th, calls>>

\* dent_update of a service
DentUpdateService(t, s, p, c, taint) ==
  /\ HasFd(t, s, {"service"})
  /\ ServiceReplace(t, s, [NoPolicy EXCEPT !.privilege = p, !.clearance = c, !.taint = taint])

\* dent_update of a gate, first part: the gate is read and edited.  None keeps
\* a field.  A direct gate may get a new image b, which is read; a redirect gate
\* needs its target named again.  A call that is refused here, for the kind of
\* gate or a descriptor, has read the gate as DentRead does.
DentUpdateGate(t, g, p, c, to, b) ==
  LET old == store[g].policy
      r   == Unlabel(th[t], g)
  IN  /\ HasFd(t, g, {"gate"})
      /\ IF old.to = None THEN to = None
                          ELSE to \in th[t].dents /\ store[to].kind = "gate"
      /\ b = None \/ (old.to = None /\ HasFd(t, b, {"blob"}))
      /\ Became(t, [IF b = None THEN r ELSE Unlabel(r, b) EXCEPT
                      !.edit = [gate |-> g,
                                policy |-> [old EXCEPT
                                  !.privilege = IF p = None THEN @ ELSE p,
                                  !.clearance = IF c = None THEN @ ELSE c,
                                  !.to = to]]])
      /\ UNCHANGED <<store, holds, calls>>

\* Mutant of GateReplace: the gate's label is not checked.
GateReplaceUnchecked(t) ==
  LET e == th[t].edit
  IN  /\ e # None
      /\ IF Implies(th[t].priv, e.policy.privilege)
         THEN /\ store' = [store EXCEPT ![e.gate].policy = e.policy]
              /\ holds' = [holds EXCEPT ![e.gate] = Exposed(th[t])]
         ELSE UNCHANGED <<store, holds>>
      /\ Became(t, [th[t] EXCEPT !.edit = None])
      /\ UNCHANGED calls

\* Second part: Gate::replace, which writes over what others wrote since.
GateReplace(t) ==
  LET e == th[t].edit
  IN  /\ e # None
      /\ IF Implies(th[t].priv, e.policy.privilege) /\ MayWrite(th[t], store[e.gate].label)
         THEN /\ store' = [store EXCEPT ![e.gate].policy = e.policy]
              /\ holds' = [holds EXCEPT ![e.gate] = Exposed(th[t])]
         ELSE UNCHANGED <<store, holds>>
      /\ Became(t, [th[t] EXCEPT !.edit = None])
      /\ UNCHANGED calls

\* dent_link and dent_unlink: the directory is read, then checked, then changed.
\* edit is what the closure makes of the entries, or the entries themselves when
\* the call is refused.
ChangeEntries(t, d, edit) ==
  LET r == Unlabel(th[t], d)
  IN  /\ Became(t, r)
      /\ IF MayWrite(r, store[d].label) /\ edit # store[d].entries
         THEN /\ store' = [store EXCEPT ![d].entries = edit]
              /\ holds' = [holds EXCEPT ![d] = @ \cup Exposed(r)]
         ELSE UNCHANGED <<store, holds>>
      /\ UNCHANGED calls

DentLink(t, d, n, o) ==
  LET e == store[d].entries
  IN  /\ HasFd(t, d, {"dir"})
      /\ o \in th[t].dents
      /\ ChangeEntries(t, d, IF n \in DOMAIN e THEN e
                             ELSE [m \in DOMAIN e \cup {n} |-> IF m = n THEN o ELSE e[m]])

DentUnlink(t, d, n) ==
  /\ HasFd(t, d, {"dir"})
  /\ ChangeEntries(t, d, Restrict(store[d].entries, DOMAIN store[d].entries \ {n}))

-----------------------------------------------------------------------------
(* System calls on labels.  declassify computes a label and answers it, and   *)
(* changes no state (nor do getCurrentLabel, buckleParse and root).           *)

TaintWithLabel(t, l) ==
  /\ Running(t)
  /\ Became(t, Tainted(th[t], l))
  /\ UNCHANGED <<store, holds, calls>>

-----------------------------------------------------------------------------
(* Gates and services. *)

\* Gate::to_invokable begins: the gate is read.  at is the gate last read.
Resolving(r, g, sync) ==
  [Unlabel(r, g) EXCEPT !.pc = "resolve", !.at = store[g].policy,
                        !.need = DcTrue, !.gain = DcTrue, !.sync = sync]

\* dent_invoke of a gate
DentInvoke(t, g, sync) ==
  /\ HasFd(t, g, {"gate"})
  /\ made < MaxTasks
  /\ made' = made + 1
  /\ Became(t, Resolving(th[t], g, sync))
  /\ UNCHANGED <<store, holds, tasks, inbox, vms, leaked>>

\* Mutant of Redirect: the gate redirected to is read without its label.
RedirectQuietly(t) ==
  LET pol == th[t].at
  IN  /\ th[t].pc = "resolve"
      /\ pol.to # None
      /\ Became(t, [th[t] EXCEPT
                      !.seen = @ \cup holds[pol.to],
                      !.at = store[pol.to].policy,
                      !.need = And(@, pol.clearance),
                      !.gain = And(@, pol.privilege)])
      /\ UNCHANGED <<store, holds, calls>>

\* Mutant of Redirect: only the clearance of the last gate counts.
RedirectUncleared(t) ==
  LET pol == th[t].at
  IN  /\ th[t].pc = "resolve"
      /\ pol.to # None
      /\ Became(t, [Unlabel(th[t], pol.to) EXCEPT
                      !.at = store[pol.to].policy,
                      !.gain = And(@, pol.privilege)])
      /\ UNCHANGED <<store, holds, calls>>

\* One level of redirection: privilege and clearance accumulate, and the next
\* gate is read.
Redirect(t) ==
  LET pol == th[t].at
  IN  /\ th[t].pc = "resolve"
      /\ pol.to # None
      /\ Became(t, [Unlabel(th[t], pol.to) EXCEPT
                      !.at = store[pol.to].policy,
                      !.need = And(@, pol.clearance),
                      !.gain = And(@, pol.privilege)])
      /\ UNCHANGED <<store, holds, calls>>

\* A direct gate is reached: the invoker is checked, the task is sent with the
\* thread's label and the gates' privilege.  A refusal ends the system call, or
\* the client's request.
Resolved(t) ==
  LET pol  == th[t].at
      r    == [th[t] EXCEPT !.at = None, !.need = DcTrue, !.gain = DcTrue,
                              !.sync = FALSE]
      sync == th[t].sync
  IN  /\ th[t].pc = "resolve"
      /\ pol.to = None
      /\ \/ /\ Implies(r.priv, And(th[t].need, pol.clearance))
            /\ tasks' = Append(tasks, [label |-> r.cur,
                                       privilege |-> And(th[t].gain, pol.privilege),
                                       secrets |-> r.seen,
                                       from |-> IF sync THEN t ELSE None])
            /\ Became(t, [r EXCEPT !.pc = IF sync THEN "call" ELSE "run"])
         \/ /\ ~Implies(r.priv, And(th[t].need, pol.clearance))
            /\ Became(t, [r EXCEPT !.pc = IF t \in Client THEN "idle" ELSE "run"])
            /\ UNCHANGED tasks
      /\ UNCHANGED <<store, holds, made, inbox, vms, leaked>>

\* dent_invoke of a service: its privilege declassifies, its taint is joined,
\* whatever becomes of the HTTP request in between.
DentInvokeService(t, s) ==
  LET r   == Unlabel(th[t], s)
      pol == store[s].policy
  IN  /\ HasFd(t, s, {"service"})
      /\ Became(t, IF Implies(r.priv, pol.clearance)
                   THEN [Tainted(Declassified(r, pol.privilege), pol.taint) EXCEPT
                           !.seen = @ \cup Secrets(pol.taint)]
                   ELSE r)
      /\ UNCHANGED <<store, holds, calls>>

\* The answer to a synchronous dent_invoke; a TaskReturn without a payload makes
\* unwrap() panic, after the label is joined.
DentInvokeReturns(t) ==
  LET m == inbox[t]
  IN  /\ t \in Worker
      /\ th[t].pc = "call"
      /\ m # None
      /\ inbox' = [inbox EXCEPT ![t] = None]
      /\ Became(t, [Tainted(th[t], m.label) EXCEPT !.pc = IF m.ok THEN "run" ELSE "dead",
                                                   !.seen = @ \cup m.secrets])
      /\ UNCHANGED <<store, holds, tasks, made, vms, leaked>>

-----------------------------------------------------------------------------
(* The worker thread around the system calls: wait_and_process.              *)

\* Memory that depends on the secrets m is there in an execution of job.
Brings(m, job) == leaked' = leaked \cup (m \ Secrets(job.label))

\* SyscallProcessor::new for task job: clear_label, taint_with_label,
\* set_my_privilge, and a descriptor for the root.
Fresh(r, job, memory) ==
  [r EXCEPT !.pc = "run", !.job = job, !.cur = Lub(Public, job.label),
            !.priv = job.privilege, !.dents = {Root},
            !.seen = job.secrets \cup memory]

\* A task is taken and given a VM, new or cached.  The TaskReturn of a failure
\* is made now, with the label the thread has before the processor sets it.
TakeTask(w) ==
  LET job == Head(tasks)
  IN  /\ th[w].pc = "idle"
      /\ tasks # <<>>
      /\ tasks' = Tail(tasks)
      /\ \/ /\ Became(w, Fresh([th[w] EXCEPT !.left = th[w].cur], job, {}))
            /\ UNCHANGED <<vms, leaked>>
         \/ \E m \in vms :
              /\ CanFlowTo(Public, job.label)
              /\ vms' = vms \ {m}
              /\ Brings(m, job)
              /\ Became(w, Fresh([th[w] EXCEPT !.left = th[w].cur], job, m))
      /\ UNCHANGED <<store, holds, made, inbox>>

\* rpc::finish, and the scheduler's answer to the caller if there is one.
Answer(job, reply) ==
  inbox' = IF job.from = None THEN inbox ELSE [inbox EXCEPT ![job.from] = reply]

\* A task is taken and there is no memory for its VM.
Exhausted(w) ==
  LET job == Head(tasks)
  IN  /\ th[w].pc = "idle"
      /\ tasks # <<>>
      /\ tasks' = Tail(tasks)
      /\ Answer(job, [ok |-> FALSE, label |-> th[w].cur, secrets |-> {}])
      /\ UNCHANGED <<store, holds, th, made, vms, leaked>>

\* The locals of the loop are gone; the current label is left in the thread.
Done(r) == [IdleThread EXCEPT !.cur = r.cur, !.priv = r.priv]

\* The Response system call: the label is declassified with the function's
\* privilege, the VM is cached with its memory.
Respond(w) ==
  LET r == Declassified(th[w], th[w].priv)
  IN  /\ w \in Worker
      /\ Running(w)
      /\ Answer(th[w].job, [ok |-> TRUE, label |-> r.cur, secrets |-> r.seen])
      /\ vms' = vms \cup {th[w].seen}
      /\ Became(w, Done(r))
      /\ UNCHANGED <<store, holds, tasks, made, leaked>>

\* processor.run fails: launch finds the VM running, and a new processor, with the
\* label of the task, sends the request to the same guest again.
Retry(w) ==
  /\ w \in Worker
  /\ Running(w)
  /\ Brings(th[w].seen, th[w].job)
  /\ Became(w, Fresh(th[w], th[w].job, th[w].seen))
  /\ UNCHANGED <<store, holds, tasks, made, inbox, vms>>

\* processor.run fails for the last time.
Fail(w) ==
  /\ w \in Worker
  /\ Running(w)
  /\ Answer(th[w].job, [ok |-> FALSE, label |-> th[w].left, secrets |-> {}])
  /\ Became(w, Done(th[w]))
  /\ UNCHANGED <<store, holds, tasks, made, vms, leaked>>

-----------------------------------------------------------------------------
(* The gateway. *)

\* A request: the thread's label and privilege are set, the path starts at the
\* root.  The payload is as secret as its label says.
ClientRequest(c, login, l) ==
  /\ th[c].pc = "idle"
  /\ made < MaxTasks
  /\ Became(c, [IdleThread EXCEPT !.pc = "path", !.cur = Lub(Public, l), !.priv = login,
                                  !.seen = Secrets(l), !.at = Root])
  /\ made' = made + 1
  /\ UNCHANGED <<store, holds, tasks, inbox, vms, leaked>>

\* read_path: one component.  The path may end, or fail to go on, at any entry:
\* without a gate there, the request is refused.
ClientPath(c, n) ==
  LET d == th[c].at
      r == Unlabel(th[c], d)
      e == store[d].entries
      Leads(k) == n \in DOMAIN e /\ store[e[n]].kind = k
  IN  /\ th[c].pc = "path"
      /\ \/ Leads("dir") /\ Became(c, [r EXCEPT !.at = e[n]])
         \/ Leads("gate") /\ Became(c, Resolving(r, e[n], TRUE))
         \/ Became(c, [r EXCEPT !.pc = "idle", !.at = None])
      /\ UNCHANGED <<store, holds, calls>>

\* Mutant of ClientReturn: the answer is passed on whatever its label.
ClientReturnUnchecked(c) ==
  LET m == inbox[c]
  IN  /\ c \in Client
      /\ th[c].pc = "call"
      /\ m # None
      /\ inbox' = [inbox EXCEPT ![c] = None]
      /\ Became(c, [th[c] EXCEPT !.pc = "idle", !.got = IF m.ok THEN m.secrets ELSE {}])
      /\ UNCHANGED <<store, holds, tasks, made, vms, leaked>>

\* wait_for_completion: the answer is passed on if its label allows.
ClientReturn(c) ==
  LET m == inbox[c]
  IN  /\ c \in Client
      /\ th[c].pc = "call"
      /\ m # None
      /\ inbox' = [inbox EXCEPT ![c] = None]
      /\ Became(c, [th[c] EXCEPT
                      !.pc = "idle",
                      !.got = IF m.ok /\ CanFlowToWithPrivilege(m.label, th[c].cur, th[c].priv)
                              THEN m.secrets ELSE {}])
      /\ UNCHANGED <<store, holds, tasks, made, vms, leaked>>

-----------------------------------------------------------------------------
Guards(t) ==
  \E l \in Labels, p \in Privs, c \in Privs :
    \/ \E b \in Fds(t, {"blob"}) : DentCreateDirect(t, b, l, p, c)
    \/ \E g \in Fds(t, {"gate"}) : DentCreateRedirect(t, g, l, p, c)
    \/ \E taint \in Labels : DentCreateService(t, l, p, c, taint)

\* do_syscall
Syscall(t) ==
  LET dents == Fds(t, Kind)
      gates == Fds(t, {"gate"})
      blobs == Fds(t, {"blob"})
  IN
  \/ "open" \in Calls     /\ \E d \in dents, n \in Name : DentOpen(t, d, n)
  \/ "facet" \in Calls    /\ \E d \in dents, l \in Labels : DentOpenFacet(t, d, l)
  \/ "lsfacet" \in Calls  /\ \E d \in dents, l \in Labels : DentListFaceted(t, d, l)
  \/ "close" \in Calls    /\ \E o \in dents : DentClose(t, o)
  \/ "read" \in Calls     /\ \E o \in dents : \/ DentRead(t, o)
                                              \/ DentLsGate(t, o)
                                              \/ DentGetBlob(t, o)
  \/ "create" \in Calls   /\ \/ \E l \in Labels, k \in Kinds : DentCreate(t, k, l)
                             \/ \E l \in Labels : DentCreateBlob(t, l)
                             \/ Guards(t)
  \/ "update" \in Calls   /\ \E o \in dents : DentUpdate(t, o) \/ DentUpdateBlob(t, o)
  \/ "service" \in Calls  /\ \E o \in dents, p \in Privs, c \in Privs, taint \in Labels :
                               DentUpdateService(t, o, p, c, taint)
  \/ "gate" \in Calls     /\ \E g \in gates, p \in Privs \cup {None}, c \in Privs \cup {None},
                                to \in gates \cup {None}, b \in blobs \cup {None} :
                               DentUpdateGate(t, g, p, c, to, b)
  \/ "link" \in Calls     /\ \E d \in dents, n \in Name, o \in dents : DentLink(t, d, n, o)
  \/ "unlink" \in Calls   /\ \E d \in dents, n \in Name : DentUnlink(t, d, n)
  \/ "invoke" \in Calls   /\ \E o \in dents : \/ DentInvokeService(t, o)
                                              \/ \E sync \in BOOLEAN : DentInvoke(t, o, sync)
  \/ "taint" \in Calls    /\ \E l \in Labels : TaintWithLabel(t, l)

\* What a thread does without being asked.
Step(t) ==
  \/ GateReplace(t)
  \/ Redirect(t)
  \/ Resolved(t)
  \/ DentInvokeReturns(t)

Next ==
  \/ \E w \in Worker : \/ Syscall(w)
                       \/ TakeTask(w)
                       \/ Respond(w)
                       \/ "retry" \in Calls /\ Retry(w)
                       \/ "fail" \in Calls /\ (Fail(w) \/ Exhausted(w))
  \/ \E c \in Client : \/ \E login \in Logins, l \in Labels : ClientRequest(c, login, l)
                       \/ \E n \in Name : ClientPath(c, n)
                       \/ ClientReturn(c)
  \/ \E t \in Thread : Step(t)

Spec == Init /\ [][Next]_vars

-----------------------------------------------------------------------------
(* Properties. *)

\* Types.  Entries, facets, redirections and descriptors refer to objects that
\* were written.
TypeOK ==
  /\ store \in [Obj -> Objects]
  /\ WellFormed(store)
  /\ holds \in [Obj -> SUBSET Principal]
  /\ \A t \in Thread : /\ th[t].pc \in {"idle", "path", "resolve", "call", "run", "dead"}
                       /\ th[t].cur \in Label
                       /\ th[t].priv \in Component
                       /\ th[t].dents \subseteq Written(store, Kind \ {"free"})
                       /\ th[t].seen \subseteq Principal
  /\ made \in 0..MaxTasks

\* l protects the data of the principals S.
Protects(l, S) == S \subseteq Secrets(l)

\* Secrets stay contained: whatever functions read, write, link, create and
\* invoke, in whatever order, the contents of an object depend on the secrets of
\* a principal only if the object's label protects them, or if a function with
\* that principal's privilege put them there.  The memory of a VM is the only
\* other way.
ObjectsContained ==
  \A o \in Obj : Protects(store[o].label, holds[o] \ leaked)

\* The floating label keeps up with the data: the label of a thread, of an
\* invocation and of an answer protects every secret that came with it, but for
\* those that the memory of a VM brought.
ThreadsContained ==
  /\ \A t \in Thread : Protects(th[t].cur, th[t].seen \ leaked)
  /\ \A i \in DOMAIN tasks : Protects(tasks[i].label, tasks[i].secrets \ leaked)
  /\ \A t \in Thread :
       inbox[t] # None => Protects(inbox[t].label, inbox[t].secrets \ leaked)

\* The gateway hands a client no secret but those its login is privileged for or
\* its own request was labeled with (or tainted by on the way to the gate), and
\* those that the memory of a VM brought.
ClientCleared ==
  \A c \in Client : \A p \in th[c].got \ leaked :
    Implies(And(th[c].cur.secrecy, th[c].priv), Only(p))

\* Whoever uses a gate or service with this clearance and privilege has the
\* privilege of p already, if it gives that of p.
Closed(clearance, privilege, p) ==
  Implies(privilege, Only(p)) => Implies(clearance, Only(p))

\* Principals whose privilege nobody starts with: no login has it, and the gates
\* and services that have it ask for it.
Unheld == {p \in Principal :
             /\ \A c \in Logins : ~Implies(c, Only(p))
             /\ \A o \in Obj : Closed(Store0[o].policy.clearance, Store0[o].policy.privilege, p)}

\* Privilege is never made up: no sequence of creating, updating, redirecting
\* and invoking gates gives a function a privilege nobody started with, nor opens
\* a gate that has it to somebody without it.  The clearances that accumulate
\* along redirections keep out whoever lacks any of them.
NoAmplification ==
  \A p \in Unheld :
    /\ \A t \in Thread : ~Implies(th[t].priv, Only(p)) /\ Closed(th[t].need, th[t].gain, p)
    /\ \A o \in Obj : Closed(store[o].policy.clearance, store[o].policy.privilege, p)
    /\ \A i \in DOMAIN tasks : ~Implies(tasks[i].privilege, Only(p))

\* An object that only a principal without holders vouches for never changes.
Untouched ==
  [][\A o \in Obj : store[o].kind # "free"
                    /\ (\E p \in Unheld : Implies(store[o].label.integrity, Only(p)))
                    => store'[o] = store[o] /\ holds'[o] = holds[o]]_vars

\* An invocation runs in a VM that is less tainted than its label.
VmLessTainted ==
  \A w \in Worker : th[w].pc = "run" => Protects(th[w].cur, th[w].seen)

=============================================================================
