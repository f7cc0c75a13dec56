------------------------------- MODULE Cluster -------------------------------
(***************************************************************************)
(* The scheduler process with the machines and clients around it: the      *)
(* scheduling thread (sched/mod.rs), the connection handlers               *)
(* (sched/rpc_server.rs), the worker threads of multivm processes          *)
(* (worker.rs, resource_manager.rs, bins/multivm) and the gateway threads  *)
(* that invoke functions (webfront/src/init.rs).  The scheduler's tables   *)
(* are those of GlobalManager; each machine's VM cache is a pool of        *)
(* VmPool.                                                                 *)
(*                                                                         *)
(* Every connection carries two FIFO streams.  The scheduler runs one      *)
(* handler thread per connection, which serves one request at a time; only *)
(* the manager's mutex orders handlers and the scheduling thread.          *)
(*                                                                         *)
(* A task is an index of `tasks`.  It stands for the invocation and for    *)
(* the uuid the handler gives it: the two are in bijection.                *)
(***************************************************************************)
EXTENDS GlobalManager

CONSTANTS
  Client,     \* gateway connections, one request at a time each
  Checked,    \* the gateway connections that are pinged before they are used
  Memory, TotalMem,
  QueueCap,   \* capacity of the request queue (--qcap)
  MaxTasks,   \* bound: invocations made in a behaviour
  Nested,     \* SUBSET BOOLEAN: sync flags of calls made by functions
  Flows,      \* SUBSET BOOLEAN: outcomes of the label check on a cached VM
  RunMayFail, \* BOOLEAN: an execution may fail (five times in a row)
  Faulty      \* the machines that may crash or be shut down

VM == INSTANCE VmPool

ASSUME ConnAssumption == /\ Client \cap Worker = {}
                         /\ Client \cap Node = {}
                         /\ Worker \cap Node = {}
ASSUME BoundAssumption == QueueCap \in Nat /\ MaxTasks \in Nat
ASSUME ChoiceAssumption == /\ Nested \subseteq BOOLEAN /\ Flows \subseteq BOOLEAN
                           /\ RunMayFail \in BOOLEAN /\ Faulty \subseteq Node
ASSUME MemoryAssumption == \A f \in Function : Memory[f] \in Nat \ {0}
ASSUME NoneIsNoTask     == None \notin Nat

VARIABLES
  waitList,  \* ResourceManager.wait_list: task -> connection to answer
  queue,     \* the bounded request queue
  sched,     \* the scheduling thread: pc, its task and the worker it found
  tasks,     \* the invocations made so far
  serving,   \* per connection: a task whose handler has queued it and has
             \* still to register the connection in wait_list, or None
  up, down,  \* per connection: the streams to and from the scheduler
  cl,        \* the gateway threads
  wk,        \* the worker threads
  pools,     \* the VM pools of the machines
  gone,      \* worker connections whose far end is closed
  dropping   \* per machine: its DropResource request

nodeVars == <<cl, wk, pools, gone, dropping>>
vars == <<info, cached, idle, waitList, queue, sched, tasks, serving, up, down,
          cl, wk, pools, gone, dropping>>

Conn == Client \cup Worker \cup Node
Task == 1..Len(tasks)

-----------------------------------------------------------------------------
(* Messages and streams. *)

Ping           == [kind |-> "ping"]
GetTask        == [kind |-> "get"]
Invoke(t)      == [kind |-> "invoke", task |-> t]
Finish(t, res) == [kind |-> "finish", task |-> t, res |-> res]
Report(stats)  == [kind |-> "update", stats |-> stats]

Pong           == [kind |-> "pong"]
ProcessTask(t) == [kind |-> "process", task |-> t]
Terminate      == [kind |-> "terminate"]
Return(t, res) == [kind |-> "return", task |-> t, res |-> res]

\* What the scheduler writes to a closed connection is lost.
Delivered(c, m) == IF c \in gone THEN down ELSE [down EXCEPT ![c] = Append(@, m)]

Received(c, kind) == down[c] # <<>> /\ Head(down[c]).kind = kind
Requested(c, kind) == /\ serving[c] = None
                      /\ up[c] # <<>>
                      /\ Head(up[c]).kind = kind

ReadUp(c)   == up' = [up EXCEPT ![c] = Tail(@)]
ReadDown(c) == down' = [down EXCEPT ![c] = Tail(@)]
Send(c, m)  == up' = [up EXCEPT ![c] = Append(@, m)]

\* cvar.notify_one: there is one waiter at most, the scheduling thread.
Notified == [sched EXCEPT !.pc = IF @ = "wait" THEN "find" ELSE @]

Init ==
  /\ GMInit
  /\ waitList = EmptyMap
  /\ queue    = <<>>
  /\ sched    = [pc |-> "recv", task |-> None, worker |-> None]
  /\ tasks    = <<>>
  /\ serving  = [c \in Conn |-> None]
  /\ up       = [c \in Conn |-> <<>>]
  /\ down     = [c \in Conn |-> <<>>]
  /\ cl       = [c \in Client |-> [pc |-> "ready", task |-> None]]
  /\ wk       = [w \in Worker |-> [pc |-> "get", task |-> None, res |-> "none"]]
  /\ pools    = [n \in Node |-> VM!FreshPool]
  /\ gone     = {}
  /\ dropping = [n \in Node |-> "unsent"]

-----------------------------------------------------------------------------
(* The gateway: a pooled connection is pinged, used for one synchronous      *)
(* invocation, and blocks for the answer.                                    *)

ClientPing(c) ==
  /\ c \in Checked
  /\ cl[c].pc = "ready"
  /\ Len(tasks) < MaxTasks
  /\ Send(c, Ping)
  /\ cl' = [cl EXCEPT ![c].pc = "ping"]
  /\ UNCHANGED <<gmVars, waitList, queue, sched, tasks, serving, down, wk, pools, gone, dropping>>

ClientInvoke(c, f) ==
  /\ Len(tasks) < MaxTasks
  /\ \/ cl[c].pc = "ping" /\ Received(c, "pong") /\ ReadDown(c)
     \/ c \notin Checked /\ cl[c].pc = "ready" /\ UNCHANGED down
  /\ tasks' = Append(tasks, [fn |-> f, sync |-> TRUE, from |-> c])
  /\ Send(c, Invoke(Len(tasks) + 1))
  /\ cl' = [cl EXCEPT ![c] = [pc |-> "wait", task |-> Len(tasks) + 1]]
  /\ UNCHANGED <<gmVars, waitList, queue, sched, serving, wk, pools, gone, dropping>>

ClientReturn(c) ==
  /\ cl[c].pc = "wait"
  /\ Received(c, "return")
  /\ ReadDown(c)
  /\ cl' = [cl EXCEPT ![c] = [pc |-> "ready", task |-> None]]
  /\ UNCHANGED <<gmVars, waitList, queue, sched, tasks, serving, up, wk, pools, gone, dropping>>

-----------------------------------------------------------------------------
(* The connection handlers: RpcServer::serve.                                *)

ServePing(c) ==
  /\ Requested(c, "ping")
  /\ ReadUp(c)
  /\ down' = Delivered(c, Pong)
  /\ UNCHANGED <<gmVars, waitList, queue, sched, tasks, serving, nodeVars>>

\* Mutant of ServeGet: nobody is notified.
ServeGetSilently(w) ==
  /\ Requested(w, "get")
  /\ ReadUp(w)
  /\ AddIdle(w)
  /\ UNCHANGED <<waitList, queue, sched, tasks, serving, down, nodeVars>>

ServeGet(w) ==
  /\ Requested(w, "get")
  /\ ReadUp(w)
  /\ AddIdle(w)
  /\ sched' = Notified
  /\ UNCHANGED <<waitList, queue, tasks, serving, down, nodeVars>>

\* Mutant of ServeFinish: the connection that has waited longest is answered.
ServeFinishFirst(w) ==
  LET t == Head(up[w]).task
      first == CHOOSE u \in DOMAIN waitList : \A v \in DOMAIN waitList : u <= v
  IN  /\ Requested(w, "finish")
      /\ ReadUp(w)
      /\ waitList' = IF waitList = EmptyMap THEN waitList ELSE Drop(waitList, first)
      /\ down' = IF waitList = EmptyMap THEN down
                 ELSE Delivered(waitList[first], Return(t, Head(up[w]).res))
      /\ UNCHANGED <<gmVars, queue, sched, tasks, serving, nodeVars>>

\* Mutant of ServeFinish: the waiting connection is forgotten, not answered.
ServeFinishMute(w) ==
  /\ Requested(w, "finish")
  /\ ReadUp(w)
  /\ waitList' = Drop(waitList, Head(up[w]).task)
  /\ UNCHANGED <<gmVars, queue, sched, tasks, serving, down, nodeVars>>

ServeFinish(w) ==
  LET t == Head(up[w]).task
  IN  /\ Requested(w, "finish")
      /\ ReadUp(w)
      /\ waitList' = Drop(waitList, t)
      /\ down' = IF t \in DOMAIN waitList
                 THEN Delivered(waitList[t], Return(t, Head(up[w]).res))
                 ELSE down
      /\ UNCHANGED <<gmVars, queue, sched, tasks, serving, nodeVars>>

\* Mutant of ServeInvoke: the queue has no bound.
ServeInvokeUnbounded(c) ==
  LET t == Head(up[c]).task
  IN  /\ Requested(c, "invoke")
      /\ ReadUp(c)
      /\ queue' = Append(queue, t)
      /\ serving' = [serving EXCEPT ![c] = IF tasks[t].sync THEN t ELSE None]
      /\ UNCHANGED <<gmVars, waitList, sched, tasks, down, nodeVars>>

\* Mutant of ServeInvoke: after the answer to a full queue the handler goes on.
ServeInvokeOn(c) ==
  LET t == Head(up[c]).task
  IN  /\ Requested(c, "invoke")
      /\ ReadUp(c)
      /\ \/ Len(queue) < QueueCap /\ queue' = Append(queue, t) /\ UNCHANGED down
         \/ Len(queue) >= QueueCap /\ down' = Delivered(c, Return(t, "full")) /\ UNCHANGED queue
      /\ serving' = [serving EXCEPT ![c] = IF tasks[t].sync THEN t ELSE None]
      /\ UNCHANGED <<gmVars, waitList, sched, tasks, nodeVars>>

\* LabeledInvoke, first half: try_send.  A full queue is answered on the
\* connection whether or not the invocation is synchronous.
ServeInvoke(c) ==
  LET t == Head(up[c]).task
  IN  /\ Requested(c, "invoke")
      /\ ReadUp(c)
      /\ \/ /\ Len(queue) < QueueCap
            /\ queue' = Append(queue, t)
            /\ serving' = [serving EXCEPT ![c] = IF tasks[t].sync THEN t ELSE None]
            /\ UNCHANGED down
         \/ /\ Len(queue) >= QueueCap
            /\ down' = Delivered(c, Return(t, "full"))
            /\ UNCHANGED <<queue, serving>>
      /\ UNCHANGED <<gmVars, waitList, sched, tasks, nodeVars>>

\* LabeledInvoke, second half: the task is already in the queue when its
\* connection is registered.
ServeRegister(c) ==
  /\ serving[c] # None
  /\ waitList' = Put(waitList, serving[c], c)
  /\ serving' = [serving EXCEPT ![c] = None]
  /\ UNCHANGED <<gmVars, queue, sched, tasks, up, down, nodeVars>>

ServeUpdate(n) ==
  /\ Requested(n, "update")
  /\ ReadUp(n)
  /\ Update(n, Head(up[n]).stats)
  /\ sched' = Notified
  /\ UNCHANGED <<waitList, queue, tasks, serving, down, nodeVars>>

\* DropResource comes on a connection of its own; nobody is notified.
ServeDrop(n) ==
  LET told(c) == Cardinality({i \in 1..Len(Terminated(n)) : Terminated(n)[i] = c})
  IN  /\ dropping[n] = "sent"
      /\ dropping' = [dropping EXCEPT ![n] = "handled"]
      /\ Remove(n)
      /\ down' = [c \in Conn |->
                    IF c \in gone THEN down[c]
                    ELSE down[c] \o [i \in 1..told(c) |-> Terminate]]
      /\ UNCHANGED <<waitList, queue, sched, tasks, serving, up, cl, wk, pools, gone>>

-----------------------------------------------------------------------------
(* The scheduling thread: schedule().                                        *)

SchedRecv ==
  /\ sched.pc = "recv"
  /\ queue # <<>>
  /\ queue' = Tail(queue)
  /\ sched' = [pc |-> "find", task |-> Head(queue), worker |-> None]
  /\ UNCHANGED <<gmVars, waitList, tasks, serving, up, down, nodeVars>>

\* Mutant of SchedFind: a task that finds no idle worker is dropped.
SchedFindDrops ==
  /\ sched.pc = "find"
  /\ \E r \in Worker \cup {None} :
       /\ FindIdle(tasks[sched.task].fn, r)
       /\ sched' = IF r = None THEN [pc |-> "recv", task |-> None, worker |-> None]
                   ELSE [sched EXCEPT !.pc = "write", !.worker = r]
  /\ UNCHANGED <<waitList, queue, tasks, serving, up, down, nodeVars>>

SchedFind ==
  /\ sched.pc = "find"
  /\ \E r \in Worker \cup {None} :
       /\ FindIdle(tasks[sched.task].fn, r)
       /\ sched' = [sched EXCEPT !.pc = IF r = None THEN "wait" ELSE "write",
                                 !.worker = r]
  /\ UNCHANGED <<waitList, queue, tasks, serving, up, down, nodeVars>>

\* A condition variable may wake its waiter without a notification.
SchedSpuriousWake ==
  /\ sched.pc = "wait"
  /\ sched' = [sched EXCEPT !.pc = "find"]
  /\ UNCHANGED <<gmVars, waitList, queue, tasks, serving, up, down, nodeVars>>

\* Mutant of SchedWrite: a write that succeeded does not leave the loop.
SchedWriteAgain ==
  /\ sched.pc = "write"
  /\ down' = Delivered(sched.worker, ProcessTask(sched.task))
  /\ sched' = [sched EXCEPT !.pc = "find", !.worker = None]
  /\ UNCHANGED <<gmVars, waitList, queue, tasks, serving, up, nodeVars>>

\* message::write to the worker: a write to a closed connection may still
\* succeed, and the task is lost, or fail, and another worker is looked for.
SchedWrite ==
  /\ sched.pc = "write"
  /\ \/ /\ down' = Delivered(sched.worker, ProcessTask(sched.task))
        /\ sched' = [pc |-> "recv", task |-> None, worker |-> None]
     \/ /\ sched.worker \in gone
        /\ sched' = [sched EXCEPT !.pc = "find", !.worker = None]
        /\ UNCHANGED down
  /\ UNCHANGED <<gmVars, waitList, queue, tasks, serving, up, nodeVars>>

-----------------------------------------------------------------------------
(* Worker threads: wait_and_process.                                         *)

\* rpc::get writes the request, then blocks for a response.
WorkerGet(w) ==
  /\ wk[w].pc = "get"
  /\ Send(w, GetTask)
  /\ wk' = [wk EXCEPT ![w].pc = "await"]
  /\ UNCHANGED <<gmVars, waitList, queue, sched, tasks, serving, down, cl, pools, gone, dropping>>

\* The response is read: a task; the end of the thread; or a TaskReturn that
\* nobody waited for, which does not decode as a Response.
WorkerRead(w) ==
  /\ wk[w].pc = "await"
  /\ down[w] # <<>>
  /\ ReadDown(w)
  /\ \/ /\ Received(w, "process")
        /\ wk' = [wk EXCEPT ![w].pc = "alloc", ![w].task = Head(down[w]).task]
        /\ UNCHANGED gone
     \/ /\ Received(w, "terminate")
        /\ wk' = [wk EXCEPT ![w].pc = "dead"]
        /\ gone' = gone \cup {w}
     \/ /\ Received(w, "return")
        /\ wk' = [wk EXCEPT ![w].pc = "get"]
        /\ UNCHANGED gone
  /\ UNCHANGED <<gmVars, waitList, queue, sched, tasks, serving, up, cl, pools, dropping>>

\* try_allocate: one lock, one report for each manager method it calls.  flows
\* is the label check on a cached VM.  The runs give the functions that fit the
\* same memory and a machine room for one VM per worker, so that eviction ends
\* (LocalManager has the other cases).
WorkerAlloc(w, flows) ==
  LET n      == NodeOf[w]
      p      == pools[n]
      f      == tasks[wk[w].task].fn
      hit    == VM!CachedVms(p, f) > 0
      new    == VM!NewVm(p, f)
      tried  == IF hit THEN <<Report(VM!Taken(p, f).cache), Report(p.cache)>>
                       ELSE <<Report(p.cache)>>
      Sent(reports) == up' = [up EXCEPT ![n] = @ \o reports]
  IN  /\ wk[w].pc = "alloc"
      /\ \/ /\ hit /\ flows
            /\ pools' = [pools EXCEPT ![n] = VM!Taken(p, f)]
            /\ Sent(<<Head(tried)>>)
            /\ wk' = [wk EXCEPT ![w].pc = "run"]
         \/ /\ ~(hit /\ flows)
            /\ new.res = "ok"
            /\ pools' = [pools EXCEPT ![n] = new.pool]
            /\ Sent(Append(tried, Report(new.pool.cache)))
            /\ wk' = [wk EXCEPT ![w].pc = "run"]
         \/ /\ ~(hit /\ flows)
            /\ new.res = "exhausted"
            /\ Sent(Append(tried, Report(p.cache)))
            /\ wk' = [wk EXCEPT ![w].pc = "finish", ![w].res = "exhausted"]
            /\ UNCHANGED pools
      /\ UNCHANGED <<gmVars, waitList, queue, sched, tasks, serving, down, cl, gone, dropping>>

\* The function invokes another one (dent_invoke) on the worker's connection,
\* and blocks for the answer if the call is synchronous.
WorkerInvoke(w, f, sync) ==
  /\ wk[w].pc = "run"
  /\ Len(tasks) < MaxTasks
  /\ tasks' = Append(tasks, [fn |-> f, sync |-> sync, from |-> w])
  /\ Send(w, Invoke(Len(tasks) + 1))
  /\ wk' = [wk EXCEPT ![w].pc = IF sync THEN "call" ELSE "run"]
  /\ UNCHANGED <<gmVars, waitList, queue, sched, serving, down, cl, pools, gone, dropping>>

\* The blocked call reads one message.  Only an execution's own answer has a
\* payload: unwrap() of a missing one panics and ends the thread.  A
\* ProcessTask does not decode as a TaskReturn and is lost; a Terminate does,
\* with an empty payload.
WorkerReply(w) ==
  /\ wk[w].pc = "call"
  /\ down[w] # <<>>
  /\ ReadDown(w)
  /\ LET m      == Head(down[w])
         panics == m.kind = "return" /\ m.res # "ok"
     IN  /\ wk' = [wk EXCEPT ![w].pc = IF panics THEN "dead" ELSE "run"]
         /\ gone' = IF panics THEN gone \cup {w} ELSE gone
  /\ UNCHANGED <<gmVars, waitList, queue, sched, tasks, serving, up, cl, pools, dropping>>

\* processor.run ends: the VM is cached, or deleted after the last failed try.
WorkerRun(w) ==
  LET n == NodeOf[w]
      f == tasks[wk[w].task].fn
  IN  /\ wk[w].pc = "run"
      /\ \E ok \in IF RunMayFail THEN BOOLEAN ELSE {TRUE} :
           LET p == IF ok THEN VM!Released(pools[n], f) ELSE VM!Deleted(pools[n], f)
           IN  /\ pools' = [pools EXCEPT ![n] = p]
               /\ Send(n, Report(p.cache))
               /\ wk' = [wk EXCEPT ![w].pc = "finish",
                                   ![w].res = IF ok THEN "ok" ELSE "failed"]
      /\ UNCHANGED <<gmVars, waitList, queue, sched, tasks, serving, down, cl, gone, dropping>>

\* rpc::finish, after which the thread is back at the head of its loop.
WorkerFinish(w) ==
  /\ wk[w].pc = "finish"
  /\ Send(w, Finish(wk[w].task, wk[w].res))
  /\ wk' = [wk EXCEPT ![w] = [pc |-> "get", task |-> None, res |-> "none"]]
  /\ UNCHANGED <<gmVars, waitList, queue, sched, tasks, serving, down, cl, pools, gone, dropping>>

-----------------------------------------------------------------------------
(* Machines that stop. *)

Staff(n) == {w \in Worker : NodeOf[w] = n}
Alive(n) == \E w \in Staff(n) : wk[w].pc # "dead"

\* Ctrl-C on multivm: DropResource is sent; the process exits next (Crash).
CtrlC(n) ==
  /\ Alive(n)
  /\ dropping[n] = "unsent"
  /\ dropping' = [dropping EXCEPT ![n] = "sent"]
  /\ UNCHANGED <<gmVars, waitList, queue, sched, tasks, serving, up, down, cl, wk, pools, gone>>

\* The multivm process ends, wherever its threads are, with its VMs and what it
\* has not read.  What its threads had sent can still be read.
Crash(n) ==
  /\ Alive(n)
  /\ wk' = [w \in Worker |-> IF w \in Staff(n) THEN [pc |-> "dead", task |-> None, res |-> "none"]
                                             ELSE wk[w]]
  /\ down' = [c \in Conn |-> IF c \in Staff(n) THEN <<>> ELSE down[c]]
  /\ pools' = [pools EXCEPT ![n] = VM!FreshPool]
  /\ gone' = gone \cup Staff(n)
  /\ UNCHANGED <<gmVars, waitList, queue, sched, tasks, serving, up, cl, dropping>>

-----------------------------------------------------------------------------

Serve(c) == \/ ServePing(c)
            \/ ServeInvoke(c)
            \/ ServeRegister(c)
            \/ c \in Worker /\ (ServeGet(c) \/ ServeFinish(c))
            \/ c \in Node /\ (ServeUpdate(c) \/ ServeDrop(c))

Schedule == SchedRecv \/ SchedFind \/ SchedWrite

\* A connection that was pinged is used.
ClientStep(c) == \/ cl[c].pc = "ping" /\ \E f \in Function : ClientInvoke(c, f)
                 \/ ClientReturn(c)

WorkerStep(w) == \/ WorkerGet(w)
                 \/ WorkerRead(w)
                 \/ \E flows \in Flows : WorkerAlloc(w, flows)
                 \/ WorkerRun(w)
                 \/ WorkerReply(w)
                 \/ WorkerFinish(w)

Next ==
  \/ \E c \in Conn : Serve(c)
  \/ Schedule
  \/ SchedSpuriousWake
  \/ \E c \in Client : \/ ClientPing(c)
                       \/ \E f \in Function : ClientInvoke(c, f)
                       \/ ClientReturn(c)
  \/ \E w \in Worker : \/ WorkerStep(w)
                       \/ \E f \in Function, sync \in Nested : WorkerInvoke(w, f, sync)
  \/ \E n \in Faulty : CtrlC(n) \/ Crash(n)

\* Threads run, and streams deliver what was written; nobody is obliged to
\* send requests, and nothing wakes the scheduling thread but notify_one.
Fairness ==
  /\ \A c \in Conn : WF_vars(Serve(c))
  /\ WF_vars(Schedule)
  /\ \A c \in Client : WF_vars(ClientStep(c))
  /\ \A w \in Worker : WF_vars(WorkerStep(w))

Spec == Init /\ [][Next]_vars /\ Fairness

-----------------------------------------------------------------------------
(* Properties. *)

Results == {"none", "ok", "failed", "exhausted", "full"}

\* Types.  The tables and threads name only invocations that were made, and the
\* queue stays within the capacity that try_send enforces.
TypeOK ==
  /\ GMTypeOK
  /\ DOMAIN waitList \subseteq Task /\ Range(waitList) \subseteq Client \cup Worker
  /\ Range(queue) \subseteq Task /\ Len(queue) <= QueueCap
  /\ sched.pc \in {"recv", "find", "wait", "write"}
  /\ sched.task \in Task \cup {None} /\ sched.worker \in Worker \cup {None}
  /\ serving \in [Conn -> Task \cup {None}]
  /\ cl \in [Client -> [pc : {"ready", "ping", "wait"}, task : Task \cup {None}]]
  /\ wk \in [Worker -> [pc : {"get", "await", "alloc", "run", "call", "finish", "dead"},
                        task : Task \cup {None}, res : Results]]
  /\ gone \subseteq Worker
  /\ dropping \in [Node -> {"unsent", "sent", "handled"}]

\* The places a task can be in on its way from LabeledInvoke to FinishTask.
Places(t) ==
       {<<"request", c>> : c \in {c \in Conn : \E i \in DOMAIN up[c] :
                                up[c][i].kind = "invoke" /\ up[c][i].task = t}}
  \cup {<<"queue", i>> : i \in {i \in DOMAIN queue : queue[i] = t}}
  \cup {<<"scheduler">> : x \in {x \in {sched.task} : x = t}}
  \cup {<<"dispatch", w>> : w \in {w \in Worker : \E i \in DOMAIN down[w] :
                                down[w][i].kind = "process" /\ down[w][i].task = t}}
  \cup {<<"worker", w>> : w \in {w \in Worker : wk[w].pc # "dead" /\ wk[w].task = t}}
  \cup {<<"finish", w>> : w \in {w \in Worker : \E i \in DOMAIN up[w] :
                                up[w][i].kind = "finish" /\ up[w][i].task = t}}

\* A task is never duplicated: however writes fail and are retried and
\* machines die, it is in the hands of at most one actor, so it is never
\* executed by two workers.
NeverDuplicated == \A t \in Task : Cardinality(Places(t)) <= 1

\* A gateway thread is only ever sent the answer of the invocation it is
\* waiting for, and at most one answer.
RepliesMatch ==
  \A c \in Client : \A i \in DOMAIN down[c] :
    down[c][i].kind = "return" => /\ cl[c].pc = "wait"
                                  /\ down[c][i].task = cl[c].task
                                  /\ Len(down[c]) = 1

\* A connection of the gateway is registered in wait_list only for the request that
\* its thread still waits for, and only while no answer is on its way: no entry is
\* left behind by a request that was refused or answered, to be answered again.
RegisteredWaits ==
  \A t \in DOMAIN waitList : LET c == waitList[t] IN
    c \in Client => cl[c].pc = "wait" /\ cl[c].task = t /\ down[c] = <<>>

\* A worker in an idle vector is blocked in rpc::get, and is listed once.
ListedIsIdle ==
  \A n \in DOMAIN idle : \A i \in DOMAIN idle[n] :
    /\ wk[idle[n][i]].pc = "await"
    /\ \A j \in DOMAIN idle[n] : idle[n][i] = idle[n][j] => i = j

\* The scheduler distributes requests to idle workers: the worker that a task
\* is written to is not processing another one.
DispatchedToIdle ==
  sched.pc = "write" => wk[sched.worker].pc \notin {"alloc", "run", "call", "finish"}

\* A task in the queue is given to a worker, which sends its FinishTask: the task
\* is neither stuck nor dropped.
QueuedTaskFinishes ==
  \A t \in 1..MaxTasks :
    t \in Range(queue) ~> \E w \in Worker : <<"finish", w>> \in Places(t)

\* "wait till there is an idle worker": the scheduling thread does not stay
\* blocked while a worker is idle.
IdleWorkerIsUsed ==
  sched.pc = "wait" /\ DOMAIN idle # {} ~> sched.pc # "wait"

\* A gateway thread whose connection is registered before its task finishes is
\* answered: it leaves wait_for_completion.
RegisteredAnswered ==
  \A t \in 1..MaxTasks :
    t \in DOMAIN waitList /\ Places(t) # {} ~> \A c \in Client : cl[c].task # t

\* Every gateway thread that made a synchronous invocation is answered.
SyncAnswered == \A c \in Client : cl[c].pc = "wait" ~> cl[c].pc = "ready"

=============================================================================
