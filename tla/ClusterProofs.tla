---------------------------- MODULE ClusterProofs ----------------------------
(***************************************************************************)
(* Proofs about the scheduler with its machines and clients, for any       *)
(* nodes, workers, clients, functions, queue capacity and number of tasks. *)
(*                                                                         *)
(* Custody.  Base says that the messages in every stream are of the kinds  *)
(* that side sends, that a task is in one place at most (OnePlace), once   *)
(* (UpOnce, DownOnce, QueueOnce), and that only tasks that were made are   *)
(* anywhere (MadeOnly).  A step moves at most one task from the place it   *)
(* reads it to the place it writes it.  This holds with crashes, lost      *)
(* writes and writes that are repeated.                                    *)
(*                                                                         *)
(* Clients.  ClientOK says how far the one request of a gateway connection *)
(* has come: it is in the stream, its handler holds it, it is registered,  *)
(* or its answer is in the stream back.  FinishTask answers the connection *)
(* registered for that task, so nothing of an earlier request is left when *)
(* the next one is sent.                                                   *)
(*                                                                         *)
(* Workers.  WorkerOK says what can be in the streams of a worker at each  *)
(* point of its loop, and when it can be listed.  It is not an invariant:  *)
(* the refusal of an asynchronous call is an answer that nobody expects    *)
(* (AsyncFits excludes it), and machines that stop leave entries behind    *)
(* (Faulty = {} excludes them).                                            *)
(***************************************************************************)
EXTENDS Cluster, GlobalManagerProofs, FiniteSetTheorems, SequenceTheorems

-----------------------------------------------------------------------------
(* Streams. *)

\* The tasks that the messages of one kind in a stream carry, and that no two of
\* them carry the same.
Carried(s, k) == {s[i].task : i \in {j \in 1..Len(s) : s[j].kind = k}}
Once(s, k)    == \A i, j \in 1..Len(s) :
                   s[i].kind = k /\ s[j].kind = k /\ s[i].task = s[j].task => i = j

LEMMA CarriedBy ==
  ASSUME NEW s, NEW k
  PROVE  \A t : t \in Carried(s, k) <=> \E i \in 1..Len(s) : s[i].kind = k /\ s[i].task = t
BY DEF Carried

\* A message is read: what it carries leaves the stream.
LEMMA TailCarried ==
  ASSUME NEW S, NEW s \in Seq(S), s # <<>>, NEW k, Once(s, k)
  PROVE  /\ Once(Tail(s), k)
         /\ Head(s).kind = k => Carried(Tail(s), k) = Carried(s, k) \ {Head(s).task}
         /\ Head(s).kind # k => Carried(Tail(s), k) = Carried(s, k)
         /\ Head(s).kind = k => Head(s).task \in Carried(s, k)
         /\ Carried(Tail(s), k) \subseteq Carried(s, k)
<1> DEFINE q == Tail(s)
<1>1. /\ Len(s) \in Nat /\ Len(s) >= 1 /\ Len(q) = Len(s) - 1 /\ Head(s) = s[1]
      /\ \A i \in 1..Len(q) : q[i] = s[i + 1] /\ i + 1 \in 1..Len(s)
      /\ \A i \in 2..Len(s) : s[i] = q[i - 1] /\ i - 1 \in 1..Len(q)
  OBVIOUS
<1> HIDE DEF q
<1>2. Once(q, k)
  BY <1>1 DEF Once
<1>3. Carried(q, k) \subseteq Carried(s, k)
  <2> SUFFICES ASSUME NEW t \in Carried(q, k)
               PROVE  t \in Carried(s, k)
    OBVIOUS
  <2>1. PICK i \in 1..Len(q) : q[i].kind = k /\ q[i].task = t
    BY CarriedBy
  <2>2. i + 1 \in 1..Len(s) /\ s[i + 1].kind = k /\ s[i + 1].task = t
    BY <1>1, <2>1
  <2> QED BY <2>2, CarriedBy
<1>4. ASSUME NEW t \in Carried(s, k), t \notin Carried(q, k)
      PROVE  Head(s).kind = k /\ t = Head(s).task
  <2>1. PICK i \in 1..Len(s) : s[i].kind = k /\ s[i].task = t
    BY CarriedBy
  <2>2. CASE i = 1
    BY <1>1, <2>1, <2>2
  <2>3. CASE i # 1
    <3>1. i \in 2..Len(s)
      BY <1>1, <2>3
    <3>2. i - 1 \in 1..Len(q) /\ q[i - 1].kind = k /\ q[i - 1].task = t
      BY <1>1, <2>1, <3>1
    <3>3. t \in Carried(q, k)
      BY <3>2, CarriedBy
    <3> QED BY <1>4, <3>3
  <2> QED BY <2>2, <2>3
<1>5. ASSUME Head(s).kind = k, Head(s).task \in Carried(q, k)
      PROVE  FALSE
  <2>1. PICK i \in 1..Len(q) : q[i].kind = k /\ q[i].task = Head(s).task
    <3> DEFINE t == Head(s).task
    <3>1. t \in Carried(q, k)
      BY <1>5
    <3> HIDE DEF t
    <3>2. \E i \in 1..Len(q) : q[i].kind = k /\ q[i].task = t
      BY <3>1, CarriedBy
    <3> QED BY <3>2 DEF t
  <2>2. s[i + 1].kind = k /\ s[i + 1].task = s[1].task /\ s[1].kind = k /\ i + 1 \in 1..Len(s)
        /\ 1 \in 1..Len(s)
    BY <1>1, <1>5, <2>1
  <2>3. i + 1 = 1
    BY <2>2 DEF Once
  <2> QED BY <2>3
<1>6. Head(s).kind = k => Head(s).task \in Carried(s, k)
  <2>1. 1 \in 1..Len(s)
    BY <1>1
  <2> QED BY <1>1, <2>1, CarriedBy
<1>7. Head(s).kind = k => Carried(q, k) = Carried(s, k) \ {Head(s).task}
  BY <1>3, <1>4, <1>5
<1>8. Head(s).kind # k => Carried(q, k) = Carried(s, k)
  BY <1>3, <1>4
<1> QED BY <1>2, <1>3, <1>6, <1>7, <1>8 DEF q

\* Messages that carry no task of the kind are written.
LEMMA ConcatCarried ==
  ASSUME NEW S, NEW s \in Seq(S), NEW T, NEW r \in Seq(T), NEW k, Once(s, k),
         \A i \in 1..Len(r) : r[i].kind # k
  PROVE  Once(s \o r, k) /\ Carried(s \o r, k) = Carried(s, k)
<1> DEFINE q == s \o r
<1>1. /\ Len(s) \in Nat /\ Len(r) \in Nat /\ Len(q) = Len(s) + Len(r)
      /\ \A i \in 1..Len(s) : q[i] = s[i]
      /\ \A i \in 1..Len(q) : i \notin 1..Len(s) => q[i] = r[i - Len(s)] /\ i - Len(s) \in 1..Len(r)
  OBVIOUS
<1> HIDE DEF q
<1>2. \A i \in 1..Len(q) : q[i].kind = k => i \in 1..Len(s) /\ q[i] = s[i]
  BY <1>1
<1>3. \A i \in 1..Len(s) : i \in 1..Len(q)
  BY <1>1
<1>4. Once(q, k)
  BY <1>2 DEF Once
<1>5. ASSUME NEW t \in Carried(q, k)
      PROVE  t \in Carried(s, k)
  <2>1. PICK i \in 1..Len(q) : q[i].kind = k /\ q[i].task = t
    BY CarriedBy
  <2>2. i \in 1..Len(s) /\ s[i].kind = k /\ s[i].task = t
    BY <1>2, <2>1
  <2> QED BY <2>2, CarriedBy
<1>6. ASSUME NEW t \in Carried(s, k)
      PROVE  t \in Carried(q, k)
  <2>1. PICK i \in 1..Len(s) : s[i].kind = k /\ s[i].task = t
    BY CarriedBy
  <2>2. i \in 1..Len(q) /\ q[i].kind = k /\ q[i].task = t
    BY <1>1, <1>3, <2>1
  <2> QED BY <2>2, CarriedBy
<1> QED BY <1>4, <1>5, <1>6 DEF q

LEMMA AppendOther ==
  ASSUME NEW S, NEW s \in Seq(S), NEW m, NEW k, Once(s, k), m.kind # k
  PROVE  Once(Append(s, m), k) /\ Carried(Append(s, m), k) = Carried(s, k)
<1> DEFINE q == Append(s, m)
<1>1. /\ Len(s) \in Nat /\ Len(q) = Len(s) + 1 /\ q[Len(s) + 1] = m
      /\ \A i \in 1..Len(s) : q[i] = s[i]
  OBVIOUS
<1> HIDE DEF q
<1>2. \A i \in 1..Len(q) :
        q[i].kind = k => i \in 1..Len(s) /\ q[i] = s[i]
  BY <1>1
<1>3. \A i \in 1..Len(s) : i \in 1..Len(q)
  BY <1>1
<1>4. Once(q, k)
  BY <1>2 DEF Once
<1>5. ASSUME NEW t \in Carried(q, k)
      PROVE  t \in Carried(s, k)
  <2>1. PICK i \in 1..Len(q) : q[i].kind = k /\ q[i].task = t
    BY CarriedBy
  <2>2. i \in 1..Len(s) /\ s[i].kind = k /\ s[i].task = t
    BY <1>2, <2>1
  <2> QED BY <2>2, CarriedBy
<1>6. ASSUME NEW t \in Carried(s, k)
      PROVE  t \in Carried(q, k)
  <2>1. PICK i \in 1..Len(s) : s[i].kind = k /\ s[i].task = t
    BY CarriedBy
  <2>2. i \in 1..Len(q) /\ q[i].kind = k /\ q[i].task = t
    BY <1>1, <1>3, <2>1
  <2> QED BY <2>2, CarriedBy
<1> QED BY <1>4, <1>5, <1>6 DEF q

\* A message with a task that no other of its kind carries is written.
LEMMA AppendCarried ==
  ASSUME NEW S, NEW s \in Seq(S), NEW m, NEW k, m.kind = k, Once(s, k),
         m.task \notin Carried(s, k)
  PROVE  /\ Once(Append(s, m), k)
         /\ Carried(Append(s, m), k) = Carried(s, k) \cup {m.task}
<1> DEFINE r == Append(s, m)
<1>1. /\ Len(s) \in Nat /\ Len(r) = Len(s) + 1 /\ r[Len(s) + 1] = m
      /\ \A i \in 1..Len(s) : r[i] = s[i]
  OBVIOUS
<1> HIDE DEF r
<1>2. \A i \in 1..Len(r) : i \in 1..Len(s) \/ i = Len(s) + 1
  BY <1>1
<1>3. (\A i \in 1..Len(s) : i \in 1..Len(r)) /\ Len(s) + 1 \in 1..Len(r)
  BY <1>1
<1>4. ASSUME NEW i \in 1..Len(s), s[i].kind = k, s[i].task = m.task
      PROVE  FALSE
  BY <1>4, CarriedBy
<1>5. Once(r, k)
  BY <1>1, <1>2, <1>4 DEF Once
<1>6. Carried(r, k) = Carried(s, k) \cup {m.task}
  BY <1>1, <1>2, <1>3, CarriedBy
<1> QED BY <1>5, <1>6 DEF r

-----------------------------------------------------------------------------
(* The invariant: types of what the tables, threads and streams hold. *)

Caches == UNION {[D -> Nat] : D \in SUBSET Function}

ClientMsg == [kind : {"ping"}] \cup [kind : {"invoke"}, task : Nat]
WorkerMsg == [kind : {"get"}] \cup [kind : {"invoke"}, task : Nat]
               \cup [kind : {"finish"}, task : Nat, res : Results]
NodeMsg   == [kind : {"update"}, stats : Caches]
UpMsg(c)  == IF c \in Client THEN ClientMsg ELSE IF c \in Worker THEN WorkerMsg ELSE NodeMsg
DownMsg   == [kind : {"pong", "terminate"}] \cup [kind : {"process"}, task : Nat]
               \cup [kind : {"return"}, task : Nat, res : Results]

UpTyped   == DOMAIN up = Conn /\ \A c \in Conn : up[c] \in Seq(UpMsg(c))
DownTyped == down \in [Conn -> Seq(DownMsg)]

\* The invocations made, the queue, and the scheduling thread.
TaskRec   == [fn : Function, sync : BOOLEAN, from : Client \cup Worker]
TasksOK   == tasks \in Seq(TaskRec) /\ Len(tasks) <= MaxTasks
QueueOK   == queue \in Seq(Nat) /\ Len(queue) <= QueueCap
SchedRec  == [pc : {"recv", "find", "wait", "write"}, task : Nat \cup {None}, worker : Worker \cup {None}]
SchedOK   == /\ sched \in SchedRec
             /\ sched.pc # "recv" => sched.task \in Nat
             /\ sched.pc = "write" => sched.worker \in Worker

\* Who waits for an answer.
WaitersOK == /\ DOMAIN waitList \subseteq Task
             /\ \A t \in DOMAIN waitList : waitList[t] \in Client \cup Worker
             /\ serving \in [Conn -> Nat \cup {None}]
             /\ \A c \in Conn : serving[c] # None => serving[c] \in Task /\ c \in Client \cup Worker

ClRec     == [pc : {"ready", "ping", "wait"}, task : Nat \cup {None}]
WkRec     == [pc : {"get", "await", "alloc", "run", "call", "finish", "dead"},
              task : Nat \cup {None}, res : Results]
ThreadsOK == /\ cl \in [Client -> ClRec]
             /\ \A c \in Client : cl[c].task # None => cl[c].task \in Task
             /\ wk \in [Worker -> WkRec]
             /\ \A w \in Worker : wk[w].task # None => wk[w].task \in Task
             /\ \A w \in Worker : wk[w].pc \in {"alloc", "run", "call", "finish"} => wk[w].task # None

PoolOK(p)  == DOMAIN p = {"cache", "free"} /\ p.cache \in Caches
MachinesOK == /\ DOMAIN pools = Node /\ \A n \in Node : PoolOK(pools[n])
              /\ gone \subseteq Worker
              /\ dropping \in [Node -> {"unsent", "sent", "handled"}]

-----------------------------------------------------------------------------
(* The invariant: a task is in one place. *)

Requests(c)   == Carried(up[c], "invoke")
Finishing(c)  == Carried(up[c], "finish")
Dispatched(c) == Carried(down[c], "process")
Working(w)    == IF wk[w].pc = "dead" THEN {} ELSE {wk[w].task} \ {None}
Queued        == {queue[i] : i \in 1..Len(queue)}
Scheduled     == {sched.task} \ {None}

\* Task t is in the place of kind k at connection c.
In(t, k, c) ==
  \/ k = "request"   /\ c \in Conn   /\ t \in Requests(c)
  \/ k = "finish"    /\ c \in Conn   /\ t \in Finishing(c)
  \/ k = "dispatch"  /\ c \in Conn   /\ t \in Dispatched(c)
  \/ k = "worker"    /\ c \in Worker /\ t \in Working(c)
  \/ k = "queue"     /\ c = None     /\ t \in Queued
  \/ k = "scheduler" /\ c = None     /\ t \in Scheduled

Kinds == {"request", "finish", "dispatch", "worker", "queue", "scheduler"}

OnePlace == \A t \in Nat : \A k, l \in Kinds : \A c, d \in Conn \cup {None} :
              In(t, k, c) /\ In(t, l, d) => k = l /\ c = d

\* Only invocations that were made are anywhere.
MadeOnly == \A t \in Nat : \A k \in Kinds : \A c \in Conn \cup {None} : In(t, k, c) => t \in Task

UpOnce    == \A c \in Conn : Once(up[c], "invoke") /\ Once(up[c], "finish")
DownOnce  == \A c \in Conn : Once(down[c], "process")
QueueOnce == \A i, j \in 1..Len(queue) : queue[i] = queue[j] => i = j

Typed == /\ GMInv /\ UpTyped /\ DownTyped /\ TasksOK /\ QueueOK /\ SchedOK
         /\ WaitersOK /\ ThreadsOK /\ MachinesOK

Custody == OnePlace /\ MadeOnly /\ UpOnce /\ DownOnce /\ QueueOnce

Base == Typed /\ Custody

-----------------------------------------------------------------------------
(* The invariant: a gateway thread has one request or answer under way. *)

Waits(c) == \E t \in DOMAIN waitList : waitList[t] = c

Calm(c) == serving[c] = None /\ ~Waits(c)

ClientOK(c) ==
  /\ cl[c].pc = "ready" => Calm(c) /\ up[c] = <<>> /\ down[c] = <<>>
  /\ cl[c].pc = "ping" =>
       /\ Calm(c)
       /\ \/ up[c] = <<Ping>> /\ down[c] = <<>>
          \/ up[c] = <<>> /\ down[c] = <<Pong>>
  /\ cl[c].pc = "wait" =>
       /\ cl[c].task \in Nat
       /\ \/ Calm(c) /\ up[c] = <<Invoke(cl[c].task)>> /\ down[c] = <<>>
          \/ serving[c] = cl[c].task /\ ~Waits(c) /\ up[c] = <<>> /\ down[c] = <<>>
          \/ /\ serving[c] = None /\ up[c] = <<>> /\ down[c] = <<>>
             /\ \A t \in DOMAIN waitList : waitList[t] = c => t = cl[c].task
          \/ /\ Calm(c) /\ up[c] = <<>>
             /\ Len(down[c]) = 1 /\ down[c][1].kind = "return" /\ down[c][1].task = cl[c].task

-----------------------------------------------------------------------------
(* The invariant: a worker connection, as long as no machine fails and no    *)
(* asynchronous call is refused.                                             *)

\* No asynchronous call of a function meets a full queue.
AsyncFits ==
  \A w \in Worker : Requested(w, "invoke") /\ ~tasks[Head(up[w]).task].sync => Len(queue) < QueueCap

Listed(w) == \E n \in DOMAIN idle : \E i \in 1..Len(idle[n]) : idle[n][i] = w
Chosen(w) == sched.pc = "write" /\ sched.worker = w

\* Nothing is on its way to the worker, nor will be.
Unasked(w) == Calm(w) /\ ~Listed(w) /\ ~Chosen(w) /\ down[w] = <<>>

\* The first n messages a worker has sent are asynchronous calls; or they are
\* these and what ended the executions they were made in.
Async(m)     == m.kind = "invoke" /\ ~tasks[m.task].sync
Calls(w, n)  == \A i \in 1..n : Async(up[w][i])
Closed(w, n) == \A i \in 1..n : Async(up[w][i]) \/ up[w][i].kind = "finish"

\* The worker has asked for a task; its request is read.
Asking(w) == /\ Unasked(w) /\ up[w] # <<>>
             /\ up[w][Len(up[w])].kind = "get" /\ Closed(w, Len(up[w]) - 1)
Asked(w)  == /\ Calm(w) /\ up[w] = <<>>
             /\ \/ Listed(w) /\ ~Chosen(w) /\ down[w] = <<>>
                \/ ~Listed(w) /\ Chosen(w) /\ down[w] = <<>>
                \/ ~Listed(w) /\ ~Chosen(w) /\ Len(down[w]) = 1 /\ down[w][1].kind = "process"

\* The stages of a synchronous call.
Calling(w)    == /\ Calm(w) /\ down[w] = <<>> /\ up[w] # <<>> /\ Calls(w, Len(up[w]) - 1)
                 /\ up[w][Len(up[w])].kind = "invoke" /\ tasks[up[w][Len(up[w])].task].sync
Held(w)       == serving[w] # None /\ ~Waits(w) /\ up[w] = <<>> /\ down[w] = <<>>
Registered(w) == /\ serving[w] = None /\ up[w] = <<>> /\ down[w] = <<>>
                 /\ \A t, u \in DOMAIN waitList : waitList[t] = w /\ waitList[u] = w => t = u
Answered(w)   == Calm(w) /\ up[w] = <<>> /\ Len(down[w]) = 1 /\ down[w][1].kind = "return"

WorkerOK(w) ==
  /\ wk[w].pc \in {"alloc", "run", "finish"} => Unasked(w) /\ Calls(w, Len(up[w]))
  /\ wk[w].pc = "get" => Unasked(w) /\ Closed(w, Len(up[w]))
  /\ wk[w].pc = "await" => Asking(w) \/ Asked(w)
  /\ wk[w].pc = "call" => /\ ~Listed(w) /\ ~Chosen(w)
                          /\ Calling(w) \/ Held(w) \/ Registered(w) \/ Answered(w)
  /\ wk[w].pc = "dead" => Calm(w) /\ ~Listed(w) /\ ~Chosen(w) /\ up[w] = <<>>

ListedOnce == \A n \in DOMAIN idle : \A i, j \in 1..Len(idle[n]) : idle[n][i] = idle[n][j] => i = j

NoneLeaves == \A n \in Node : dropping[n] = "unsent"
GoneDead   == \A w \in gone : wk[w].pc = "dead"

WorkerInv == (\A w \in Worker : WorkerOK(w)) /\ ListedOnce /\ NoneLeaves /\ GoneDead

-----------------------------------------------------------------------------
(* What a step leaves alone. *)

LEMMA Frame ==
  ASSUME Base
  PROVE  /\ UNCHANGED gmVars => GMInv'
         /\ UNCHANGED up => UpTyped' /\ UpOnce'
         /\ UNCHANGED down => DownTyped' /\ DownOnce'
         /\ UNCHANGED tasks => TasksOK' /\ Task' = Task
         /\ UNCHANGED queue => QueueOK' /\ QueueOnce' /\ Queued' = Queued
         /\ UNCHANGED sched => SchedOK' /\ Scheduled' = Scheduled
         /\ UNCHANGED <<waitList, serving, tasks>> => WaitersOK'
         /\ UNCHANGED <<cl, wk, tasks>> => ThreadsOK'
         /\ UNCHANGED <<pools, gone, dropping>> => MachinesOK'
<1> USE DEF Base, Typed, Custody
<1>1. UNCHANGED gmVars => GMInv'
  BY DEF gmVars, GMInv, GMTypeOK, KnownNodes, LiveEntries, FiledByNode
<1>2. UNCHANGED up => UpTyped' /\ UpOnce'
  BY DEF UpTyped, UpOnce
<1>3. UNCHANGED down => DownTyped' /\ DownOnce'
  BY DEF DownTyped, DownOnce
<1>4. UNCHANGED tasks => TasksOK' /\ Task' = Task
  BY DEF TasksOK, Task
<1>5. UNCHANGED queue => QueueOK' /\ QueueOnce' /\ Queued' = Queued
  BY DEF QueueOK, QueueOnce, Queued
<1>6. UNCHANGED sched => SchedOK' /\ Scheduled' = Scheduled
  BY DEF SchedOK, Scheduled
<1>7. UNCHANGED <<waitList, serving, tasks>> => WaitersOK'
  BY DEF WaitersOK, Task
<1>8. UNCHANGED <<cl, wk, tasks>> => ThreadsOK'
  BY DEF ThreadsOK, Task
<1>9. UNCHANGED <<pools, gone, dropping>> => MachinesOK'
  BY DEF MachinesOK
<1> QED BY <1>1, <1>2, <1>3, <1>4, <1>5, <1>6, <1>7, <1>8, <1>9

LEMMA FramePlaces ==
  /\ UNCHANGED up => \A c \in Conn : Requests(c)' = Requests(c) /\ Finishing(c)' = Finishing(c)
  /\ UNCHANGED down => \A c \in Conn : Dispatched(c)' = Dispatched(c)
  /\ UNCHANGED wk => \A w \in Worker : Working(w)' = Working(w)
BY DEF Requests, Finishing, Dispatched, Working

\* No task is anywhere it was not.
LEMMA NothingMoves ==
  ASSUME OnePlace, MadeOnly, Task \subseteq Task',
         \A c \in Conn : /\ Requests(c)' \subseteq Requests(c) /\ Finishing(c)' \subseteq Finishing(c)
                         /\ Dispatched(c)' \subseteq Dispatched(c),
         \A w \in Worker : Working(w)' \subseteq Working(w),
         Queued' \subseteq Queued, Scheduled' \subseteq Scheduled
  PROVE  OnePlace' /\ MadeOnly'
<1>1. \A t \in Nat : \A k \in Kinds : \A c \in Conn \cup {None} : In(t, k, c)' => In(t, k, c)
  BY DEF In
<1> QED BY <1>1 DEF OnePlace, MadeOnly

\* One task is in a new place, and in no other.
LEMMA OneMoves ==
  ASSUME OnePlace, MadeOnly, Task \subseteq Task',
         NEW t0 \in Task', NEW k0 \in Kinds, NEW c0 \in Conn \cup {None},
         \A t \in Nat : \A k \in Kinds : \A c \in Conn \cup {None} :
           In(t, k, c)' => IF t = t0 THEN k = k0 /\ c = c0 ELSE In(t, k, c)
  PROVE  OnePlace' /\ MadeOnly'
BY DEF OnePlace, MadeOnly

-----------------------------------------------------------------------------
(* What a step does to a stream. *)

LEMMA ReadUpFacts ==
  ASSUME UpTyped, UpOnce, NEW c \in Conn, up[c] # <<>>, ReadUp(c), NEW m, m = Head(up[c])
  PROVE  /\ m \in UpMsg(c) /\ UpTyped' /\ UpOnce'
         /\ up'[c] = Tail(up[c]) /\ \A d \in Conn \ {c} : up'[d] = up[d]
         /\ \A d \in Conn \ {c} : Requests(d)' = Requests(d) /\ Finishing(d)' = Finishing(d)
         /\ Requests(c)' = IF m.kind = "invoke" THEN Requests(c) \ {m.task} ELSE Requests(c)
         /\ Finishing(c)' = IF m.kind = "finish" THEN Finishing(c) \ {m.task} ELSE Finishing(c)
         /\ m.kind = "invoke" => m.task \in Requests(c)
         /\ m.kind = "finish" => m.task \in Finishing(c)
<1>1. DOMAIN up' = Conn /\ up'[c] = Tail(up[c]) /\ \A d \in Conn \ {c} : up'[d] = up[d]
  BY DEF ReadUp, UpTyped
<1>2. up[c] \in Seq(UpMsg(c)) /\ Once(up[c], "invoke") /\ Once(up[c], "finish")
  BY DEF UpTyped, UpOnce
<1>3. m \in UpMsg(c) /\ Tail(up[c]) \in Seq(UpMsg(c))
  BY <1>2
<1>4. UpTyped'
  BY <1>1, <1>3 DEF UpTyped, UpMsg
<1>5. Once(Tail(up[c]), "invoke") /\ Once(Tail(up[c]), "finish")
  BY <1>2, TailCarried
<1>6. UpOnce'
  BY <1>1, <1>5 DEF UpOnce
<1>7. \A d \in Conn \ {c} : Requests(d)' = Requests(d) /\ Finishing(d)' = Finishing(d)
  BY <1>1 DEF Requests, Finishing
<1>8. /\ Requests(c)' = Carried(Tail(up[c]), "invoke")
      /\ Finishing(c)' = Carried(Tail(up[c]), "finish")
  BY <1>1 DEF Requests, Finishing
<1>9. /\ Requests(c)' = IF m.kind = "invoke" THEN Requests(c) \ {m.task} ELSE Requests(c)
      /\ m.kind = "invoke" => m.task \in Requests(c)
  BY <1>2, <1>8, TailCarried DEF Requests
<1>10. /\ Finishing(c)' = IF m.kind = "finish" THEN Finishing(c) \ {m.task} ELSE Finishing(c)
       /\ m.kind = "finish" => m.task \in Finishing(c)
  BY <1>2, <1>8, TailCarried DEF Finishing
<1> QED BY <1>1, <1>3, <1>4, <1>6, <1>7, <1>9, <1>10

LEMMA SendFacts ==
  ASSUME UpTyped, UpOnce, NEW c \in Conn, NEW m \in UpMsg(c), Send(c, m),
         m.kind = "invoke" => m.task \notin Requests(c),
         m.kind = "finish" => m.task \notin Finishing(c)
  PROVE  /\ UpTyped' /\ UpOnce'
         /\ up'[c] = Append(up[c], m) /\ \A d \in Conn \ {c} : up'[d] = up[d]
         /\ \A d \in Conn \ {c} : Requests(d)' = Requests(d) /\ Finishing(d)' = Finishing(d)
         /\ Requests(c)' = IF m.kind = "invoke" THEN Requests(c) \cup {m.task} ELSE Requests(c)
         /\ Finishing(c)' = IF m.kind = "finish" THEN Finishing(c) \cup {m.task} ELSE Finishing(c)
<1>1. DOMAIN up' = Conn /\ up'[c] = Append(up[c], m) /\ \A d \in Conn \ {c} : up'[d] = up[d]
  BY DEF Send, UpTyped
<1>2. up[c] \in Seq(UpMsg(c)) /\ Once(up[c], "invoke") /\ Once(up[c], "finish")
  BY DEF UpTyped, UpOnce
<1>3. Append(up[c], m) \in Seq(UpMsg(c))
  BY <1>2
<1>4. UpTyped'
  BY <1>1, <1>3 DEF UpTyped, UpMsg
<1>5. /\ Once(Append(up[c], m), "invoke")
      /\ Carried(Append(up[c], m), "invoke") =
           IF m.kind = "invoke" THEN Requests(c) \cup {m.task} ELSE Requests(c)
  <2>1. CASE m.kind = "invoke"
    BY <1>2, <2>1, AppendCarried DEF Requests
  <2>2. CASE m.kind # "invoke"
    BY <1>2, <2>2, AppendOther DEF Requests
  <2> QED BY <2>1, <2>2
<1>6. /\ Once(Append(up[c], m), "finish")
      /\ Carried(Append(up[c], m), "finish") =
           IF m.kind = "finish" THEN Finishing(c) \cup {m.task} ELSE Finishing(c)
  <2>1. CASE m.kind = "finish"
    BY <1>2, <2>1, AppendCarried DEF Finishing
  <2>2. CASE m.kind # "finish"
    BY <1>2, <2>2, AppendOther DEF Finishing
  <2> QED BY <2>1, <2>2
<1>7. UpOnce'
  BY <1>1, <1>5, <1>6 DEF UpOnce
<1>8. \A d \in Conn \ {c} : Requests(d)' = Requests(d) /\ Finishing(d)' = Finishing(d)
  BY <1>1 DEF Requests, Finishing
<1>9. /\ Requests(c)' = Carried(Append(up[c], m), "invoke")
      /\ Finishing(c)' = Carried(Append(up[c], m), "finish")
  BY <1>1 DEF Requests, Finishing
<1> QED BY <1>1, <1>4, <1>5, <1>6, <1>7, <1>8, <1>9

LEMMA ReadDownFacts ==
  ASSUME DownTyped, DownOnce, NEW c \in Conn, down[c] # <<>>, ReadDown(c), NEW m, m = Head(down[c])
  PROVE  /\ m \in DownMsg /\ DownTyped' /\ DownOnce'
         /\ down'[c] = Tail(down[c]) /\ \A d \in Conn \ {c} : down'[d] = down[d]
         /\ \A d \in Conn \ {c} : Dispatched(d)' = Dispatched(d)
         /\ Dispatched(c)' = IF m.kind = "process" THEN Dispatched(c) \ {m.task} ELSE Dispatched(c)
         /\ m.kind = "process" => m.task \in Dispatched(c)
<1>1. down'[c] = Tail(down[c]) /\ \A d \in Conn \ {c} : down'[d] = down[d]
  BY DEF ReadDown, DownTyped
<1>2. down[c] \in Seq(DownMsg) /\ Once(down[c], "process")
  BY DEF DownTyped, DownOnce
<1>3. m \in DownMsg /\ Tail(down[c]) \in Seq(DownMsg)
  BY <1>2
<1>4. DownTyped'
  BY <1>3 DEF DownTyped, ReadDown
<1>5. Once(Tail(down[c]), "process")
  BY <1>2, TailCarried
<1>6. DownOnce'
  BY <1>1, <1>5 DEF DownOnce
<1>7. \A d \in Conn \ {c} : Dispatched(d)' = Dispatched(d)
  BY <1>1 DEF Dispatched
<1>8. Dispatched(c)' = Carried(Tail(down[c]), "process")
  BY <1>1 DEF Dispatched
<1>9. /\ Dispatched(c)' = IF m.kind = "process" THEN Dispatched(c) \ {m.task} ELSE Dispatched(c)
      /\ m.kind = "process" => m.task \in Dispatched(c)
  BY <1>2, <1>8, TailCarried DEF Dispatched
<1> QED BY <1>1, <1>3, <1>4, <1>6, <1>7, <1>9

LEMMA DeliveredFacts ==
  ASSUME DownTyped, DownOnce, NEW c \in Conn, NEW m \in DownMsg, down' = Delivered(c, m),
         m.kind = "process" => m.task \notin Dispatched(c)
  PROVE  /\ DownTyped' /\ DownOnce'
         /\ down'[c] = IF c \in gone THEN down[c] ELSE Append(down[c], m)
         /\ \A d \in Conn \ {c} : down'[d] = down[d]
         /\ \A d \in Conn \ {c} : Dispatched(d)' = Dispatched(d)
         /\ m.kind = "process" => Dispatched(c)' \subseteq Dispatched(c) \cup {m.task}
         /\ m.kind # "process" => Dispatched(c)' = Dispatched(c)
<1>1. CASE c \in gone
  <2>1. down' = down
    BY <1>1 DEF Delivered
  <2> QED BY <1>1, <2>1 DEF DownTyped, DownOnce, Dispatched
<1>2. CASE c \notin gone
  <2>1. down' = [down EXCEPT ![c] = Append(down[c], m)]
    BY <1>2 DEF Delivered
  <2>2. down'[c] = Append(down[c], m) /\ \A d \in Conn \ {c} : down'[d] = down[d]
    BY <2>1 DEF DownTyped
  <2>3. down[c] \in Seq(DownMsg) /\ Once(down[c], "process")
    BY DEF DownTyped, DownOnce
  <2>4. Append(down[c], m) \in Seq(DownMsg)
    BY <2>3
  <2>5. DownTyped'
    BY <2>1, <2>4 DEF DownTyped
  <2>6. /\ Once(Append(down[c], m), "process")
        /\ Carried(Append(down[c], m), "process") =
             IF m.kind = "process" THEN Dispatched(c) \cup {m.task} ELSE Dispatched(c)
    <3>1. CASE m.kind = "process"
      BY <2>3, <3>1, AppendCarried DEF Dispatched
    <3>2. CASE m.kind # "process"
      BY <2>3, <3>2, AppendOther DEF Dispatched
    <3> QED BY <3>1, <3>2
  <2>7. DownOnce'
    BY <2>2, <2>6 DEF DownOnce
  <2>8. \A d \in Conn \ {c} : Dispatched(d)' = Dispatched(d)
    BY <2>2 DEF Dispatched
  <2>9. Dispatched(c)' = Carried(Append(down[c], m), "process")
    BY <2>2 DEF Dispatched
  <2> QED BY <1>2, <2>2, <2>5, <2>6, <2>7, <2>8, <2>9
<1> QED BY <1>1, <1>2

-----------------------------------------------------------------------------
(* Messages, tasks and pools. *)

LEMMA UpKinds ==
  ASSUME NEW c \in Conn, NEW m \in UpMsg(c)
  PROVE  /\ m.kind = "ping" => c \in Client
         /\ m.kind = "get" => c \in Worker
         /\ m.kind = "invoke" => m.task \in Nat /\ c \in Client \cup Worker
         /\ m.kind = "finish" => m.task \in Nat /\ m.res \in Results /\ c \in Worker
         /\ m.kind = "update" => c \in Node /\ m.stats \in Caches
<1>1. CASE c \in Client
  BY <1>1 DEF UpMsg, ClientMsg
<1>2. CASE c \in Worker
  BY <1>2, ConnAssumption DEF UpMsg, WorkerMsg
<1>3. CASE c \in Node
  BY <1>3, ConnAssumption DEF UpMsg, NodeMsg
<1> QED BY <1>1, <1>2, <1>3 DEF Conn

LEMMA UpMade ==
  /\ \A c \in Client : Ping \in UpMsg(c) /\ \A t \in Nat : Invoke(t) \in UpMsg(c)
  /\ \A w \in Worker : /\ GetTask \in UpMsg(w) /\ \A t \in Nat : Invoke(t) \in UpMsg(w)
                       /\ \A t \in Nat : \A r \in Results : Finish(t, r) \in UpMsg(w)
  /\ \A n \in Node : UpMsg(n) = NodeMsg /\ \A x \in Caches : Report(x) \in NodeMsg
BY ConnAssumption DEF UpMsg, ClientMsg, WorkerMsg, NodeMsg, Ping, GetTask, Invoke, Finish, Report

LEMMA DownKinds ==
  ASSUME NEW m \in DownMsg
  PROVE  /\ m.kind = "process" => m.task \in Nat
         /\ m.kind = "return" => m.task \in Nat /\ m.res \in Results
         /\ m.kind \in {"pong", "terminate", "process", "return"}
BY DEF DownMsg

LEMMA DownMade ==
  /\ Pong \in DownMsg /\ Terminate \in DownMsg
  /\ \A t \in Nat : ProcessTask(t) \in DownMsg
  /\ \A t \in Nat : \A r \in Results : Return(t, r) \in DownMsg
BY DEF DownMsg, Pong, Terminate, ProcessTask, Return

\* An invocation is made: its number is new.
LEMMA NewTask ==
  ASSUME Base, NEW r \in TaskRec, tasks' = Append(tasks, r), Len(tasks) < MaxTasks,
         NEW t, t = Len(tasks) + 1
  PROVE  /\ TasksOK' /\ Task \subseteq Task' /\ t \in Task' /\ t \in Nat /\ t \notin Task
         /\ tasks'[t] = r /\ \A u \in Task : tasks'[u] = tasks[u]
         /\ UNCHANGED <<waitList, serving>> => WaitersOK'
         /\ \A k \in Kinds : \A c \in Conn \cup {None} : ~In(t, k, c)
<1>1. tasks \in Seq(TaskRec) /\ Len(tasks) \in Nat /\ Len(tasks) <= MaxTasks /\ MaxTasks \in Nat
  BY BoundAssumption DEF Base, Typed, TasksOK
<1>2. tasks' \in Seq(TaskRec) /\ Len(tasks') = Len(tasks) + 1
  BY <1>1
<1>3. TasksOK'
  BY <1>1, <1>2 DEF TasksOK
<1>4. Task \subseteq Task' /\ t \in Task' /\ t \in Nat /\ t \notin Task
  BY <1>1, <1>2 DEF Task
<1>5. tasks'[t] = r /\ \A u \in Task : tasks'[u] = tasks[u]
  BY <1>1 DEF Task
<1>6. UNCHANGED <<waitList, serving>> => WaitersOK'
  BY <1>4 DEF Base, Typed, WaitersOK
<1>7. \A k \in Kinds : \A c \in Conn \cup {None} : ~In(t, k, c)
  BY <1>4 DEF Base, Custody, MadeOnly
<1> QED BY <1>3, <1>4, <1>5, <1>6, <1>7

\* Where a task is, it is nowhere else.
LEMMA InOnePlace ==
  ASSUME Base, NEW t, NEW k \in Kinds, NEW c \in Conn \cup {None}, In(t, k, c), t \in Nat
  PROVE  /\ t \in Task
         /\ \A l \in Kinds : \A d \in Conn \cup {None} : In(t, l, d) => l = k /\ d = c
BY DEF Base, Custody, OnePlace, MadeOnly

\* The function of a task.
LEMMA TaskFn ==
  ASSUME Base, NEW t \in Task
  PROVE  tasks[t].fn \in Function /\ tasks[t].sync \in BOOLEAN /\ t \in Nat
<1>1. tasks[t] \in TaskRec /\ t \in Nat
  BY DEF Base, Typed, TasksOK, Task
<1> QED BY <1>1 DEF TaskRec

\* notify_one
LEMMA NotifiedOK ==
  ASSUME SchedOK, sched' = Notified
  PROVE  /\ SchedOK' /\ Scheduled' = Scheduled
         /\ sched'.task = sched.task /\ sched'.worker = sched.worker
         /\ sched'.pc = "write" <=> sched.pc = "write"
<1>1. /\ sched' \in SchedRec /\ sched'.task = sched.task /\ sched'.worker = sched.worker
      /\ sched'.pc = IF sched.pc = "wait" THEN "find" ELSE sched.pc
  BY DEF SchedOK, SchedRec, Notified
<1>2. SchedOK'
  BY <1>1 DEF SchedOK
<1>3. Scheduled' = Scheduled
  BY <1>1 DEF Scheduled
<1> QED BY <1>1, <1>2, <1>3

LEMMA FreshPoolOK == PoolOK(VM!FreshPool)
<1>1. VM!FreshPool.cache \in [{} -> Nat] /\ DOMAIN VM!FreshPool = {"cache", "free"}
  BY DEF VM!FreshPool
<1> QED BY <1>1 DEF PoolOK, Caches

\* The operations of a machine's pool leave a pool.
LEMMA PoolSteps ==
  ASSUME NEW p, PoolOK(p), NEW f \in Function
  PROVE  /\ VM!CachedVms(p, f) > 0 => PoolOK(VM!Taken(p, f))
         /\ PoolOK(VM!Released(p, f)) /\ PoolOK(VM!Deleted(p, f))
         /\ VM!NewVm(p, f).res = "ok" => PoolOK(VM!NewVm(p, f).pool)
<1>1. /\ DOMAIN p = {"cache", "free"} /\ DOMAIN p.cache \subseteq Function
      /\ p.cache \in [DOMAIN p.cache -> Nat]
  BY DEF PoolOK, Caches
<1>2. VM!CachedVms(p, f) > 0 => PoolOK(VM!Taken(p, f))
  <2> SUFFICES ASSUME VM!CachedVms(p, f) > 0
               PROVE  PoolOK(VM!Taken(p, f))
    OBVIOUS
  <2>1. f \in DOMAIN p.cache /\ p.cache[f] \in Nat /\ p.cache[f] > 0
    BY <1>1 DEF VM!CachedVms
  <2> DEFINE q == VM!Taken(p, f)
  <2>2. DOMAIN q = {"cache", "free"} /\ q.cache = [p.cache EXCEPT ![f] = @ - 1]
    BY <1>1 DEF VM!Taken
  <2>3. q.cache \in [DOMAIN p.cache -> Nat]
    BY <1>1, <2>1, <2>2
  <2> QED BY <1>1, <2>2, <2>3 DEF PoolOK, Caches
<1>3. PoolOK(VM!Released(p, f))
  <2> DEFINE q == VM!Released(p, f)
  <2>1. /\ DOMAIN q = {"cache", "free"}
        /\ q.cache = [g \in DOMAIN p.cache \cup {f} |->
                        VM!CachedVms(p, g) + (IF g = f THEN 1 ELSE 0)]
    BY <1>1 DEF VM!Released
  <2>2. \A g : VM!CachedVms(p, g) \in Nat
    BY <1>1 DEF VM!CachedVms
  <2>3. q.cache \in [DOMAIN p.cache \cup {f} -> Nat]
    BY <2>1, <2>2
  <2> QED BY <1>1, <2>1, <2>3 DEF PoolOK, Caches
<1>4. PoolOK(VM!Deleted(p, f))
  BY <1>1 DEF VM!Deleted, PoolOK
<1>5. ASSUME NEW q, PoolOK(q)
      PROVE  PoolOK(VM!Reserved(q, f))
  BY <1>5 DEF VM!Reserved, PoolOK
<1>6. ASSUME NEW k \in Nat
      PROVE  PoolOK(VM!Evicted(p, k))
  <2> DEFINE q == VM!Evicted(p, k)
  <2>1. DOMAIN q = {"cache", "free"} /\ q.cache \in [DOMAIN p.cache -> Nat]
    BY <1>1 DEF VM!Evicted
  <2> QED BY <1>1, <2>1 DEF PoolOK, Caches
<1>7. VM!EvictRounds(p, f) \in Nat
  <2> DEFINE K == {k \in 0..(Memory[f] - 1) : VM!FreedBy(p, k) < Memory[f]}
  <2>1. IsFiniteSet(0..(Memory[f] - 1))
    BY MemoryAssumption, FS_Interval
  <2>2. K \subseteq 0..(Memory[f] - 1)
    OBVIOUS
  <2> HIDE DEF K
  <2>3. Cardinality(K) \in Nat
    BY <2>1, <2>2, FS_Subset, FS_CardinalityType
  <2>4. VM!Cardinality(K) = Cardinality(K)
    BY DEF VM!Cardinality, Cardinality
  <2> QED BY <2>3, <2>4 DEF K, VM!EvictRounds
<1>8. VM!NewVm(p, f).res = "ok" => PoolOK(VM!NewVm(p, f).pool)
  BY <1>5, <1>6, <1>7 DEF VM!NewVm
<1> QED BY <1>2, <1>3, <1>4, <1>8

-----------------------------------------------------------------------------
(* The invariant holds, and each step keeps it: the gateway. *)

LEMMA InitBase == Init => Base
<1> SUFFICES ASSUME Init
             PROVE  Base
  OBVIOUS
<1>1. GMInv
  BY DEF Init, GMInit, EmptyMap, GMInv, GMTypeOK, KnownNodes, LiveEntries, FiledByNode
<1>2. UpTyped /\ DownTyped
  BY DEF Init, UpTyped, DownTyped
<1>3. TasksOK /\ QueueOK /\ SchedOK
  BY BoundAssumption DEF Init, TasksOK, QueueOK, SchedOK, SchedRec
<1>4. WaitersOK
  BY DEF Init, WaitersOK, EmptyMap
<1>5. ThreadsOK
  BY DEF Init, ThreadsOK, ClRec, WkRec, Results
<1>6. MachinesOK
  BY FreshPoolOK DEF Init, MachinesOK
<1>7. \A c \in Conn : Requests(c) = {} /\ Finishing(c) = {} /\ Dispatched(c) = {}
  BY DEF Init, Requests, Finishing, Dispatched, Carried
<1>8. (\A w \in Worker : Working(w) = {}) /\ Queued = {} /\ Scheduled = {}
  BY DEF Init, Working, Queued, Scheduled
<1>9. \A t \in Nat : \A k \in Kinds : \A c \in Conn \cup {None} : ~In(t, k, c)
  BY <1>7, <1>8 DEF In
<1>10. OnePlace /\ MadeOnly
  BY <1>9 DEF OnePlace, MadeOnly
<1>11. UpOnce /\ DownOnce /\ QueueOnce
  BY DEF Init, UpOnce, DownOnce, QueueOnce, Once
<1> QED BY <1>1, <1>2, <1>3, <1>4, <1>5, <1>6, <1>10, <1>11 DEF Base, Typed, Custody

LEMMA ClientPingBase ==
  ASSUME Base, NEW c \in Client, ClientPing(c)
  PROVE  Base'
<1>1. /\ Send(c, Ping)
      /\ UNCHANGED <<gmVars, waitList, queue, sched, tasks, serving, down, wk, pools, gone, dropping>>
  BY DEF ClientPing
<1>2. /\ UpTyped' /\ UpOnce'
      /\ \A d \in Conn : Requests(d)' = Requests(d) /\ Finishing(d)' = Finishing(d)
  <2>1. UpTyped /\ UpOnce /\ c \in Conn /\ Ping \in UpMsg(c)
    BY UpMade DEF Base, Typed, Custody, Conn
  <2>2. Ping.kind = "ping"
    BY DEF Ping
  <2> QED BY <1>1, <2>1, <2>2, SendFacts
<1>3. ThreadsOK'
  BY <1>1 DEF Base, Typed, ThreadsOK, ClRec, ClientPing, Task
<1>4. OnePlace' /\ MadeOnly'
  BY <1>1, <1>2, Frame, FramePlaces, NothingMoves DEF Base, Custody
<1> QED BY <1>1, <1>2, <1>3, <1>4, Frame DEF Base, Typed, Custody

LEMMA ClientInvokeBase ==
  ASSUME Base, NEW c \in Client, NEW f \in Function, ClientInvoke(c, f)
  PROVE  Base'
<1>1. PICK t : t = Len(tasks) + 1
  OBVIOUS
<1>2. PICK r : r = [fn |-> f, sync |-> TRUE, from |-> c]
  OBVIOUS
<1>3. /\ Len(tasks) < MaxTasks /\ tasks' = Append(tasks, r) /\ Send(c, Invoke(t))
      /\ cl' = [cl EXCEPT ![c] = [pc |-> "wait", task |-> t]]
      /\ UNCHANGED <<gmVars, waitList, queue, sched, serving, wk, pools, gone, dropping>>
  BY <1>1, <1>2 DEF ClientInvoke
<1>4. r \in TaskRec
  BY <1>2 DEF TaskRec
<1>5. /\ TasksOK' /\ Task \subseteq Task' /\ t \in Task' /\ t \in Nat /\ t \notin Task
      /\ WaitersOK'
      /\ \A k \in Kinds : \A d \in Conn \cup {None} : ~In(t, k, d)
  BY <1>1, <1>3, <1>4, NewTask
<1>6. Base => UpTyped /\ UpOnce /\ c \in Conn /\ Invoke(t) \in UpMsg(c)
  BY <1>5, UpMade DEF Base, Typed, Custody, Conn
<1>7. t \notin Requests(c)
  BY <1>5, <1>6 DEF In, Kinds
<1>8. /\ UpTyped' /\ UpOnce'
      /\ \A d \in Conn : Requests(d)' \subseteq Requests(d) \cup (IF d = c THEN {t} ELSE {})
      /\ \A d \in Conn : Finishing(d)' = Finishing(d)
  <2>1. Invoke(t).kind = "invoke" /\ Invoke(t).task = t
    BY DEF Invoke
  <2> QED BY <1>3, <1>6, <1>7, <2>1, SendFacts
<1>9. /\ DownTyped' /\ DownOnce'
      /\ \A d \in Conn : Dispatched(d)' \subseteq Dispatched(d)
  <2>1. CASE UNCHANGED down
    BY <2>1, Frame, FramePlaces
  <2>2. CASE down[c] # <<>> /\ ReadDown(c)
    <3>1. PICK m : m = Head(down[c])
      OBVIOUS
    <3>2. DownTyped /\ DownOnce
      BY DEF Base, Typed, Custody
    <3>3. /\ DownTyped' /\ DownOnce'
          /\ \A d \in Conn \ {c} : Dispatched(d)' = Dispatched(d)
          /\ Dispatched(c)' = IF m.kind = "process" THEN Dispatched(c) \ {m.task} ELSE Dispatched(c)
      BY <1>6, <2>2, <3>1, <3>2, ReadDownFacts
    <3> QED BY <3>3
  <2> QED BY <2>1, <2>2 DEF ClientInvoke, Received
<1>10. ThreadsOK'
  <2>1. cl' \in [Client -> ClRec] /\ \A d \in Client : cl'[d].task # None => cl'[d].task \in Task'
    BY <1>3, <1>5 DEF Base, Typed, ThreadsOK, ClRec
  <2> QED BY <1>3, <1>5, <2>1 DEF Base, Typed, ThreadsOK
<1>11. OnePlace' /\ MadeOnly'
  <2>1. /\ Queued' = Queued /\ Scheduled' = Scheduled /\ \A w \in Worker : Working(w)' = Working(w)
    BY <1>3, Frame, FramePlaces
  <2>2. \A u \in Nat : \A k \in Kinds : \A d \in Conn \cup {None} :
          In(u, k, d)' => In(u, k, d) \/ (u = t /\ k = "request" /\ d = c)
    BY <1>8, <1>9, <2>1 DEF In
  <2>3. \A u \in Nat : \A k \in Kinds : \A d \in Conn \cup {None} :
          In(u, k, d)' => IF u = t THEN k = "request" /\ d = c ELSE In(u, k, d)
    BY <1>5, <2>2
  <2> QED BY <1>5, <1>6, <2>3, OneMoves DEF Base, Custody, Kinds
<1> QED BY <1>3, <1>5, <1>8, <1>9, <1>10, <1>11, Frame DEF Base, Typed, Custody

LEMMA ClientReturnBase ==
  ASSUME Base, NEW c \in Client, ClientReturn(c)
  PROVE  Base'
<1>1. /\ down[c] # <<>> /\ ReadDown(c)
      /\ cl' = [cl EXCEPT ![c] = [pc |-> "ready", task |-> None]]
      /\ UNCHANGED <<gmVars, waitList, queue, sched, tasks, serving, up, wk, pools, gone, dropping>>
  BY DEF ClientReturn, Received
<1>2. /\ DownTyped' /\ DownOnce'
      /\ \A d \in Conn : Dispatched(d)' \subseteq Dispatched(d)
  <2>1. PICK m : m = Head(down[c])
    OBVIOUS
  <2>2. DownTyped /\ DownOnce /\ c \in Conn
    BY DEF Base, Typed, Custody, Conn
  <2>3. /\ DownTyped' /\ DownOnce'
        /\ \A d \in Conn \ {c} : Dispatched(d)' = Dispatched(d)
        /\ Dispatched(c)' = IF m.kind = "process" THEN Dispatched(c) \ {m.task} ELSE Dispatched(c)
    BY <1>1, <2>1, <2>2, ReadDownFacts
  <2> QED BY <2>3
<1>3. ThreadsOK'
  BY <1>1 DEF Base, Typed, ThreadsOK, ClRec, Task
<1>4. OnePlace' /\ MadeOnly'
  BY <1>1, <1>2, Frame, FramePlaces, NothingMoves DEF Base, Custody
<1> QED BY <1>1, <1>2, <1>3, <1>4, Frame DEF Base, Typed, Custody

-----------------------------------------------------------------------------
(* The connection handlers. *)

\* A handler reads a request.
LEMMA Request ==
  ASSUME Base, NEW c \in Conn, NEW k, Requested(c, k), ReadUp(c), NEW m, m = Head(up[c])
  PROVE  /\ m \in UpMsg(c) /\ m.kind = k /\ UpTyped' /\ UpOnce'
         /\ up[c] # <<>> /\ up'[c] = Tail(up[c]) /\ \A d \in Conn \ {c} : up'[d] = up[d]
         /\ \A d \in Conn : Requests(d)' \subseteq Requests(d) /\ Finishing(d)' \subseteq Finishing(d)
         /\ k = "invoke" => m.task \in Requests(c) /\ m.task \notin Requests(c)'
         /\ k = "finish" => m.task \in Finishing(c) /\ m.task \notin Finishing(c)'
<1>1. UpTyped /\ UpOnce /\ up[c] # <<>> /\ m.kind = k
  BY DEF Base, Typed, Custody, Requested
<1>2. /\ m \in UpMsg(c) /\ UpTyped' /\ UpOnce'
      /\ up'[c] = Tail(up[c]) /\ \A d \in Conn \ {c} : up'[d] = up[d]
      /\ \A d \in Conn \ {c} : Requests(d)' = Requests(d) /\ Finishing(d)' = Finishing(d)
      /\ Requests(c)' = IF m.kind = "invoke" THEN Requests(c) \ {m.task} ELSE Requests(c)
      /\ Finishing(c)' = IF m.kind = "finish" THEN Finishing(c) \ {m.task} ELSE Finishing(c)
      /\ m.kind = "invoke" => m.task \in Requests(c)
      /\ m.kind = "finish" => m.task \in Finishing(c)
  BY <1>1, ReadUpFacts
<1> QED BY <1>1, <1>2

LEMMA ServePingBase ==
  ASSUME Base, NEW c \in Conn, ServePing(c)
  PROVE  Base'
<1>1. /\ Requested(c, "ping") /\ ReadUp(c) /\ down' = Delivered(c, Pong)
      /\ UNCHANGED <<gmVars, waitList, queue, sched, tasks, serving, cl, wk, pools, gone, dropping>>
  BY DEF ServePing, nodeVars
<1>2. /\ UpTyped' /\ UpOnce'
      /\ \A d \in Conn : Requests(d)' \subseteq Requests(d) /\ Finishing(d)' \subseteq Finishing(d)
  BY <1>1, Request
<1>3. /\ DownTyped' /\ DownOnce'
      /\ \A d \in Conn : Dispatched(d)' = Dispatched(d)
  <2>1. DownTyped /\ DownOnce /\ Pong \in DownMsg /\ Pong.kind = "pong"
    BY DownMade DEF Base, Typed, Custody, Pong
  <2> QED BY <1>1, <2>1, DeliveredFacts
<1>4. OnePlace' /\ MadeOnly'
  BY <1>1, <1>2, <1>3, Frame, FramePlaces, NothingMoves DEF Base, Custody
<1> QED BY <1>1, <1>2, <1>3, <1>4, Frame DEF Base, Typed, Custody

LEMMA ServeGetBase ==
  ASSUME Base, NEW w \in Worker, ServeGet(w)
  PROVE  Base'
<1>1. /\ Requested(w, "get") /\ ReadUp(w) /\ AddIdle(w) /\ sched' = Notified
      /\ UNCHANGED <<waitList, queue, tasks, serving, down, cl, wk, pools, gone, dropping>>
  BY DEF ServeGet, nodeVars
<1>2. /\ UpTyped' /\ UpOnce'
      /\ \A d \in Conn : Requests(d)' \subseteq Requests(d) /\ Finishing(d)' \subseteq Finishing(d)
  BY <1>1, Request DEF Conn
<1>3. GMInv'
  BY <1>1, AddIdlePreserves DEF Base, Typed
<1>4. SchedOK' /\ Scheduled' = Scheduled
  BY <1>1, NotifiedOK DEF Base, Typed
<1>5. OnePlace' /\ MadeOnly'
  BY <1>1, <1>2, <1>4, Frame, FramePlaces, NothingMoves DEF Base, Custody
<1> QED BY <1>1, <1>2, <1>3, <1>4, <1>5, Frame DEF Base, Typed, Custody

\* Taking a key away.
LEMMA DropFacts ==
  ASSUME NEW m, NEW k
  PROVE  /\ DOMAIN Drop(m, k) = DOMAIN m \ {k}
         /\ \A x \in DOMAIN m \ {k} : Drop(m, k)[x] = m[x]
BY DEF Drop, Restrict

LEMMA ServeFinishBase ==
  ASSUME Base, NEW w \in Worker, ServeFinish(w)
  PROVE  Base'
<1>1. PICK m : m = Head(up[w])
  OBVIOUS
<1>2. /\ Requested(w, "finish") /\ ReadUp(w) /\ waitList' = Drop(waitList, m.task)
      /\ down' = IF m.task \in DOMAIN waitList
                 THEN Delivered(waitList[m.task], Return(m.task, m.res)) ELSE down
      /\ UNCHANGED <<gmVars, queue, sched, tasks, serving, cl, wk, pools, gone, dropping>>
  BY <1>1 DEF ServeFinish, nodeVars
<1>3. /\ UpTyped' /\ UpOnce' /\ m \in UpMsg(w) /\ m.kind = "finish"
      /\ \A d \in Conn : Requests(d)' \subseteq Requests(d) /\ Finishing(d)' \subseteq Finishing(d)
  BY <1>1, <1>2, Request DEF Conn
<1>4. m.task \in Nat /\ m.res \in Results
  BY <1>3, UpKinds DEF Conn
<1>5. /\ DownTyped' /\ DownOnce'
      /\ \A d \in Conn : Dispatched(d)' = Dispatched(d)
  <2>1. CASE m.task \notin DOMAIN waitList
    BY <1>2, <2>1, Frame, FramePlaces
  <2>2. CASE m.task \in DOMAIN waitList
    <3>1. PICK c \in Conn : c = waitList[m.task]
      BY <2>2 DEF Base, Typed, WaitersOK, Conn
    <3>2. PICK x \in DownMsg : x = Return(m.task, m.res)
      BY <1>4, DownMade
    <3>3. x.kind = "return"
      BY <3>2 DEF Return
    <3>4. down' = Delivered(c, x)
      BY <1>2, <2>2, <3>1, <3>2
    <3>5. DownTyped /\ DownOnce
      BY DEF Base, Typed, Custody
    <3> QED BY <3>3, <3>4, <3>5, DeliveredFacts
  <2> QED BY <2>1, <2>2
<1>6. WaitersOK'
  <2>1. /\ DOMAIN waitList' \subseteq DOMAIN waitList
        /\ \A t \in DOMAIN waitList' : waitList'[t] = waitList[t]
    <3>1. PICK t : t = m.task
      OBVIOUS
    <3>2. waitList' = Drop(waitList, t)
      BY <1>2, <3>1
    <3> QED BY <3>2, DropFacts
  <2>2. Task' = Task /\ serving' = serving /\ WaitersOK
    BY <1>2, Frame DEF Base, Typed
  <2> QED BY <2>1, <2>2 DEF WaitersOK
<1>7. OnePlace' /\ MadeOnly'
  BY <1>2, <1>3, <1>5, Frame, FramePlaces, NothingMoves DEF Base, Custody
<1> QED BY <1>2, <1>3, <1>5, <1>6, <1>7, Frame DEF Base, Typed, Custody

\* A task is put in the queue.
LEMMA QueueAppend ==
  ASSUME QueueOK, QueueOnce, NEW t \in Nat, t \notin Queued, Len(queue) < QueueCap,
         queue' = Append(queue, t)
  PROVE  QueueOK' /\ QueueOnce' /\ Queued' = Queued \cup {t}
<1>1. queue \in Seq(Nat) /\ Len(queue) \in Nat /\ QueueCap \in Nat
  BY BoundAssumption DEF QueueOK
<1>2. /\ queue' \in Seq(Nat) /\ Len(queue') = Len(queue) + 1 /\ queue'[Len(queue) + 1] = t
      /\ \A i \in 1..Len(queue) : queue'[i] = queue[i]
  BY <1>1
<1>3. QueueOK'
  BY <1>1, <1>2 DEF QueueOK
<1>4. \A i \in 1..Len(queue') : i \in 1..Len(queue) \/ i = Len(queue) + 1
  BY <1>1, <1>2
<1>5. QueueOnce'
  BY <1>1, <1>2, <1>4 DEF QueueOnce, Queued
<1>6. Queued' = Queued \cup {t}
  BY <1>1, <1>2, <1>4 DEF Queued
<1> QED BY <1>3, <1>5, <1>6

LEMMA ServeInvokeBase ==
  ASSUME Base, NEW c \in Conn, ServeInvoke(c)
  PROVE  Base'
<1>1. PICK m : m = Head(up[c])
  OBVIOUS
<1>2. PICK t : t = m.task
  OBVIOUS
<1>3. /\ Requested(c, "invoke") /\ ReadUp(c)
      /\ UNCHANGED <<gmVars, waitList, sched, tasks, cl, wk, pools, gone, dropping>>
  BY DEF ServeInvoke, nodeVars
<1>4. /\ UpTyped' /\ UpOnce' /\ m \in UpMsg(c) /\ m.kind = "invoke"
      /\ \A d \in Conn : Requests(d)' \subseteq Requests(d) /\ Finishing(d)' \subseteq Finishing(d)
      /\ t \in Requests(c) /\ t \notin Requests(c)'
  BY <1>1, <1>2, <1>3, Request
<1>5. t \in Nat /\ c \in Client \cup Worker
  BY <1>2, <1>4, UpKinds
<1>6. In(t, "request", c) /\ "request" \in Kinds
  BY <1>4 DEF In, Kinds
<1>7. /\ t \in Task
      /\ \A l \in Kinds : \A d \in Conn \cup {None} : In(t, l, d) => l = "request" /\ d = c
  BY <1>5, <1>6, InOnePlace
<1>8. (\A w \in Worker : Working(w)' = Working(w)) /\ Scheduled' = Scheduled /\ Task' = Task
  BY <1>3, Frame, FramePlaces
<1>9. CASE /\ Len(queue) < QueueCap /\ queue' = Append(queue, t)
           /\ serving' = [serving EXCEPT ![c] = IF tasks[t].sync THEN t ELSE None]
           /\ UNCHANGED down
  <2>1. t \notin Queued
    BY <1>7 DEF In, Kinds
  <2>2. QueueOK' /\ QueueOnce' /\ Queued' = Queued \cup {t}
    BY <1>5, <1>9, <2>1, QueueAppend DEF Base, Typed, Custody
  <2>3. WaitersOK'
    BY <1>3, <1>5, <1>7, <1>8, <1>9 DEF Base, Typed, WaitersOK
  <2>4. \A d \in Conn : Dispatched(d)' = Dispatched(d)
    BY <1>9, FramePlaces
  <2>5. \A u \in Nat : \A k \in Kinds : \A d \in Conn \cup {None} :
          In(u, k, d)' => In(u, k, d) \/ (u = t /\ k = "queue" /\ d = None)
    BY <1>4, <1>8, <2>2, <2>4 DEF In
  <2>6. ~In(t, "request", c)'
    BY <1>4 DEF In
  <2>7. \A u \in Nat : \A k \in Kinds : \A d \in Conn \cup {None} :
          In(u, k, d)' => IF u = t THEN k = "queue" /\ d = None ELSE In(u, k, d)
    BY <1>7, <2>5, <2>6
  <2>8. OnePlace' /\ MadeOnly'
    BY <1>7, <1>8, <2>7, OneMoves DEF Base, Custody, Kinds
  <2> QED BY <1>3, <1>4, <1>9, <2>2, <2>3, <2>8, Frame DEF Base, Typed, Custody
<1>10. CASE /\ Len(queue) >= QueueCap /\ down' = Delivered(c, Return(t, "full"))
            /\ UNCHANGED <<queue, serving>>
  <2>1. PICK x \in DownMsg : x = Return(t, "full")
    BY <1>5, DownMade DEF Results
  <2>2. x.kind = "return"
    BY <2>1 DEF Return
  <2>3. down' = Delivered(c, x) /\ DownTyped /\ DownOnce
    BY <1>10, <2>1 DEF Base, Typed, Custody
  <2>4. /\ DownTyped' /\ DownOnce'
        /\ \A d \in Conn : Dispatched(d)' = Dispatched(d)
    BY <2>2, <2>3, DeliveredFacts
  <2>5. OnePlace' /\ MadeOnly'
    BY <1>4, <1>8, <1>10, <2>4, Frame, NothingMoves DEF Base, Custody
  <2> QED BY <1>3, <1>4, <1>10, <2>4, <2>5, Frame DEF Base, Typed, Custody
<1> QED BY <1>1, <1>2, <1>9, <1>10 DEF ServeInvoke

LEMMA ServeRegisterBase ==
  ASSUME Base, NEW c \in Conn, ServeRegister(c)
  PROVE  Base'
<1>1. /\ serving[c] # None /\ waitList' = Put(waitList, serving[c], c)
      /\ serving' = [serving EXCEPT ![c] = None]
      /\ UNCHANGED <<gmVars, queue, sched, tasks, up, down, cl, wk, pools, gone, dropping>>
  BY DEF ServeRegister, nodeVars
<1>2. WaitersOK'
  BY <1>1 DEF Base, Typed, WaitersOK, Put, Task
<1>3. OnePlace' /\ MadeOnly'
  BY <1>1, Frame, FramePlaces, NothingMoves DEF Base, Custody
<1> QED BY <1>1, <1>2, <1>3, Frame DEF Base, Typed, Custody

LEMMA ServeUpdateBase ==
  ASSUME Base, NEW n \in Node, ServeUpdate(n)
  PROVE  Base'
<1>1. PICK m : m = Head(up[n])
  OBVIOUS
<1>2. /\ Requested(n, "update") /\ ReadUp(n) /\ Update(n, m.stats) /\ sched' = Notified
      /\ UNCHANGED <<waitList, queue, tasks, serving, down, cl, wk, pools, gone, dropping>>
  BY <1>1 DEF ServeUpdate, nodeVars
<1>3. /\ UpTyped' /\ UpOnce' /\ m \in UpMsg(n) /\ m.kind = "update"
      /\ \A d \in Conn : Requests(d)' \subseteq Requests(d) /\ Finishing(d)' \subseteq Finishing(d)
  BY <1>1, <1>2, Request DEF Conn
<1>4. m.stats \in Caches
  BY <1>3, UpKinds DEF Conn
<1>5. \A f \in DOMAIN m.stats : m.stats[f] \in Nat
  BY <1>4 DEF Caches
<1>6. GMInv'
  BY <1>2, <1>5, UpdatePreserves DEF Base, Typed
<1>7. SchedOK' /\ Scheduled' = Scheduled
  BY <1>2, NotifiedOK DEF Base, Typed
<1>8. OnePlace' /\ MadeOnly'
  BY <1>2, <1>3, <1>7, Frame, FramePlaces, NothingMoves DEF Base, Custody
<1> QED BY <1>2, <1>3, <1>6, <1>7, <1>8, Frame DEF Base, Typed, Custody

\* Terminate is written any number of times.
Terminates(k) == [i \in 1..k |-> Terminate]

LEMMA TerminatesFacts ==
  ASSUME NEW s \in Seq(DownMsg), Once(s, "process"), NEW k \in Nat,
         NEW r, r = s \o Terminates(k)
  PROVE  /\ r \in Seq(DownMsg) /\ Once(r, "process")
         /\ Carried(r, "process") = Carried(s, "process")
         /\ k = 0 => r = s
<1> DEFINE q == Terminates(k)
<1>1. q \in Seq(DownMsg) /\ Len(q) = k /\ \A i \in 1..Len(q) : q[i] = Terminate
  BY DownMade DEF Terminates
<1>2. Terminate.kind # "process"
  BY DEF Terminate
<1>3. k = 0 => q = <<>>
  BY <1>1
<1> HIDE DEF q
<1>4. r = s \o q
  BY DEF q
<1>5. r \in Seq(DownMsg)
  BY <1>1, <1>4
<1>6. Once(r, "process") /\ Carried(r, "process") = Carried(s, "process")
  <2>1. \A i \in 1..Len(q) : q[i].kind # "process"
    BY <1>1, <1>2
  <2>2. Once(s \o q, "process") /\ Carried(s \o q, "process") = Carried(s, "process")
    BY <1>1, <2>1, ConcatCarried
  <2> QED BY <1>4, <2>2
<1>7. k = 0 => r = s
  BY <1>3, <1>4
<1> QED BY <1>5, <1>6, <1>7

\* What ServeDrop writes, and to whom.
LEMMA DropWrites ==
  ASSUME Base, NEW n \in Node, ServeDrop(n)
  PROVE  /\ DownTyped' /\ DownOnce' /\ \A c \in Conn : Dispatched(c)' = Dispatched(c)
         /\ \A c \in Client : down'[c] = down[c]
<1> DEFINE told(c) == Cardinality({i \in 1..Len(Terminated(n)) : Terminated(n)[i] = c})
<1>1. Terminated(n) \in Seq(Worker) /\ Len(Terminated(n)) \in Nat
  BY DEF Terminated, Base, Typed, GMInv, GMTypeOK
<1>2. ASSUME NEW c
      PROVE  told(c) \in Nat
  <2>1. IsFiniteSet(1..Len(Terminated(n)))
    BY <1>1, FS_Interval
  <2>2. {i \in 1..Len(Terminated(n)) : Terminated(n)[i] = c} \subseteq 1..Len(Terminated(n))
    OBVIOUS
  <2> QED BY <2>1, <2>2, FS_Subset, FS_CardinalityType
<1>3. ASSUME NEW c \in Client
      PROVE  told(c) = 0
  <2>1. {i \in 1..Len(Terminated(n)) : Terminated(n)[i] = c} = {}
    BY <1>1, ConnAssumption
  <2> QED BY <2>1, FS_EmptySet
<1>4. down' = [c \in Conn |-> IF c \in gone THEN down[c]
                              ELSE down[c] \o [i \in 1..told(c) |-> Terminate]]
  BY DEF ServeDrop
<1> HIDE DEF told
<1>5. ASSUME NEW c \in Conn
      PROVE  /\ down'[c] \in Seq(DownMsg) /\ Once(down'[c], "process")
             /\ Carried(down'[c], "process") = Carried(down[c], "process")
             /\ told(c) = 0 => down'[c] = down[c]
  <2>1. down[c] \in Seq(DownMsg) /\ Once(down[c], "process")
    BY DEF Base, Typed, Custody, DownTyped, DownOnce
  <2>2. CASE c \in gone
    BY <1>4, <2>1, <2>2
  <2>3. CASE c \notin gone
    <3>1. PICK r : r = down'[c]
      OBVIOUS
    <3>2. PICK k \in Nat : k = told(c)
      BY <1>2
    <3>3. r = down[c] \o Terminates(k)
      BY <1>4, <2>3, <3>1, <3>2 DEF Terminates
    <3>4. /\ r \in Seq(DownMsg) /\ Once(r, "process")
          /\ Carried(r, "process") = Carried(down[c], "process")
          /\ k = 0 => r = down[c]
      BY <2>1, <3>3, TerminatesFacts
    <3> QED BY <3>1, <3>2, <3>4
  <2> QED BY <2>2, <2>3
<1>6. DownTyped'
  BY <1>4, <1>5 DEF DownTyped
<1>7. DownOnce'
  BY <1>5 DEF DownOnce
<1>8. \A c \in Conn : Dispatched(c)' = Dispatched(c)
  BY <1>5 DEF Dispatched
<1>9. \A c \in Client : down'[c] = down[c]
  BY <1>3, <1>5 DEF Conn
<1> QED BY <1>6, <1>7, <1>8, <1>9

LEMMA ServeDropBase ==
  ASSUME Base, NEW n \in Node, ServeDrop(n)
  PROVE  Base'
<1>1. /\ Remove(n) /\ dropping' = [dropping EXCEPT ![n] = "handled"]
      /\ UNCHANGED <<waitList, queue, sched, tasks, serving, up, cl, wk, pools, gone>>
  BY DEF ServeDrop
<1>2. GMInv'
  BY <1>1, RemovePreserves DEF Base, Typed
<1>3. DownTyped' /\ DownOnce' /\ \A c \in Conn : Dispatched(c)' = Dispatched(c)
  BY DropWrites
<1>4. MachinesOK'
  BY <1>1 DEF Base, Typed, MachinesOK
<1>5. OnePlace' /\ MadeOnly'
  BY <1>1, <1>3, Frame, FramePlaces, NothingMoves DEF Base, Custody
<1> QED BY <1>1, <1>2, <1>3, <1>4, <1>5, Frame DEF Base, Typed, Custody

-----------------------------------------------------------------------------
(* The scheduling thread. *)

\* A task is taken from the queue.
LEMMA QueueTail ==
  ASSUME QueueOK, QueueOnce, queue # <<>>, queue' = Tail(queue), NEW t, t = Head(queue)
  PROVE  QueueOK' /\ QueueOnce' /\ t \in Nat /\ t \in Queued /\ Queued' = Queued \ {t}
<1> DEFINE q == Tail(queue)
<1>1. /\ queue \in Seq(Nat) /\ Len(queue) \in Nat /\ Len(queue) >= 1 /\ Len(queue) <= QueueCap
      /\ QueueCap \in Nat
  BY BoundAssumption DEF QueueOK
<1>2. /\ q \in Seq(Nat) /\ Len(q) = Len(queue) - 1 /\ t = queue[1] /\ t \in Nat
      /\ \A i \in 1..Len(q) : q[i] = queue[i + 1] /\ i + 1 \in 1..Len(queue)
      /\ \A i \in 2..Len(queue) : queue[i] = q[i - 1] /\ i - 1 \in 1..Len(q)
  BY <1>1
<1>3. queue' = q
  OBVIOUS
<1> HIDE DEF q
<1>4. QueueOK'
  BY <1>1, <1>2, <1>3 DEF QueueOK
<1>5. QueueOnce'
  BY <1>2, <1>3 DEF QueueOnce
<1>6. t \in Queued
  BY <1>1, <1>2 DEF Queued
<1>7. Queued' = {q[i] : i \in 1..Len(q)}
  BY <1>3 DEF Queued
<1>8. ASSUME NEW u \in Queued'
      PROVE  u \in Queued /\ u # t
  <2>1. PICK i \in 1..Len(q) : u = q[i]
    BY <1>7, <1>8
  <2>2. i + 1 \in 1..Len(queue) /\ u = queue[i + 1] /\ 1 \in 1..Len(queue) /\ i + 1 # 1
    BY <1>1, <1>2, <2>1
  <2> QED BY <1>2, <2>2 DEF Queued, QueueOnce
<1>9. ASSUME NEW u \in Queued, u # t
      PROVE  u \in Queued'
  <2>1. PICK i \in 1..Len(queue) : u = queue[i]
    BY <1>9 DEF Queued
  <2>2. i \in 2..Len(queue)
    BY <1>1, <1>2, <1>9, <2>1
  <2> QED BY <1>2, <1>7, <2>1, <2>2
<1> QED BY <1>2, <1>4, <1>5, <1>6, <1>8, <1>9

LEMMA SchedRecvBase ==
  ASSUME Base, SchedRecv
  PROVE  Base'
<1>1. PICK t : t = Head(queue)
  OBVIOUS
<1>2. /\ queue # <<>> /\ queue' = Tail(queue)
      /\ sched' = [pc |-> "find", task |-> t, worker |-> None]
      /\ UNCHANGED <<gmVars, waitList, tasks, serving, up, down, cl, wk, pools, gone, dropping>>
  BY <1>1 DEF SchedRecv, nodeVars
<1>3. QueueOK' /\ QueueOnce' /\ t \in Nat /\ t \in Queued /\ Queued' = Queued \ {t}
  BY <1>1, <1>2, QueueTail DEF Base, Typed, Custody
<1>4. SchedOK' /\ Scheduled' = {t}
  BY <1>2, <1>3, NoneIsNoTask DEF SchedOK, SchedRec, Scheduled
<1>5. In(t, "queue", None) /\ "queue" \in Kinds
  BY <1>3 DEF In, Kinds
<1>6. /\ t \in Task
      /\ \A l \in Kinds : \A d \in Conn \cup {None} : In(t, l, d) => l = "queue" /\ d = None
  BY <1>3, <1>5, InOnePlace
<1>7. /\ (\A w \in Worker : Working(w)' = Working(w)) /\ Task' = Task
      /\ \A d \in Conn : /\ Requests(d)' = Requests(d) /\ Finishing(d)' = Finishing(d)
                         /\ Dispatched(d)' = Dispatched(d)
  BY <1>2, Frame, FramePlaces
<1>8. \A u \in Nat : \A k \in Kinds : \A d \in Conn \cup {None} :
        In(u, k, d)' => (In(u, k, d) /\ ~(u = t /\ k = "queue")) \/ (u = t /\ k = "scheduler" /\ d = None)
  BY <1>3, <1>4, <1>7 DEF In
<1>9. \A u \in Nat : \A k \in Kinds : \A d \in Conn \cup {None} :
        In(u, k, d)' => IF u = t THEN k = "scheduler" /\ d = None ELSE In(u, k, d)
  BY <1>6, <1>8
<1>10. OnePlace' /\ MadeOnly'
  BY <1>6, <1>7, <1>9, OneMoves DEF Base, Custody, Kinds
<1> QED BY <1>2, <1>3, <1>4, <1>10, Frame DEF Base, Typed, Custody

\* The task that the scheduling thread has in hand.
LEMMA InHand ==
  ASSUME Base, sched.pc # "recv", NEW t, t = sched.task
  PROVE  /\ t \in Nat /\ t \in Task /\ In(t, "scheduler", None)
         /\ \A l \in Kinds : \A d \in Conn \cup {None} : In(t, l, d) => l = "scheduler" /\ d = None
<1>1. t \in Nat /\ t # None
  BY NoneIsNoTask DEF Base, Typed, SchedOK
<1>2. In(t, "scheduler", None) /\ "scheduler" \in Kinds
  BY <1>1 DEF In, Scheduled, Kinds
<1> QED BY <1>1, <1>2, InOnePlace

LEMMA SchedFindBase ==
  ASSUME Base, SchedFind
  PROVE  Base'
<1>1. PICK t : t = sched.task
  OBVIOUS
<1>2. PICK f : f = tasks[t].fn
  OBVIOUS
<1>3. PICK r \in Worker \cup {None} :
        /\ FindIdle(f, r)
        /\ sched' = [sched EXCEPT !.pc = IF r = None THEN "wait" ELSE "write", !.worker = r]
  BY <1>1, <1>2 DEF SchedFind
<1>4. /\ sched.pc = "find"
      /\ UNCHANGED <<waitList, queue, tasks, serving, up, down, cl, wk, pools, gone, dropping>>
  BY DEF SchedFind, nodeVars
<1>5. t \in Task
  BY <1>1, <1>4, InHand
<1>6. f \in Function
  BY <1>2, <1>5, TaskFn
<1>7. GMInv'
  BY <1>3, <1>6, FindCachedPreserves, FindAnyPreserves DEF Base, Typed, FindIdle
<1>8. /\ sched' \in SchedRec /\ sched'.task = sched.task /\ sched'.worker = r
      /\ sched'.pc = IF r = None THEN "wait" ELSE "write"
  BY <1>3 DEF Base, Typed, SchedOK, SchedRec
<1>9. SchedOK' /\ Scheduled' = Scheduled
  BY <1>3, <1>4, <1>8 DEF Base, Typed, SchedOK, Scheduled
<1>10. OnePlace' /\ MadeOnly'
  BY <1>4, <1>9, Frame, FramePlaces, NothingMoves DEF Base, Custody
<1> QED BY <1>4, <1>7, <1>9, <1>10, Frame DEF Base, Typed, Custody

LEMMA SchedSpuriousWakeBase ==
  ASSUME Base, SchedSpuriousWake
  PROVE  Base'
<1>1. /\ sched.pc = "wait" /\ sched' = [sched EXCEPT !.pc = "find"]
      /\ UNCHANGED <<gmVars, waitList, queue, tasks, serving, up, down, cl, wk, pools, gone, dropping>>
  BY DEF SchedSpuriousWake, nodeVars
<1>2. SchedOK' /\ Scheduled' = Scheduled
  BY <1>1 DEF Base, Typed, SchedOK, SchedRec, Scheduled
<1>3. OnePlace' /\ MadeOnly'
  BY <1>1, <1>2, Frame, FramePlaces, NothingMoves DEF Base, Custody
<1> QED BY <1>1, <1>2, <1>3, Frame DEF Base, Typed, Custody

LEMMA SchedWriteBase ==
  ASSUME Base, SchedWrite
  PROVE  Base'
<1>1. PICK t : t = sched.task
  OBVIOUS
<1>2. /\ sched.pc = "write"
      /\ UNCHANGED <<gmVars, waitList, queue, tasks, serving, up, cl, wk, pools, gone, dropping>>
  BY DEF SchedWrite, nodeVars
<1>3. PICK w \in Worker : w = sched.worker
  BY <1>2 DEF Base, Typed, SchedOK
<1>4. /\ t \in Nat /\ t \in Task
      /\ \A l \in Kinds : \A d \in Conn \cup {None} : In(t, l, d) => l = "scheduler" /\ d = None
  BY <1>1, <1>2, InHand
<1>5. /\ (\A v \in Worker : Working(v)' = Working(v)) /\ Task' = Task /\ Queued' = Queued
      /\ \A d \in Conn : Requests(d)' = Requests(d) /\ Finishing(d)' = Finishing(d)
  BY <1>2, Frame, FramePlaces
<1>6. CASE /\ down' = Delivered(sched.worker, ProcessTask(sched.task))
           /\ sched' = [pc |-> "recv", task |-> None, worker |-> None]
  <2>1. PICK x \in DownMsg : x = ProcessTask(t)
    BY <1>4, DownMade
  <2>2. x.kind = "process" /\ x.task = t
    BY <2>1 DEF ProcessTask
  <2>3. down' = Delivered(w, x) /\ DownTyped /\ DownOnce /\ w \in Conn
    BY <1>1, <1>3, <1>6, <2>1 DEF Base, Typed, Custody, Conn
  <2>4. t \notin Dispatched(w)
    BY <1>4, <2>3 DEF In, Kinds
  <2>5. /\ DownTyped' /\ DownOnce'
        /\ \A d \in Conn \ {w} : Dispatched(d)' = Dispatched(d)
        /\ Dispatched(w)' \subseteq Dispatched(w) \cup {t}
    BY <2>2, <2>3, <2>4, DeliveredFacts
  <2>6. SchedOK' /\ Scheduled' = {}
    BY <1>6 DEF SchedOK, SchedRec, Scheduled
  <2>7. \A u \in Nat : \A k \in Kinds : \A d \in Conn \cup {None} :
          In(u, k, d)' => (In(u, k, d) /\ k # "scheduler") \/ (u = t /\ k = "dispatch" /\ d = w)
    BY <1>5, <2>5, <2>6 DEF In
  <2>8. \A u \in Nat : \A k \in Kinds : \A d \in Conn \cup {None} :
          In(u, k, d)' => IF u = t THEN k = "dispatch" /\ d = w ELSE In(u, k, d)
    BY <1>4, <2>7
  <2>9. OnePlace' /\ MadeOnly'
    BY <1>4, <1>5, <2>3, <2>8, OneMoves DEF Base, Custody, Kinds
  <2> QED BY <1>2, <2>5, <2>6, <2>9, Frame DEF Base, Typed, Custody
<1>7. CASE /\ sched' = [sched EXCEPT !.pc = "find", !.worker = None] /\ UNCHANGED down
  <2>1. SchedOK' /\ Scheduled' = Scheduled
    BY <1>2, <1>7 DEF Base, Typed, SchedOK, SchedRec, Scheduled
  <2>2. OnePlace' /\ MadeOnly'
    BY <1>5, <1>7, <2>1, FramePlaces, NothingMoves DEF Base, Custody
  <2> QED BY <1>2, <1>7, <2>1, <2>2, Frame DEF Base, Typed, Custody
<1> QED BY <1>6, <1>7 DEF SchedWrite

-----------------------------------------------------------------------------
(* The worker threads. *)

\* A worker thread moves.
LEMMA ThreadStep ==
  ASSUME Base, NEW w \in Worker, cl' = cl, Task \subseteq Task',
         wk' \in [Worker -> WkRec], \A v \in Worker \ {w} : wk'[v] = wk[v],
         wk'[w].task # None => wk'[w].task \in Task',
         wk'[w].pc \in {"alloc", "run", "call", "finish"} => wk'[w].task # None
  PROVE  /\ ThreadsOK'
         /\ \A v \in Worker \ {w} : Working(v)' = Working(v)
         /\ Working(w)' = IF wk'[w].pc = "dead" THEN {} ELSE {wk'[w].task} \ {None}
<1>1. ThreadsOK'
  BY DEF Base, Typed, ThreadsOK
<1>2. \A v \in Worker \ {w} : Working(v)' = Working(v)
  BY DEF Working
<1>3. Working(w)' = IF wk'[w].pc = "dead" THEN {} ELSE {wk'[w].task} \ {None}
  BY DEF Working
<1> QED BY <1>1, <1>2, <1>3

LEMMA WorkerTyped ==
  ASSUME Base
  PROVE  /\ wk \in [Worker -> WkRec]
         /\ \A w \in Worker : wk[w].task # None => wk[w].task \in Task
         /\ \A w \in Worker : wk[w].pc \in {"alloc", "run", "call", "finish"} =>
                                wk[w].task # None /\ wk[w].task \in Task
         /\ UpTyped /\ UpOnce /\ DownTyped /\ DownOnce /\ OnePlace /\ MadeOnly
BY DEF Base, Typed, Custody, ThreadsOK

LEMMA WorkerGetBase ==
  ASSUME Base, NEW w \in Worker, WorkerGet(w)
  PROVE  Base'
<1>1. /\ Send(w, GetTask) /\ wk' = [wk EXCEPT ![w].pc = "await"]
      /\ UNCHANGED <<gmVars, waitList, queue, sched, tasks, serving, down, cl, pools, gone, dropping>>
  BY DEF WorkerGet
<1>2. /\ UpTyped' /\ UpOnce'
      /\ \A d \in Conn : Requests(d)' = Requests(d) /\ Finishing(d)' = Finishing(d)
  <2>1. UpTyped /\ UpOnce /\ w \in Conn /\ GetTask \in UpMsg(w) /\ GetTask.kind = "get"
    BY UpMade, WorkerTyped DEF Conn, GetTask
  <2> QED BY <1>1, <2>1, SendFacts
<1>3. Task' = Task
  BY <1>1, Frame
<1>4. /\ wk' \in [Worker -> WkRec] /\ \A v \in Worker \ {w} : wk'[v] = wk[v]
      /\ wk'[w].task = wk[w].task /\ wk'[w].pc = "await"
  BY <1>1, WorkerTyped DEF WkRec
<1>5. ThreadsOK' /\ \A v \in Worker : Working(v)' \subseteq Working(v)
  <2>1. Working(w)' \subseteq Working(w)
    BY <1>1, <1>4, WorkerTyped DEF Working, WorkerGet
  <2> QED BY <1>1, <1>3, <1>4, <2>1, ThreadStep, WorkerTyped
<1>6. OnePlace' /\ MadeOnly'
  BY <1>1, <1>2, <1>5, Frame, FramePlaces, NothingMoves, WorkerTyped
<1> QED BY <1>1, <1>2, <1>5, <1>6, Frame DEF Base, Typed, Custody

LEMMA WorkerReadBase ==
  ASSUME Base, NEW w \in Worker, WorkerRead(w)
  PROVE  Base'
<1>1. PICK m : m = Head(down[w])
  OBVIOUS
<1>2. /\ wk[w].pc = "await" /\ down[w] # <<>> /\ ReadDown(w)
      /\ UNCHANGED <<gmVars, waitList, queue, sched, tasks, serving, up, cl, pools, dropping>>
  BY DEF WorkerRead
<1>3. /\ m \in DownMsg /\ DownTyped' /\ DownOnce'
      /\ \A d \in Conn \ {w} : Dispatched(d)' = Dispatched(d)
      /\ Dispatched(w)' = IF m.kind = "process" THEN Dispatched(w) \ {m.task} ELSE Dispatched(w)
      /\ m.kind = "process" => m.task \in Dispatched(w)
      /\ w \in Conn
  <2>1. w \in Conn
    BY DEF Conn
  <2> QED BY <1>1, <1>2, <2>1, ReadDownFacts, WorkerTyped
<1>4. /\ Task' = Task /\ Queued' = Queued /\ Scheduled' = Scheduled
      /\ \A d \in Conn : Requests(d)' = Requests(d) /\ Finishing(d)' = Finishing(d)
  BY <1>2, Frame, FramePlaces
<1>5. CASE /\ m.kind = "process" /\ UNCHANGED gone
           /\ wk' = [wk EXCEPT ![w].pc = "alloc", ![w].task = m.task]
  <2>1. PICK t \in Nat : t = m.task
    BY <1>3, <1>5, DownKinds
  <2>2. In(t, "dispatch", w) /\ "dispatch" \in Kinds /\ t # None
    BY <1>3, <1>5, <2>1, NoneIsNoTask DEF In, Kinds
  <2>3. /\ t \in Task
        /\ \A l \in Kinds : \A d \in Conn \cup {None} : In(t, l, d) => l = "dispatch" /\ d = w
    BY <1>3, <2>2, InOnePlace
  <2>4. /\ wk' \in [Worker -> WkRec] /\ \A v \in Worker \ {w} : wk'[v] = wk[v]
        /\ wk'[w].task = t /\ wk'[w].pc = "alloc"
    BY <1>5, <2>1, WorkerTyped DEF WkRec
  <2>5. /\ ThreadsOK' /\ \A v \in Worker \ {w} : Working(v)' = Working(v)
        /\ Working(w)' = {t}
    BY <1>2, <1>4, <2>2, <2>3, <2>4, ThreadStep
  <2>6. t \notin Dispatched(w)'
    BY <1>3, <1>5, <2>1
  <2>7. \A u \in Nat : \A k \in Kinds : \A d \in Conn \cup {None} :
          In(u, k, d)' => (In(u, k, d) /\ ~(u = t /\ k = "dispatch" /\ d = w)) \/ (u = t /\ k = "worker" /\ d = w)
    BY <1>3, <1>4, <2>5, <2>6 DEF In
  <2>8. \A u \in Nat : \A k \in Kinds : \A d \in Conn \cup {None} :
          In(u, k, d)' => IF u = t THEN k = "worker" /\ d = w ELSE In(u, k, d)
    BY <2>3, <2>7
  <2>9. OnePlace' /\ MadeOnly'
    BY <1>3, <1>4, <2>3, <2>8, OneMoves, WorkerTyped DEF Kinds
  <2> QED BY <1>2, <1>3, <1>5, <2>5, <2>9, Frame DEF Base, Typed, Custody
<1>6. ASSUME NEW p, p \in {"dead", "get"}, wk' = [wk EXCEPT ![w].pc = p],
             gone' = gone \/ gone' = gone \cup {w}
      PROVE  Base'
  <2>1. /\ wk' \in [Worker -> WkRec] /\ \A v \in Worker \ {w} : wk'[v] = wk[v]
        /\ wk'[w].task = wk[w].task /\ wk'[w].pc = p
    BY <1>6, WorkerTyped DEF WkRec
  <2>2. Working(w)' \subseteq Working(w)
    BY <1>2, <2>1 DEF Working
  <2>3. ThreadsOK' /\ \A v \in Worker : Working(v)' \subseteq Working(v)
    BY <1>2, <1>4, <1>6, <2>1, <2>2, ThreadStep, WorkerTyped
  <2>4. MachinesOK'
    BY <1>2, <1>6 DEF Base, Typed, MachinesOK
  <2>5. OnePlace' /\ MadeOnly'
    BY <1>3, <1>4, <2>3, NothingMoves, WorkerTyped
  <2> QED BY <1>2, <1>3, <2>3, <2>4, <2>5, Frame DEF Base, Typed, Custody
<1>7. \/ /\ m.kind = "process" /\ UNCHANGED gone
         /\ wk' = [wk EXCEPT ![w].pc = "alloc", ![w].task = m.task]
      \/ wk' = [wk EXCEPT ![w].pc = "dead"] /\ gone' = gone \cup {w}
      \/ wk' = [wk EXCEPT ![w].pc = "get"] /\ gone' = gone
  BY <1>1 DEF WorkerRead, Received
<1> QED BY <1>5, <1>6, <1>7

\* A machine reports.
LEMMA ReportsFacts ==
  ASSUME Base, NEW n \in Node, NEW r \in Seq(NodeMsg), up' = [up EXCEPT ![n] = up[n] \o r]
  PROVE  /\ UpTyped' /\ UpOnce' /\ \A d \in Conn \ {n} : up'[d] = up[d]
         /\ \A d \in Conn : Requests(d)' = Requests(d) /\ Finishing(d)' = Finishing(d)
<1>1. n \in Conn /\ UpMsg(n) = NodeMsg
  BY UpMade DEF Conn
<1>2. DOMAIN up' = Conn /\ up'[n] = up[n] \o r /\ \A d \in Conn \ {n} : up'[d] = up[d]
  BY <1>1 DEF Base, Typed, UpTyped
<1>3. up[n] \in Seq(NodeMsg) /\ Once(up[n], "invoke") /\ Once(up[n], "finish")
  BY <1>1 DEF Base, Typed, Custody, UpTyped, UpOnce
<1>4. up[n] \o r \in Seq(NodeMsg)
  BY <1>3
<1>5. UpTyped'
  <2>1. \A d \in Conn : up'[d] \in Seq(UpMsg(d))
    BY <1>1, <1>2, <1>4 DEF Base, Typed, UpTyped
  <2> QED BY <1>2, <2>1 DEF UpTyped, UpMsg
<1>6. \A i \in 1..Len(r) : r[i] \in NodeMsg
  OBVIOUS
<1>7. \A i \in 1..Len(r) : r[i].kind # "invoke" /\ r[i].kind # "finish"
  BY <1>6 DEF NodeMsg
<1>8. /\ Once(up[n] \o r, "invoke") /\ Carried(up[n] \o r, "invoke") = Carried(up[n], "invoke")
      /\ Once(up[n] \o r, "finish") /\ Carried(up[n] \o r, "finish") = Carried(up[n], "finish")
  BY <1>3, <1>7, ConcatCarried
<1>9. UpOnce'
  BY <1>2, <1>8 DEF Base, Custody, UpOnce
<1>10. \A d \in Conn : Requests(d)' = Requests(d) /\ Finishing(d)' = Finishing(d)
  BY <1>2, <1>8 DEF Requests, Finishing
<1> QED BY <1>2, <1>5, <1>9, <1>10

\* A worker thread goes on with the task it has; its machine's pool changes, and
\* the machine reports.
LEMMA Carries ==
  ASSUME Base, NEW w \in Worker, NEW p, NEW r \in Seq(NodeMsg), PoolOK(p),
         wk[w].pc # "dead", wk' \in [Worker -> WkRec], \A v \in Worker \ {w} : wk'[v] = wk[v],
         wk'[w].task = wk[w].task, wk[w].task # None, wk'[w].pc # "dead",
         up' = [up EXCEPT ![NodeOf[w]] = up[NodeOf[w]] \o r],
         pools' = pools \/ pools' = [pools EXCEPT ![NodeOf[w]] = p],
         UNCHANGED <<gmVars, waitList, queue, sched, tasks, serving, down, cl, gone, dropping>>
  PROVE  Base'
<1>1. NodeOf[w] \in Node
  BY NodeOfAssumption
<1>2. /\ UpTyped' /\ UpOnce'
      /\ \A d \in Conn : Requests(d)' = Requests(d) /\ Finishing(d)' = Finishing(d)
  BY <1>1, ReportsFacts
<1>3. Task' = Task /\ wk[w].task \in Task
  BY Frame, WorkerTyped
<1>4. Working(w)' = Working(w)
  BY DEF Working
<1>5. ThreadsOK' /\ \A v \in Worker : Working(v)' = Working(v)
  BY <1>3, <1>4, ThreadStep
<1>6. MachinesOK'
  BY <1>1 DEF Base, Typed, MachinesOK
<1>7. OnePlace' /\ MadeOnly'
  BY <1>2, <1>3, <1>5, Frame, FramePlaces, NothingMoves, WorkerTyped
<1> QED BY <1>2, <1>5, <1>6, <1>7, Frame DEF Base, Typed, Custody

LEMMA WorkerAllocBase ==
  ASSUME Base, NEW w \in Worker, NEW flows, WorkerAlloc(w, flows)
  PROVE  Base'
<1>1. PICK n \in Node : n = NodeOf[w]
  BY NodeOfAssumption
<1>2. PICK p : p = pools[n]
  OBVIOUS
<1>3. PICK f : f = tasks[wk[w].task].fn
  OBVIOUS
<1>4. /\ wk[w].pc = "alloc" /\ wk[w].task # None /\ wk[w].task \in Task
      /\ UNCHANGED <<gmVars, waitList, queue, sched, tasks, serving, down, cl, gone, dropping>>
  BY WorkerTyped DEF WorkerAlloc
<1>5. f \in Function /\ PoolOK(p)
  BY <1>2, <1>3, <1>4, TaskFn DEF Base, Typed, MachinesOK
<1>6. /\ VM!CachedVms(p, f) > 0 => PoolOK(VM!Taken(p, f))
      /\ VM!NewVm(p, f).res = "ok" => PoolOK(VM!NewVm(p, f).pool)
  BY <1>5, PoolSteps
<1>7. ASSUME NEW q, PoolOK(q)
      PROVE  Report(q.cache) \in NodeMsg
  BY <1>7, UpMade, NodeOfAssumption DEF PoolOK
<1> DEFINE hit   == VM!CachedVms(p, f) > 0
           new   == VM!NewVm(p, f)
           tried == IF hit THEN <<Report(VM!Taken(p, f).cache), Report(p.cache)>>
                           ELSE <<Report(p.cache)>>
<1>8. tried \in Seq(NodeMsg) /\ (hit => <<Head(tried)>> \in Seq(NodeMsg))
  <2>1. Report(p.cache) \in NodeMsg
    BY <1>5, <1>7
  <2>2. CASE hit
    <3>1. Report(VM!Taken(p, f).cache) \in NodeMsg
      BY <1>6, <1>7, <2>2
    <3> QED BY <2>1, <2>2, <3>1
  <2>3. CASE ~hit
    BY <2>1, <2>3
  <2> QED BY <2>2, <2>3
<1>9. CASE /\ hit /\ pools' = [pools EXCEPT ![n] = VM!Taken(p, f)]
           /\ up' = [up EXCEPT ![n] = @ \o <<Head(tried)>>]
           /\ wk' = [wk EXCEPT ![w].pc = "run"]
  <2>1. /\ wk' \in [Worker -> WkRec] /\ \A v \in Worker \ {w} : wk'[v] = wk[v]
        /\ wk'[w].task = wk[w].task /\ wk'[w].pc = "run"
    BY <1>9, WorkerTyped DEF WkRec
  <2>2. PICK r \in Seq(NodeMsg) : r = <<Head(tried)>>
    BY <1>8, <1>9
  <2>3. PICK q : q = VM!Taken(p, f)
    OBVIOUS
  <2> HIDE DEF hit, tried
  <2>4. PoolOK(q) /\ up' = [up EXCEPT ![n] = up[n] \o r] /\ pools' = [pools EXCEPT ![n] = q]
    BY <1>6, <1>9, <2>2, <2>3 DEF hit
  <2> QED BY <1>1, <1>4, <2>1, <2>4, Carries
<1>10. CASE /\ new.res = "ok" /\ pools' = [pools EXCEPT ![n] = new.pool]
            /\ up' = [up EXCEPT ![n] = @ \o Append(tried, Report(new.pool.cache))]
            /\ wk' = [wk EXCEPT ![w].pc = "run"]
  <2>1. /\ wk' \in [Worker -> WkRec] /\ \A v \in Worker \ {w} : wk'[v] = wk[v]
        /\ wk'[w].task = wk[w].task /\ wk'[w].pc = "run"
    BY <1>10, WorkerTyped DEF WkRec
  <2>2. PICK q : q = new.pool
    OBVIOUS
  <2>3. PoolOK(q)
    BY <1>6, <1>10, <2>2
  <2> HIDE DEF hit, tried, new
  <2>4. PICK x \in NodeMsg : x = Report(q.cache)
    BY <1>7, <2>3
  <2>5. PICK r \in Seq(NodeMsg) : r = Append(tried, x)
    <3>1. tried \in Seq(NodeMsg)
      BY <1>8
    <3>2. Append(tried, x) \in Seq(NodeMsg)
      BY <3>1
    <3> QED BY <3>2
  <2>6. up' = [up EXCEPT ![n] = up[n] \o r] /\ pools' = [pools EXCEPT ![n] = q]
    BY <1>10, <2>2, <2>4, <2>5
  <2> QED BY <1>1, <1>4, <2>1, <2>3, <2>6, Carries
<1>11. CASE /\ up' = [up EXCEPT ![n] = @ \o Append(tried, Report(p.cache))]
            /\ wk' = [wk EXCEPT ![w].pc = "finish", ![w].res = "exhausted"]
            /\ UNCHANGED pools
  <2>1. /\ wk' \in [Worker -> WkRec] /\ \A v \in Worker \ {w} : wk'[v] = wk[v]
        /\ wk'[w].task = wk[w].task /\ wk'[w].pc = "finish"
    BY <1>11, WorkerTyped DEF WkRec, Results
  <2> HIDE DEF hit, tried
  <2>2. PICK x \in NodeMsg : x = Report(p.cache)
    BY <1>5, <1>7
  <2>3. PICK r \in Seq(NodeMsg) : r = Append(tried, x)
    <3>1. tried \in Seq(NodeMsg)
      BY <1>8
    <3>2. Append(tried, x) \in Seq(NodeMsg)
      BY <3>1
    <3> QED BY <3>2
  <2>4. up' = [up EXCEPT ![n] = up[n] \o r]
    BY <1>11, <2>2, <2>3
  <2> QED BY <1>1, <1>4, <1>5, <1>11, <2>1, <2>4, Carries
<1> QED BY <1>1, <1>2, <1>3, <1>9, <1>10, <1>11 DEF WorkerAlloc

LEMMA WorkerRunBase ==
  ASSUME Base, NEW w \in Worker, WorkerRun(w)
  PROVE  Base'
<1>1. PICK n \in Node : n = NodeOf[w]
  BY NodeOfAssumption
<1>2. PICK f : f = tasks[wk[w].task].fn
  OBVIOUS
<1>3. /\ wk[w].pc = "run" /\ wk[w].task # None /\ wk[w].task \in Task
      /\ UNCHANGED <<gmVars, waitList, queue, sched, tasks, serving, down, cl, gone, dropping>>
  BY WorkerTyped DEF WorkerRun
<1>4. f \in Function /\ PoolOK(pools[n])
  BY <1>2, <1>3, TaskFn DEF Base, Typed, MachinesOK
<1>5. PICK ok \in BOOLEAN :
        LET p == IF ok THEN VM!Released(pools[n], f) ELSE VM!Deleted(pools[n], f)
        IN  /\ pools' = [pools EXCEPT ![n] = p]
            /\ Send(n, Report(p.cache))
            /\ wk' = [wk EXCEPT ![w].pc = "finish", ![w].res = IF ok THEN "ok" ELSE "failed"]
  BY <1>1, <1>2 DEF WorkerRun
<1>6. PICK p : p = IF ok THEN VM!Released(pools[n], f) ELSE VM!Deleted(pools[n], f)
  OBVIOUS
<1>7. PoolOK(p)
  BY <1>4, <1>6, PoolSteps
<1>8. PICK x \in NodeMsg : x = Report(p.cache)
  BY <1>7, UpMade DEF PoolOK
<1>9. PICK r \in Seq(NodeMsg) : r = <<x>>
  <2>1. <<x>> \in Seq(NodeMsg)
    OBVIOUS
  <2> QED BY <2>1
<1>10. up' = [up EXCEPT ![n] = up[n] \o r]
  <2>1. up' = [up EXCEPT ![n] = Append(up[n], x)]
    BY <1>5, <1>6, <1>8 DEF Send
  <2>2. up[n] \in Seq(NodeMsg)
    BY UpMade DEF Base, Typed, UpTyped, Conn
  <2>3. Append(up[n], x) = up[n] \o r
    BY <1>9, <2>2
  <2> QED BY <2>1, <2>3
<1>11. /\ wk' \in [Worker -> WkRec] /\ \A v \in Worker \ {w} : wk'[v] = wk[v]
       /\ wk'[w].task = wk[w].task /\ wk'[w].pc = "finish"
  BY <1>5, WorkerTyped DEF WkRec, Results
<1>12. pools' = [pools EXCEPT ![n] = p]
  BY <1>5, <1>6
<1> QED BY <1>1, <1>3, <1>7, <1>10, <1>11, <1>12, Carries

LEMMA WorkerInvokeBase ==
  ASSUME Base, NEW w \in Worker, NEW f \in Function, NEW sync \in BOOLEAN, WorkerInvoke(w, f, sync)
  PROVE  Base'
<1>1. PICK t : t = Len(tasks) + 1
  OBVIOUS
<1>2. PICK r : r = [fn |-> f, sync |-> sync, from |-> w]
  OBVIOUS
<1>3. /\ wk[w].pc = "run" /\ wk[w].task # None /\ wk[w].task \in Task
      /\ Len(tasks) < MaxTasks /\ tasks' = Append(tasks, r) /\ Send(w, Invoke(t))
      /\ wk' = [wk EXCEPT ![w].pc = IF sync THEN "call" ELSE "run"]
      /\ UNCHANGED <<gmVars, waitList, queue, sched, serving, down, cl, pools, gone, dropping>>
  BY <1>1, <1>2, WorkerTyped DEF WorkerInvoke
<1>4. r \in TaskRec
  BY <1>2 DEF TaskRec
<1>5. /\ TasksOK' /\ Task \subseteq Task' /\ t \in Task' /\ t \in Nat /\ t \notin Task
      /\ WaitersOK'
      /\ \A k \in Kinds : \A d \in Conn \cup {None} : ~In(t, k, d)
  BY <1>1, <1>3, <1>4, NewTask
<1>6. PICK x \in UpMsg(w) : x = Invoke(t)
  BY <1>5, UpMade
<1>7. x.kind = "invoke" /\ x.task = t /\ w \in Conn
  BY <1>6 DEF Invoke, Conn
<1>8. t \notin Requests(w)
  BY <1>5, <1>7 DEF In, Kinds
<1>9. /\ UpTyped' /\ UpOnce'
      /\ \A d \in Conn : Requests(d)' \subseteq Requests(d) \cup (IF d = w THEN {t} ELSE {})
      /\ \A d \in Conn : Finishing(d)' = Finishing(d)
  BY <1>3, <1>6, <1>7, <1>8, SendFacts, WorkerTyped
<1>10. /\ wk' \in [Worker -> WkRec] /\ \A v \in Worker \ {w} : wk'[v] = wk[v]
       /\ wk'[w].task = wk[w].task /\ wk'[w].pc \in {"call", "run"}
  BY <1>3, WorkerTyped DEF WkRec
<1>11. Working(w)' = Working(w)
  BY <1>3, <1>10 DEF Working
<1>12. ThreadsOK' /\ \A v \in Worker : Working(v)' = Working(v)
  BY <1>3, <1>5, <1>10, <1>11, ThreadStep
<1>13. OnePlace' /\ MadeOnly'
  <2>1. /\ Queued' = Queued /\ Scheduled' = Scheduled
        /\ \A d \in Conn : Dispatched(d)' = Dispatched(d)
    BY <1>3, Frame, FramePlaces
  <2>2. \A u \in Nat : \A k \in Kinds : \A d \in Conn \cup {None} :
          In(u, k, d)' => In(u, k, d) \/ (u = t /\ k = "request" /\ d = w)
    BY <1>9, <1>12, <2>1 DEF In
  <2>3. \A u \in Nat : \A k \in Kinds : \A d \in Conn \cup {None} :
          In(u, k, d)' => IF u = t THEN k = "request" /\ d = w ELSE In(u, k, d)
    BY <1>5, <2>2
  <2> QED BY <1>5, <1>7, <2>3, OneMoves, WorkerTyped DEF Kinds
<1> QED BY <1>3, <1>5, <1>9, <1>12, <1>13, Frame DEF Base, Typed, Custody

LEMMA WorkerReplyBase ==
  ASSUME Base, NEW w \in Worker, WorkerReply(w)
  PROVE  Base'
<1>1. PICK m : m = Head(down[w])
  OBVIOUS
<1>2. /\ wk[w].pc = "call" /\ down[w] # <<>> /\ ReadDown(w)
      /\ UNCHANGED <<gmVars, waitList, queue, sched, tasks, serving, up, cl, pools, dropping>>
  BY DEF WorkerReply
<1>3. PICK p \in {"dead", "run"} :
        /\ wk' = [wk EXCEPT ![w].pc = p]
        /\ gone' = gone \/ gone' = gone \cup {w}
  BY DEF WorkerReply
<1>4. /\ DownTyped' /\ DownOnce' /\ \A d \in Conn : Dispatched(d)' \subseteq Dispatched(d)
  <2>1. w \in Conn
    BY DEF Conn
  <2>2. /\ DownTyped' /\ DownOnce' /\ \A d \in Conn \ {w} : Dispatched(d)' = Dispatched(d)
        /\ Dispatched(w)' = IF m.kind = "process" THEN Dispatched(w) \ {m.task} ELSE Dispatched(w)
    BY <1>1, <1>2, <2>1, ReadDownFacts, WorkerTyped
  <2> QED BY <2>2
<1>5. /\ wk' \in [Worker -> WkRec] /\ \A v \in Worker \ {w} : wk'[v] = wk[v]
      /\ wk'[w].task = wk[w].task /\ wk'[w].pc = p /\ wk[w].task # None /\ wk[w].task \in Task
  BY <1>2, <1>3, WorkerTyped DEF WkRec
<1>6. Task' = Task
  BY <1>2, Frame
<1>7. Working(w)' \subseteq Working(w)
  BY <1>2, <1>5 DEF Working
<1>8. ThreadsOK' /\ \A v \in Worker : Working(v)' \subseteq Working(v)
  BY <1>2, <1>5, <1>6, <1>7, ThreadStep
<1>9. MachinesOK'
  BY <1>2, <1>3 DEF Base, Typed, MachinesOK
<1>10. OnePlace' /\ MadeOnly'
  BY <1>2, <1>4, <1>6, <1>8, Frame, FramePlaces, NothingMoves, WorkerTyped
<1> QED BY <1>2, <1>4, <1>8, <1>9, <1>10, Frame DEF Base, Typed, Custody

LEMMA WorkerFinishBase ==
  ASSUME Base, NEW w \in Worker, WorkerFinish(w)
  PROVE  Base'
<1>1. PICK t : t = wk[w].task
  OBVIOUS
<1>2. /\ wk[w].pc = "finish" /\ t # None /\ t \in Task /\ Send(w, Finish(t, wk[w].res))
      /\ wk' = [wk EXCEPT ![w] = [pc |-> "get", task |-> None, res |-> "none"]]
      /\ UNCHANGED <<gmVars, waitList, queue, sched, tasks, serving, down, cl, pools, gone, dropping>>
  BY <1>1, WorkerTyped DEF WorkerFinish
<1>3. t \in Nat /\ w \in Conn /\ wk[w].res \in Results
  BY <1>2, TaskFn, WorkerTyped DEF Conn, WkRec
<1>4. PICK x \in UpMsg(w) : x = Finish(t, wk[w].res)
  BY <1>3, UpMade
<1>5. x.kind = "finish" /\ x.task = t
  BY <1>4 DEF Finish
<1>6. In(t, "worker", w) /\ "worker" \in Kinds
  BY <1>1, <1>2 DEF In, Working, Kinds
<1>7. \A l \in Kinds : \A d \in Conn \cup {None} : In(t, l, d) => l = "worker" /\ d = w
  BY <1>3, <1>6, InOnePlace
<1>8. t \notin Finishing(w)
  BY <1>3, <1>7 DEF In, Kinds
<1>9. /\ UpTyped' /\ UpOnce'
      /\ \A d \in Conn : Requests(d)' = Requests(d)
      /\ \A d \in Conn \ {w} : Finishing(d)' = Finishing(d)
      /\ Finishing(w)' = Finishing(w) \cup {t}
  BY <1>2, <1>3, <1>4, <1>5, <1>8, SendFacts, WorkerTyped
<1>10. /\ wk' \in [Worker -> WkRec] /\ \A v \in Worker \ {w} : wk'[v] = wk[v]
       /\ wk'[w].task = None /\ wk'[w].pc = "get"
  BY <1>2, WorkerTyped DEF WkRec, Results
<1>11. /\ Task' = Task /\ Queued' = Queued /\ Scheduled' = Scheduled
       /\ \A d \in Conn : Dispatched(d)' = Dispatched(d)
  BY <1>2, Frame, FramePlaces
<1>12. ThreadsOK' /\ (\A v \in Worker \ {w} : Working(v)' = Working(v)) /\ Working(w)' = {}
  BY <1>2, <1>10, <1>11, ThreadStep
<1>13. \A u \in Nat : \A k \in Kinds : \A d \in Conn \cup {None} :
         In(u, k, d)' => (In(u, k, d) /\ ~(k = "worker" /\ d = w)) \/ (u = t /\ k = "finish" /\ d = w)
  BY <1>9, <1>11, <1>12 DEF In
<1>14. \A u \in Nat : \A k \in Kinds : \A d \in Conn \cup {None} :
         In(u, k, d)' => IF u = t THEN k = "finish" /\ d = w ELSE In(u, k, d)
  BY <1>7, <1>13
<1>15. OnePlace' /\ MadeOnly'
  BY <1>2, <1>3, <1>11, <1>14, OneMoves, WorkerTyped DEF Kinds
<1> QED BY <1>2, <1>9, <1>12, <1>15, Frame DEF Base, Typed, Custody

-----------------------------------------------------------------------------
(* Machines that stop, and every step. *)

LEMMA CtrlCBase ==
  ASSUME Base, NEW n \in Node, CtrlC(n)
  PROVE  Base'
<1>1. /\ dropping' = [dropping EXCEPT ![n] = "sent"]
      /\ UNCHANGED <<gmVars, waitList, queue, sched, tasks, serving, up, down, cl, wk, pools, gone>>
  BY DEF CtrlC
<1>2. MachinesOK'
  BY <1>1 DEF Base, Typed, MachinesOK
<1>3. OnePlace' /\ MadeOnly'
  BY <1>1, Frame, FramePlaces, NothingMoves DEF Base, Custody
<1> QED BY <1>1, <1>2, <1>3, Frame DEF Base, Typed, Custody

LEMMA CrashBase ==
  ASSUME Base, NEW n \in Node, Crash(n)
  PROVE  Base'
<1>1. /\ wk' = [w \in Worker |-> IF w \in Staff(n) THEN [pc |-> "dead", task |-> None, res |-> "none"]
                                                 ELSE wk[w]]
      /\ down' = [c \in Conn |-> IF c \in Staff(n) THEN <<>> ELSE down[c]]
      /\ pools' = [pools EXCEPT ![n] = VM!FreshPool]
      /\ gone' = gone \cup Staff(n)
      /\ UNCHANGED <<gmVars, waitList, queue, sched, tasks, serving, up, cl, dropping>>
  BY DEF Crash
<1>2. Staff(n) \subseteq Worker
  BY DEF Staff
<1>3. DownTyped' /\ DownOnce' /\ \A c \in Conn : Dispatched(c)' \subseteq Dispatched(c)
  <2>1. DownTyped'
    BY <1>1 DEF Base, Typed, DownTyped
  <2>2. \A c \in Conn : down'[c] = down[c] \/ down'[c] = <<>>
    BY <1>1
  <2>3. Once(<<>>, "process") /\ Carried(<<>>, "process") = {}
    BY DEF Once, Carried
  <2>4. DownOnce'
    BY <2>2, <2>3 DEF Base, Custody, DownOnce
  <2>5. \A c \in Conn : Dispatched(c)' \subseteq Dispatched(c)
    BY <2>2, <2>3 DEF Dispatched
  <2> QED BY <2>1, <2>4, <2>5
<1>4. ThreadsOK' /\ \A w \in Worker : Working(w)' \subseteq Working(w)
  <2>1. wk' \in [Worker -> WkRec]
    BY <1>1, WorkerTyped DEF WkRec, Results
  <2>2. \A w \in Worker : wk'[w] = wk[w] \/ (wk'[w].pc = "dead" /\ wk'[w].task = None)
    BY <1>1
  <2>3. ThreadsOK'
    BY <1>1, <2>1, <2>2, Frame DEF Base, Typed, ThreadsOK
  <2>4. \A w \in Worker : Working(w)' \subseteq Working(w)
    BY <2>2 DEF Working
  <2> QED BY <2>3, <2>4
<1>5. MachinesOK'
  BY <1>1, <1>2, FreshPoolOK DEF Base, Typed, MachinesOK
<1>6. OnePlace' /\ MadeOnly'
  BY <1>1, <1>3, <1>4, Frame, FramePlaces, NothingMoves DEF Base, Custody
<1> QED BY <1>1, <1>3, <1>4, <1>5, <1>6, Frame DEF Base, Typed, Custody

LEMMA NextBase == Base /\ [Next]_vars => Base'
<1> SUFFICES ASSUME Base, [Next]_vars
             PROVE  Base'
  OBVIOUS
<1>1. CASE UNCHANGED vars
  <2>1. UNCHANGED <<gmVars, waitList, queue, sched, tasks, serving, up, down, cl, wk, pools, gone, dropping>>
    BY <1>1 DEF vars, gmVars
  <2>2. OnePlace' /\ MadeOnly'
    BY <2>1, Frame, FramePlaces, NothingMoves DEF Base, Custody
  <2> QED BY <2>1, <2>2, Frame DEF Base, Typed, Custody
<1>2. ASSUME NEW c \in Conn, Serve(c)
      PROVE  Base'
  BY <1>2, ServePingBase, ServeInvokeBase, ServeRegisterBase, ServeGetBase, ServeFinishBase,
     ServeUpdateBase, ServeDropBase DEF Serve
<1>3. CASE Schedule \/ SchedSpuriousWake
  BY <1>3, SchedRecvBase, SchedFindBase, SchedWriteBase, SchedSpuriousWakeBase DEF Schedule
<1>4. ASSUME NEW c \in Client,
             ClientPing(c) \/ (\E f \in Function : ClientInvoke(c, f)) \/ ClientReturn(c)
      PROVE  Base'
  BY <1>4, ClientPingBase, ClientInvokeBase, ClientReturnBase
<1>5. ASSUME NEW w \in Worker, WorkerStep(w)
      PROVE  Base'
  BY <1>5, WorkerGetBase, WorkerReadBase, WorkerAllocBase, WorkerRunBase, WorkerReplyBase,
     WorkerFinishBase DEF WorkerStep
<1>6. ASSUME NEW w \in Worker, NEW f \in Function, NEW sync \in Nested, WorkerInvoke(w, f, sync)
      PROVE  Base'
  BY <1>6, ChoiceAssumption, WorkerInvokeBase
<1>7. ASSUME NEW n \in Faulty, CtrlC(n) \/ Crash(n)
      PROVE  Base'
  BY <1>7, ChoiceAssumption, CtrlCBase, CrashBase
<1> QED BY <1>1, <1>2, <1>3, <1>4, <1>5, <1>6, <1>7 DEF Next

\* The custody of tasks and the types of what carries them hold in every state.
THEOREM CustodyHolds == Spec => []Base
BY InitBase, NextBase, PTL DEF Spec

\* What the invariant says of types.
LEMMA BaseTyped == Base => TypeOK
<1> SUFFICES ASSUME Base
             PROVE  TypeOK
  OBVIOUS
<1>1. GMTypeOK
  BY DEF Base, Typed, GMInv
<1>2. DOMAIN waitList \subseteq Task /\ Range(waitList) \subseteq Client \cup Worker
  BY DEF Base, Typed, WaitersOK, Range
<1>3. Range(queue) \subseteq Task /\ Len(queue) <= QueueCap
  <2>1. queue \in Seq(Nat) /\ Len(queue) <= QueueCap /\ Queued = Range(queue)
    BY DEF Base, Typed, QueueOK, Queued, Range
  <2>2. \A t \in Queued : t \in Nat
    BY <2>1 DEF Queued
  <2>3. \A t \in Queued : In(t, "queue", None) /\ "queue" \in Kinds
    BY DEF In, Kinds
  <2>4. \A t \in Queued : t \in Task
    BY <2>2, <2>3 DEF Base, Custody, MadeOnly
  <2> QED BY <2>1, <2>4
<1>4. /\ sched.pc \in {"recv", "find", "wait", "write"} /\ sched.worker \in Worker \cup {None}
      /\ sched.task \in Task \cup {None}
  <2>1. sched \in SchedRec
    BY DEF Base, Typed, SchedOK
  <2>2. sched.task # None => In(sched.task, "scheduler", None) /\ "scheduler" \in Kinds
    BY DEF In, Scheduled, Kinds
  <2>3. sched.task \in Nat \cup {None}
    BY <2>1 DEF SchedRec
  <2>4. sched.task \in Task \cup {None}
    BY <2>2, <2>3 DEF Base, Custody, MadeOnly
  <2> QED BY <2>1, <2>4 DEF SchedRec
<1>5. serving \in [Conn -> Task \cup {None}]
  <2>1. serving \in [Conn -> Nat \cup {None}] /\ \A c \in Conn : serving[c] \in Task \cup {None}
    BY DEF Base, Typed, WaitersOK
  <2> QED BY <2>1
<1>6. cl \in [Client -> [pc : {"ready", "ping", "wait"}, task : Task \cup {None}]]
  <2>1. cl \in [Client -> ClRec] /\ \A c \in Client : cl[c].task \in Task \cup {None}
    BY DEF Base, Typed, ThreadsOK
  <2>2. \A c \in Client : cl[c] \in [pc : {"ready", "ping", "wait"}, task : Task \cup {None}]
    BY <2>1 DEF ClRec
  <2> QED BY <2>1, <2>2
<1>7. wk \in [Worker -> [pc : {"get", "await", "alloc", "run", "call", "finish", "dead"},
                         task : Task \cup {None}, res : Results]]
  <2>1. wk \in [Worker -> WkRec] /\ \A w \in Worker : wk[w].task \in Task \cup {None}
    BY WorkerTyped
  <2>2. \A w \in Worker : wk[w] \in [pc : {"get", "await", "alloc", "run", "call", "finish", "dead"},
                                     task : Task \cup {None}, res : Results]
    BY <2>1 DEF WkRec
  <2> QED BY <2>1, <2>2
<1>8. gone \subseteq Worker /\ dropping \in [Node -> {"unsent", "sent", "handled"}]
  BY DEF Base, Typed, MachinesOK
<1> QED BY <1>1, <1>2, <1>3, <1>4, <1>5, <1>6, <1>7, <1>8 DEF TypeOK

\* The scheduler's tables, its thread and its handlers, and the workers name only
\* invocations that were made, and the queue never grows past its capacity: for
\* any number of machines, workers, gateway connections and invocations, with
\* crashes and shutdowns.
THEOREM ClusterTyped == Spec => []TypeOK
BY CustodyHolds, BaseTyped, PTL

\* What the invariant says of the places of a task.
LEMMA BaseNeverDuplicated == Base => NeverDuplicated
<1> SUFFICES ASSUME Base, NEW t \in Task
             PROVE  Cardinality(Places(t)) <= 1
  BY DEF NeverDuplicated
<1>1. t \in Nat
  BY TaskFn
<1>2. ASSUME NEW x \in Places(t)
      PROVE  \/ \E c \in Conn : x = <<"request", c>> /\ In(t, "request", c)
             \/ \E i \in DOMAIN queue : x = <<"queue", i>> /\ In(t, "queue", None) /\ queue[i] = t
             \/ x = <<"scheduler">> /\ In(t, "scheduler", None)
             \/ \E w \in Worker : x = <<"dispatch", w>> /\ In(t, "dispatch", w)
             \/ \E w \in Worker : x = <<"worker", w>> /\ In(t, "worker", w)
             \/ \E w \in Worker : x = <<"finish", w>> /\ In(t, "finish", w)
  <2>0. t # None
    BY <1>1, NoneIsNoTask
  <2>1. \A c \in Conn : (\E i \in DOMAIN up[c] : up[c][i].kind = "invoke" /\ up[c][i].task = t)
                          => In(t, "request", c)
    <3>1. \A c \in Conn : DOMAIN up[c] = 1..Len(up[c])
      BY DEF Base, Typed, UpTyped
    <3> QED BY <3>1, CarriedBy DEF In, Requests
  <2>2. \A i \in DOMAIN queue : queue[i] = t => In(t, "queue", None)
    BY DEF Base, Typed, QueueOK, In, Queued
  <2>3. sched.task = t => In(t, "scheduler", None)
    BY <2>0 DEF In, Scheduled
  <2>4. \A w \in Worker : (\E i \in DOMAIN down[w] : down[w][i].kind = "process" /\ down[w][i].task = t)
                            => In(t, "dispatch", w)
    <3>1. \A w \in Worker : DOMAIN down[w] = 1..Len(down[w])
      BY DEF Base, Typed, DownTyped, Conn
    <3> QED BY <3>1, CarriedBy DEF In, Dispatched, Conn
  <2>5. \A w \in Worker : wk[w].pc # "dead" /\ wk[w].task = t => In(t, "worker", w)
    BY <2>0 DEF In, Working
  <2>6. \A w \in Worker : (\E i \in DOMAIN up[w] : up[w][i].kind = "finish" /\ up[w][i].task = t)
                            => In(t, "finish", w)
    <3>1. \A w \in Worker : DOMAIN up[w] = 1..Len(up[w])
      BY DEF Base, Typed, UpTyped, Conn
    <3> QED BY <3>1, CarriedBy DEF In, Finishing, Conn
  <2> QED BY <1>2, <2>1, <2>2, <2>3, <2>4, <2>5, <2>6 DEF Places
<1>3. \A k, l \in Kinds : \A c, d \in Conn \cup {None} : In(t, k, c) /\ In(t, l, d) => k = l /\ c = d
  BY <1>1 DEF Base, Custody, OnePlace
<1>4. ASSUME NEW x \in Places(t), NEW y \in Places(t)
      PROVE  x = y
  <2>1. PICK k \in Kinds, c \in Conn \cup {None} :
          /\ In(t, k, c)
          /\ \/ k \notin {"queue", "scheduler"} /\ x = <<k, c>>
             \/ k = "scheduler" /\ x = <<"scheduler">>
             \/ k = "queue" /\ \E i \in DOMAIN queue : x = <<"queue", i>> /\ queue[i] = t
    BY <1>2 DEF Kinds, Conn
  <2>2. PICK l \in Kinds, d \in Conn \cup {None} :
          /\ In(t, l, d)
          /\ \/ l \notin {"queue", "scheduler"} /\ y = <<l, d>>
             \/ l = "scheduler" /\ y = <<"scheduler">>
             \/ l = "queue" /\ \E i \in DOMAIN queue : y = <<"queue", i>> /\ queue[i] = t
    BY <1>2 DEF Kinds, Conn
  <2>3. k = l /\ c = d
    BY <1>3, <2>1, <2>2
  <2>4. \A i, j \in DOMAIN queue : queue[i] = t /\ queue[j] = t => i = j
    BY DEF Base, Typed, Custody, QueueOK, QueueOnce
  <2> QED BY <2>1, <2>2, <2>3, <2>4
<1>5. CASE Places(t) = {}
  BY <1>5, FS_EmptySet
<1>6. CASE Places(t) # {}
  <2>1. PICK x : x \in Places(t)
    BY <1>6
  <2>2. Places(t) = {x}
    BY <1>4, <2>1
  <2> QED BY <2>2, FS_Singleton
<1> QED BY <1>5, <1>6

\* A task is in the hands of one actor at most - a request on its way, the
\* queue, the scheduling thread, a dispatch on its way, a worker, a FinishTask on
\* its way - however many writes fail and are retried and however many machines
\* die: no task is executed by two workers.
THEOREM TaskNeverDuplicated == Spec => []NeverDuplicated
BY CustodyHolds, BaseNeverDuplicated, PTL

\* The tables of the scheduler keep their invariants when it is the handlers and
\* the scheduling thread that call it, with what the machines really report.
THEOREM TablesConsistent == Spec => [](KnownNodes /\ LiveEntries)
<1>1. Base => KnownNodes /\ LiveEntries
  BY DEF Base, Typed, GMInv
<1> QED BY <1>1, CustodyHolds, PTL

-----------------------------------------------------------------------------
(* A gateway thread gets the answer it waits for. *)

ClientInv == \A c \in Client : ClientOK(c)

LEMMA OneMessage ==
  ASSUME NEW x
  PROVE  /\ Append(<<>>, x) = <<x>> /\ Tail(<<x>>) = <<>> /\ Head(<<x>>) = x
         /\ <<x>> # <<>> /\ Len(<<x>>) = 1 /\ <<x>>[1] = x
OBVIOUS

LEMMA TailOfOne ==
  ASSUME NEW S, NEW s \in Seq(S), Len(s) = 1
  PROVE  Tail(s) = <<>> /\ Head(s) = s[1]
<1>1. s # <<>>
  OBVIOUS
<1> DEFINE q == Tail(s)
<1>2. q \in Seq(S) /\ Len(q) = 0 /\ Head(s) = s[1]
  BY <1>1
<1> HIDE DEF q
<1>3. q = <<>>
  BY <1>2, EmptySeq
<1> QED BY <1>2, <1>3 DEF q

\* The connection of a gateway is not touched, and no task is registered for it.
LEMMA ClientUntouched ==
  ASSUME NEW c \in Client, ClientOK(c), cl'[c] = cl[c], up'[c] = up[c], down'[c] = down[c],
         serving'[c] = serving[c],
         \A t \in DOMAIN waitList' : waitList'[t] = c => t \in DOMAIN waitList /\ waitList[t] = c
  PROVE  ClientOK(c)'
<1>1. Calm(c) => Calm(c)'
  BY DEF Calm, Waits
<1>2. ~Waits(c) => ~Waits(c)'
  BY DEF Waits
<1> QED BY <1>1, <1>2 DEF ClientOK

\* What is a client's own and what is not.
LEMMA ClientConn ==
  ASSUME Base, NEW c \in Client
  PROVE  /\ c \in Conn /\ c \notin Worker /\ c \notin Node /\ c \notin gone
         /\ DOMAIN up = Conn /\ DOMAIN down = Conn /\ DOMAIN serving = Conn
         /\ DOMAIN cl = Client /\ cl[c].pc \in {"ready", "ping", "wait"}
BY ConnAssumption DEF Base, Typed, MachinesOK, UpTyped, DownTyped, WaitersOK, ThreadsOK, ClRec, Conn

LEMMA ClientPingKeeps ==
  ASSUME Base, ClientInv, NEW d \in Client, ClientPing(d)
  PROVE  ClientInv'
<1> SUFFICES ASSUME NEW c \in Client
             PROVE  ClientOK(c)'
  BY DEF ClientInv
<1>1. /\ cl[d].pc = "ready" /\ up' = [up EXCEPT ![d] = Append(up[d], Ping)]
      /\ cl' = [cl EXCEPT ![d].pc = "ping"] /\ UNCHANGED <<waitList, serving, down>>
  BY DEF ClientPing, Send
<1>2. CASE c = d
  <2>1. Calm(c) /\ up[c] = <<>> /\ down[c] = <<>>
    BY <1>1, <1>2 DEF ClientInv, ClientOK
  <2>2. up'[c] = <<Ping>> /\ cl'[c].pc = "ping"
    BY <1>1, <1>2, <2>1, ClientConn, OneMessage
  <2>3. Calm(c)' /\ down'[c] = <<>>
    BY <1>1, <2>1 DEF Calm, Waits
  <2> QED BY <2>2, <2>3 DEF ClientOK
<1>3. CASE c # d
  BY <1>1, <1>3, ClientConn, ClientUntouched DEF ClientInv
<1> QED BY <1>2, <1>3

LEMMA ClientInvokeKeeps ==
  ASSUME Base, ClientInv, NEW d \in Client, NEW f, ClientInvoke(d, f)
  PROVE  ClientInv'
<1> SUFFICES ASSUME NEW c \in Client
             PROVE  ClientOK(c)'
  BY DEF ClientInv
<1>1. PICK t \in Nat : t = Len(tasks) + 1
  BY DEF Base, Typed, TasksOK
<1>2. /\ \/ cl[d].pc = "ping" /\ down[d] # <<>> /\ down' = [down EXCEPT ![d] = Tail(down[d])]
         \/ cl[d].pc = "ready" /\ down' = down
      /\ up' = [up EXCEPT ![d] = Append(up[d], Invoke(t))]
      /\ cl' = [cl EXCEPT ![d] = [pc |-> "wait", task |-> t]]
      /\ UNCHANGED <<waitList, serving>>
  BY <1>1 DEF ClientInvoke, Send, ReadDown, Received
<1>3. CASE c = d
  <2>1. /\ Calm(c) /\ up[c] = <<>>
        /\ (cl[c].pc = "ready" /\ down[c] = <<>>) \/ (cl[c].pc = "ping" /\ down[c] = <<Pong>>)
    <3>1. CASE cl[c].pc = "ready"
      BY <3>1 DEF ClientInv, ClientOK
    <3>2. CASE cl[c].pc = "ping" /\ down[c] # <<>>
      BY <3>2 DEF ClientInv, ClientOK
    <3> QED BY <1>2, <1>3, <3>1, <3>2
  <2>2. down'[c] = <<>>
    BY <1>2, <1>3, <2>1, ClientConn, OneMessage
  <2>3. up'[c] = <<Invoke(t)>> /\ cl'[c].pc = "wait" /\ cl'[c].task = t
    BY <1>2, <1>3, <2>1, ClientConn, OneMessage
  <2>4. Calm(c)'
    BY <1>2, <2>1 DEF Calm, Waits
  <2> QED BY <2>2, <2>3, <2>4 DEF ClientOK
<1>4. CASE c # d
  BY <1>2, <1>4, ClientConn, ClientUntouched DEF ClientInv
<1> QED BY <1>3, <1>4

LEMMA ClientReturnKeeps ==
  ASSUME Base, ClientInv, NEW d \in Client, ClientReturn(d)
  PROVE  ClientInv'
<1> SUFFICES ASSUME NEW c \in Client
             PROVE  ClientOK(c)'
  BY DEF ClientInv
<1>1. /\ cl[d].pc = "wait" /\ down[d] # <<>> /\ down' = [down EXCEPT ![d] = Tail(down[d])]
      /\ cl' = [cl EXCEPT ![d] = [pc |-> "ready", task |-> None]]
      /\ UNCHANGED <<waitList, serving, up>>
  BY DEF ClientReturn, Received, ReadDown
<1>2. CASE c = d
  <2>1. Calm(c) /\ up[c] = <<>> /\ Len(down[c]) = 1
    BY <1>1, <1>2 DEF ClientInv, ClientOK
  <2>2. down[c] \in Seq(DownMsg)
    BY ClientConn DEF Base, Typed, DownTyped
  <2>3. Tail(down[c]) = <<>>
    BY <2>1, <2>2, TailOfOne
  <2>4. down'[c] = <<>> /\ up'[c] = <<>> /\ cl'[c].pc = "ready"
    BY <1>1, <1>2, <2>1, <2>3, ClientConn
  <2>5. Calm(c)'
    BY <1>1, <2>1 DEF Calm, Waits
  <2> QED BY <2>4, <2>5 DEF ClientOK
<1>3. CASE c # d
  BY <1>1, <1>3, ClientConn, ClientUntouched DEF ClientInv
<1> QED BY <1>2, <1>3

LEMMA ServePingKeeps ==
  ASSUME Base, ClientInv, NEW d \in Conn, ServePing(d)
  PROVE  ClientInv'
<1> SUFFICES ASSUME NEW c \in Client
             PROVE  ClientOK(c)'
  BY DEF ClientInv
<1>1. /\ up[d] # <<>> /\ Head(up[d]).kind = "ping" /\ up' = [up EXCEPT ![d] = Tail(up[d])]
      /\ down' = Delivered(d, Pong) /\ UNCHANGED <<waitList, serving, cl>>
  BY DEF ServePing, Requested, ReadUp, nodeVars
<1>2. CASE c = d
  <2>1. down' = [down EXCEPT ![d] = Append(down[d], Pong)]
    BY <1>1, <1>2, ClientConn DEF Delivered
  <2>2. ASSUME cl[c].pc = "wait"
        PROVE  FALSE
    <3>1. up[c] = <<Invoke(cl[c].task)>>
      BY <1>1, <1>2, <2>2 DEF ClientInv, ClientOK
    <3>2. Head(up[c]) = Invoke(cl[c].task)
      BY <3>1, OneMessage
    <3> QED BY <1>1, <1>2, <3>2 DEF Invoke
  <2>3. cl[c].pc = "ping" /\ Calm(c) /\ up[c] = <<Ping>> /\ down[c] = <<>>
    BY <1>1, <1>2, <2>2, ClientConn DEF ClientInv, ClientOK
  <2>4. up'[c] = <<>> /\ down'[c] = <<Pong>> /\ cl'[c] = cl[c]
    BY <1>1, <1>2, <2>1, <2>3, ClientConn, OneMessage
  <2>5. Calm(c)'
    BY <1>1, <2>3 DEF Calm, Waits
  <2> QED BY <2>3, <2>4, <2>5 DEF ClientOK
<1>3. CASE c # d
  <2>1. down'[c] = down[c]
    BY <1>1, <1>3, ClientConn DEF Delivered
  <2> QED BY <1>1, <1>3, <2>1, ClientConn, ClientUntouched DEF ClientInv
<1> QED BY <1>2, <1>3

LEMMA ServeInvokeKeeps ==
  ASSUME Base, ClientInv, NEW d \in Conn, ServeInvoke(d)
  PROVE  ClientInv'
<1> SUFFICES ASSUME NEW c \in Client
             PROVE  ClientOK(c)'
  BY DEF ClientInv
<1>1. PICK t : t = Head(up[d]).task
  OBVIOUS
<1>2. /\ serving[d] = None /\ up[d] # <<>> /\ Head(up[d]).kind = "invoke"
      /\ up' = [up EXCEPT ![d] = Tail(up[d])]
      /\ \/ /\ serving' = [serving EXCEPT ![d] = IF tasks[t].sync THEN t ELSE None]
            /\ down' = down
         \/ down' = Delivered(d, Return(t, "full")) /\ serving' = serving
      /\ UNCHANGED <<waitList, cl>>
  BY <1>1 DEF ServeInvoke, Requested, ReadUp, nodeVars
<1>3. CASE c = d
  <2>1. ASSUME cl[c].pc = "ping"
        PROVE  FALSE
    <3>1. up[c] = <<Ping>>
      BY <1>2, <1>3, <2>1 DEF ClientInv, ClientOK
    <3>2. Head(up[c]) = Ping
      BY <3>1, OneMessage
    <3> QED BY <1>2, <1>3, <3>2 DEF Ping
  <2>2. /\ cl[c].pc = "wait" /\ cl[c].task \in Nat /\ Calm(c)
        /\ up[c] = <<Invoke(cl[c].task)>> /\ down[c] = <<>>
    BY <1>2, <1>3, <2>1, ClientConn DEF ClientInv, ClientOK
  <2>3. t = cl[c].task
    <3>1. Head(up[c]) = Invoke(cl[c].task)
      BY <2>2, OneMessage
    <3> QED BY <1>1, <1>3, <3>1 DEF Invoke
  <2>4. up'[c] = <<>> /\ cl'[c] = cl[c]
    BY <1>2, <1>3, <2>2, ClientConn, OneMessage
  <2>5. ~Waits(c)'
    BY <1>2, <2>2 DEF Calm, Waits
  <2>6. CASE /\ serving' = [serving EXCEPT ![d] = IF tasks[t].sync THEN t ELSE None]
             /\ down' = down
    <3>1. (serving'[c] = t \/ serving'[c] = None) /\ down'[c] = <<>>
      BY <1>3, <2>2, <2>6, ClientConn
    <3>2. \A u \in DOMAIN waitList' : waitList'[u] # c
      BY <2>5 DEF Waits
    <3> QED BY <2>2, <2>3, <2>4, <2>5, <3>1, <3>2 DEF ClientOK
  <2>7. CASE down' = Delivered(d, Return(t, "full")) /\ serving' = serving
    <3>1. down'[c] = <<Return(t, "full")>>
      <4>1. down' = [down EXCEPT ![d] = Append(down[d], Return(t, "full"))]
        BY <1>3, <2>7, ClientConn DEF Delivered
      <4> QED BY <1>3, <2>2, <4>1, ClientConn, OneMessage
    <3>2. Len(down'[c]) = 1 /\ down'[c][1] = Return(t, "full")
      BY <3>1, OneMessage
    <3>3. Return(t, "full").kind = "return" /\ Return(t, "full").task = t
      BY DEF Return
    <3>4. Calm(c)'
      BY <2>2, <2>5, <2>7 DEF Calm
    <3> QED BY <2>2, <2>3, <2>4, <3>2, <3>3, <3>4 DEF ClientOK
  <2> QED BY <1>2, <2>6, <2>7
<1>4. CASE c # d
  <2>1. down'[c] = down[c]
    BY <1>2, <1>4, ClientConn DEF Delivered
  <2>2. serving'[c] = serving[c]
    BY <1>2, <1>4, ClientConn
  <2> QED BY <1>2, <1>4, <2>1, <2>2, ClientConn, ClientUntouched DEF ClientInv
<1> QED BY <1>3, <1>4

LEMMA ServeRegisterKeeps ==
  ASSUME Base, ClientInv, NEW d \in Conn, ServeRegister(d)
  PROVE  ClientInv'
<1> SUFFICES ASSUME NEW c \in Client
             PROVE  ClientOK(c)'
  BY DEF ClientInv
<1>1. PICK t : t = serving[d]
  OBVIOUS
<1>2. /\ t # None /\ waitList' = Put(waitList, t, d)
      /\ serving' = [serving EXCEPT ![d] = None]
      /\ UNCHANGED <<up, down, cl>>
  BY <1>1 DEF ServeRegister, nodeVars
<1>3. \A u \in DOMAIN waitList' :
        waitList'[u] = c => (u \in DOMAIN waitList /\ waitList[u] = c) \/ (u = t /\ c = d)
  BY <1>2 DEF Put
<1>4. CASE c = d
  <2>1. cl[c].pc = "wait" /\ t = cl[c].task /\ ~Waits(c) /\ up[c] = <<>> /\ down[c] = <<>>
    BY <1>1, <1>2, <1>4, ClientConn DEF ClientInv, ClientOK, Calm
  <2>2. cl[c].task \in Nat
    BY <2>1 DEF ClientInv, ClientOK
  <2>3. \A u \in DOMAIN waitList' : waitList'[u] = c => u = t
    BY <1>3, <2>1 DEF Waits
  <2>4. serving'[c] = None
    BY <1>2, <1>4, ClientConn
  <2> QED BY <1>2, <2>1, <2>2, <2>3, <2>4 DEF ClientOK
<1>5. CASE c # d
  <2>1. serving'[c] = serving[c]
    BY <1>2, <1>5, ClientConn
  <2> QED BY <1>2, <1>3, <1>5, <2>1, ClientUntouched DEF ClientInv
<1> QED BY <1>4, <1>5

LEMMA ServeFinishKeeps ==
  ASSUME Base, ClientInv, NEW w \in Worker, ServeFinish(w)
  PROVE  ClientInv'
<1> SUFFICES ASSUME NEW c \in Client
             PROVE  ClientOK(c)'
  BY DEF ClientInv
<1>1. PICK t, x : t = Head(up[w]).task /\ x = Return(t, Head(up[w]).res)
  OBVIOUS
<1>2. /\ up' = [up EXCEPT ![w] = Tail(up[w])] /\ waitList' = Drop(waitList, t)
      /\ down' = IF t \in DOMAIN waitList THEN Delivered(waitList[t], x) ELSE down
      /\ UNCHANGED <<serving, cl>>
  BY <1>1 DEF ServeFinish, ReadUp, nodeVars
<1>3. /\ DOMAIN waitList' = DOMAIN waitList \ {t}
      /\ \A u \in DOMAIN waitList' : waitList'[u] = waitList[u]
  BY <1>2, DropFacts
<1>4. up'[c] = up[c]
  BY <1>2, ClientConn
<1>5. CASE t \in DOMAIN waitList /\ waitList[t] = c
  <2>1. Waits(c)
    BY <1>5 DEF Waits
  <2>2. /\ cl[c].pc = "wait" /\ cl[c].task \in Nat /\ serving[c] = None
        /\ up[c] = <<>> /\ down[c] = <<>>
        /\ \A u \in DOMAIN waitList : waitList[u] = c => u = cl[c].task
    BY <2>1, ClientConn DEF ClientInv, ClientOK, Calm
  <2>3. t = cl[c].task
    BY <1>5, <2>2
  <2>4. Calm(c)'
    BY <1>2, <1>3, <2>2, <2>3 DEF Calm, Waits
  <2>5. down'[c] = <<x>>
    <3>1. down' = [down EXCEPT ![c] = Append(down[c], x)]
      BY <1>2, <1>5, ClientConn DEF Delivered
    <3> QED BY <2>2, <3>1, ClientConn, OneMessage
  <2>6. Len(down'[c]) = 1 /\ down'[c][1].kind = "return" /\ down'[c][1].task = t
    <3>1. Len(down'[c]) = 1 /\ down'[c][1] = x
      BY <2>5, OneMessage
    <3> QED BY <1>1, <3>1 DEF Return
  <2> QED BY <1>2, <1>4, <2>2, <2>3, <2>4, <2>6 DEF ClientOK
<1>6. CASE ~(t \in DOMAIN waitList /\ waitList[t] = c)
  <2>1. down'[c] = down[c]
    BY <1>2, <1>6, ClientConn DEF Delivered
  <2> QED BY <1>2, <1>3, <1>4, <2>1, ClientUntouched DEF ClientInv
<1> QED BY <1>5, <1>6

\* Every other step leaves the gateways' connections alone.
LEMMA Elsewhere ==
  ASSUME Base, ClientInv, UNCHANGED <<waitList, serving, cl>>,
         \A c \in Client : up'[c] = up[c] /\ down'[c] = down[c]
  PROVE  ClientInv'
BY ClientUntouched DEF ClientInv

LEMMA NextKeepsClients == Base /\ ClientInv /\ [Next]_vars => ClientInv'
<1> SUFFICES ASSUME Base, ClientInv, [Next]_vars
             PROVE  ClientInv'
  OBVIOUS
<1>1. CASE UNCHANGED vars
  BY <1>1, Elsewhere DEF vars
<1>2. ASSUME NEW d \in Conn, Serve(d)
      PROVE  ClientInv'
  <2>1. CASE d \in Worker /\ ServeGet(d)
    <3>1. /\ up' = [up EXCEPT ![d] = Tail(up[d])] /\ UNCHANGED <<waitList, serving, cl, down>>
      BY <2>1 DEF ServeGet, ReadUp, nodeVars
    <3> QED BY <2>1, <3>1, ClientConn, Elsewhere
  <2>2. CASE d \in Node /\ ServeUpdate(d)
    <3>1. /\ up' = [up EXCEPT ![d] = Tail(up[d])] /\ UNCHANGED <<waitList, serving, cl, down>>
      BY <2>2 DEF ServeUpdate, ReadUp, nodeVars
    <3> QED BY <2>2, <3>1, ClientConn, Elsewhere
  <2>3. CASE d \in Node /\ ServeDrop(d)
    <3>1. UNCHANGED <<waitList, serving, cl, up>>
      BY <2>3 DEF ServeDrop
    <3> QED BY <2>3, <3>1, DropWrites, Elsewhere
  <2> QED BY <1>2, <2>1, <2>2, <2>3, ServePingKeeps, ServeInvokeKeeps, ServeRegisterKeeps,
             ServeFinishKeeps DEF Serve
<1>3. CASE SchedRecv \/ SchedFind \/ SchedSpuriousWake
  BY <1>3, Elsewhere DEF SchedRecv, SchedFind, SchedSpuriousWake, nodeVars
<1>4. CASE SchedWrite
  <2>1. UNCHANGED <<waitList, serving, cl, up>> /\ sched.worker \in Worker
    BY <1>4 DEF SchedWrite, nodeVars, Base, Typed, SchedOK
  <2>2. \A c \in Client : down'[c] = down[c]
    BY <1>4, <2>1, ClientConn DEF SchedWrite, Delivered
  <2> QED BY <2>1, <2>2, Elsewhere
<1>5. ASSUME NEW d \in Client,
             ClientPing(d) \/ (\E f \in Function : ClientInvoke(d, f)) \/ ClientReturn(d)
      PROVE  ClientInv'
  BY <1>5, ClientPingKeeps, ClientInvokeKeeps, ClientReturnKeeps
<1>6. ASSUME NEW w \in Worker, WorkerStep(w)
      PROVE  ClientInv'
  <2>1. NodeOf[w] \in Node
    BY NodeOfAssumption
  <2>2. UNCHANGED <<waitList, serving, cl>>
    BY <1>6 DEF WorkerStep, WorkerGet, WorkerRead, WorkerAlloc, WorkerRun, WorkerReply, WorkerFinish
  <2>3. ASSUME NEW c \in Client
        PROVE  up'[c] = up[c] /\ down'[c] = down[c]
    <3>1. CASE WorkerGet(w) \/ WorkerFinish(w)
      BY <3>1, ClientConn DEF WorkerGet, WorkerFinish, Send
    <3>2. CASE WorkerRead(w) \/ WorkerReply(w)
      BY <3>2, ClientConn DEF WorkerRead, WorkerReply, ReadDown
    <3>3. CASE \E flows \in Flows : WorkerAlloc(w, flows)
      BY <2>1, <3>3, ClientConn DEF WorkerAlloc
    <3>4. CASE WorkerRun(w)
      BY <2>1, <3>4, ClientConn DEF WorkerRun, Send
    <3> QED BY <1>6, <3>1, <3>2, <3>3, <3>4 DEF WorkerStep
  <2> QED BY <2>2, <2>3, Elsewhere
<1>7. ASSUME NEW w \in Worker, NEW f \in Function, NEW sync \in Nested, WorkerInvoke(w, f, sync)
      PROVE  ClientInv'
  <2>1. \A c \in Client : up'[c] = up[c] /\ down'[c] = down[c]
    BY <1>7, ClientConn DEF WorkerInvoke, Send
  <2> QED BY <1>7, <2>1, Elsewhere DEF WorkerInvoke
<1>8. ASSUME NEW n \in Faulty, CtrlC(n) \/ Crash(n)
      PROVE  ClientInv'
  <2>1. \A c \in Client : up'[c] = up[c] /\ down'[c] = down[c]
    BY <1>8, ClientConn DEF CtrlC, Crash, Staff
  <2> QED BY <1>8, <2>1, Elsewhere DEF CtrlC, Crash
<1> QED BY <1>1, <1>2, <1>3, <1>4, <1>5, <1>6, <1>7, <1>8 DEF Next, Schedule

\* Every gateway thread has one request or answer under way, in every state.
LEMMA ClientsHold == Spec => []ClientInv
<1>1. Init => ClientInv
  BY DEF Init, ClientInv, ClientOK, Calm, Waits, EmptyMap, Conn
<1> QED BY <1>1, CustodyHolds, NextKeepsClients, PTL DEF Spec

\* A gateway thread that waits is sent at most one answer, and it is the answer
\* of the invocation it made: the connection a handler has queued a task for is
\* registered after the task is queued, and a finished task may find nobody
\* registered, yet an answer never reaches a later request on the connection.
THEOREM AnswersMatchRequests == Spec => []RepliesMatch
<1>1. Base /\ ClientInv => RepliesMatch
  <2> SUFFICES ASSUME Base, ClientInv, NEW c \in Client, NEW i \in DOMAIN down[c],
                      down[c][i].kind = "return"
               PROVE  /\ cl[c].pc = "wait" /\ down[c][i].task = cl[c].task
                      /\ Len(down[c]) = 1
    BY DEF RepliesMatch
  <2>1. down[c] \in Seq(DownMsg) /\ i \in 1..Len(down[c])
    BY ClientConn DEF Base, Typed, DownTyped
  <2>2. down[c] # <<>>
    BY <2>1
  <2>3. down[c] # <<Pong>>
    <3> SUFFICES ASSUME down[c] = <<Pong>>
                 PROVE  FALSE
      OBVIOUS
    <3>1. i = 1 /\ down[c][1] = Pong
      BY <2>1, OneMessage
    <3> QED BY <3>1 DEF Pong
  <2>4. /\ cl[c].pc = "wait" /\ Len(down[c]) = 1 /\ down[c][1].task = cl[c].task
    BY <2>2, <2>3, ClientConn DEF ClientInv, ClientOK
  <2>5. i = 1
    BY <2>1, <2>4
  <2> QED BY <2>4, <2>5
<1> QED BY <1>1, CustodyHolds, ClientsHold, PTL

\* A connection of the gateway is in wait_list only for the request that its thread
\* still waits for, with no answer under way: a handler that answers a full queue
\* goes no further, and registration after the task is queued comes too late at
\* worst, never on top of an answer.
THEOREM RegisteredStillWait == Spec => []RegisteredWaits
<1>1. Base /\ ClientInv => RegisteredWaits
  <2> SUFFICES ASSUME Base, ClientInv, NEW t \in DOMAIN waitList, NEW c \in Client,
                      waitList[t] = c
               PROVE  cl[c].pc = "wait" /\ cl[c].task = t /\ down[c] = <<>>
    BY DEF RegisteredWaits
  <2>1. Waits(c) /\ ~Calm(c)
    BY DEF Waits, Calm
  <2>2. cl[c].pc \in {"ready", "ping", "wait"}
    BY DEF Base, Typed, ThreadsOK, ClRec
  <2> QED BY <2>1, <2>2 DEF ClientInv, ClientOK
<1> QED BY <1>1, CustodyHolds, ClientsHold, PTL

-----------------------------------------------------------------------------
(* A listed worker is idle.  First, what the operations do to the listing.   *)

LEMMA AddLists ==
  ASSUME GMInv, ListedOnce, NEW w \in Worker, ~Listed(w), AddIdle(w)
  PROVE  ListedOnce' /\ Listed(w)' /\ \A x \in Worker \ {w} : Listed(x)' <=> Listed(x)
<1> DEFINE n == NodeOf[w]
           v == IF n \in DOMAIN idle THEN idle[n] ELSE <<>>
           q == Append(v, w)
<1>1. /\ DOMAIN idle' = DOMAIN idle \cup {n}
      /\ \A k \in DOMAIN idle' : idle'[k] = IF k = n THEN q ELSE idle[k]
  BY DEF AddIdle, Put
<1>2. v \in Seq(Worker)
  BY DEF GMInv, GMTypeOK
<1>3. /\ \A i \in 1..Len(v) : n \in DOMAIN idle /\ v[i] = idle[n][i] /\ i \in 1..Len(idle[n])
      /\ n \in DOMAIN idle => v = idle[n]
  OBVIOUS
<1> HIDE DEF v
<1>4. /\ Len(v) \in Nat /\ Len(q) = Len(v) + 1 /\ q[Len(v) + 1] = w
      /\ \A i \in 1..Len(v) : q[i] = v[i]
  BY <1>2
<1> HIDE DEF q, n
<1>5. \A i \in 1..Len(q) : i \in 1..Len(v) \/ i = Len(v) + 1
  BY <1>4
<1>6. (\A i \in 1..Len(v) : i \in 1..Len(q)) /\ Len(v) + 1 \in 1..Len(q)
  BY <1>4
<1>7. \A i \in 1..Len(v) : v[i] # w
  BY <1>3 DEF Listed
<1>8. \A i, j \in 1..Len(q) : q[i] = q[j] => i = j
  <2>1. \A i, j \in 1..Len(v) : v[i] = v[j] => i = j
    BY <1>3 DEF ListedOnce
  <2> QED BY <1>4, <1>5, <1>7, <2>1
<1>9. ListedOnce'
  BY <1>1, <1>8 DEF ListedOnce
<1>10. Listed(w)'
  BY <1>1, <1>4, <1>6 DEF Listed
<1>11. ASSUME NEW x \in Worker \ {w}, Listed(x)
       PROVE  Listed(x)'
  <2>1. PICK k \in DOMAIN idle : \E i \in 1..Len(idle[k]) : idle[k][i] = x
    BY <1>11 DEF Listed
  <2>2. PICK i \in 1..Len(idle[k]) : idle[k][i] = x
    BY <2>1
  <2>3. k \in DOMAIN idle' /\ i \in 1..Len(idle'[k]) /\ idle'[k][i] = x
    BY <1>1, <1>3, <1>4, <1>6, <2>2
  <2> QED BY <2>3 DEF Listed
<1>12. ASSUME NEW x \in Worker \ {w}, Listed(x)'
       PROVE  Listed(x)
  <2>1. PICK k \in DOMAIN idle' : \E i \in 1..Len(idle'[k]) : idle'[k][i] = x
    BY <1>12 DEF Listed
  <2>2. PICK i \in 1..Len(idle'[k]) : idle'[k][i] = x
    BY <2>1
  <2>3. k \in DOMAIN idle /\ i \in 1..Len(idle[k]) /\ idle[k][i] = x
    <3>1. CASE k = n
      <4>1. i \in 1..Len(q) /\ q[i] = x
        BY <1>1, <2>2, <3>1
      <4>2. i \in 1..Len(v) /\ v[i] = x
        BY <1>4, <1>5, <4>1
      <4> QED BY <1>3, <3>1, <4>2
    <3>2. CASE k # n
      BY <1>1, <2>2, <3>2
    <3> QED BY <3>1, <3>2
  <2> QED BY <2>3 DEF Listed
<1> QED BY <1>9, <1>10, <1>11, <1>12

LEMMA PopUnlists ==
  ASSUME GMInv, ListedOnce, NEW n, idle' = IdlePopped(n),
         NEW r, r = IF n \in DOMAIN idle THEN Popped(idle[n]) ELSE None
  PROVE  /\ ListedOnce'
         /\ \A x \in Worker \ {r} : Listed(x)' <=> Listed(x)
         /\ n \in DOMAIN idle => r \in Worker /\ Listed(r) /\ ~Listed(r)'
<1> DEFINE m == IF n \in DOMAIN idle THEN [idle EXCEPT ![n] = Rest(@)] ELSE idle
<1>1. /\ DOMAIN m = DOMAIN idle
      /\ \A k \in DOMAIN idle : m[k] = IF k = n THEN Rest(idle[n]) ELSE idle[k]
  OBVIOUS
<1> HIDE DEF m
<1>2. idle' = [k \in {j \in DOMAIN m : m[j] # <<>>} |-> m[k]]
  BY DEF IdlePopped, RetainStaffed, Restrict, m
<1>3. \A k \in DOMAIN idle : idle[k] \in Seq(Worker) /\ idle[k] # <<>> /\ Len(idle[k]) \in Nat
  BY DEF GMInv, GMTypeOK, LiveEntries
<1>4. /\ \A k \in DOMAIN idle' : /\ k \in DOMAIN idle
                                 /\ idle'[k] = IF k = n THEN Rest(idle[n]) ELSE idle[k]
      /\ \A k \in DOMAIN idle : k # n => k \in DOMAIN idle' /\ idle'[k] = idle[k]
  BY <1>1, <1>2, <1>3
<1>5. ASSUME n \in DOMAIN idle
      PROVE  /\ Len(idle[n]) \in Nat /\ Len(idle[n]) >= 1 /\ Popped(idle[n]) = idle[n][Len(idle[n])]
             /\ Len(Rest(idle[n])) = Len(idle[n]) - 1
             /\ \A i \in 1..(Len(idle[n]) - 1) : Rest(idle[n])[i] = idle[n][i]
             /\ Len(idle[n]) > 1 => n \in DOMAIN idle'
  <2>1. PICK s \in Seq(Worker) : s = idle[n]
    BY <1>3, <1>5
  <2>2. s # <<>>
    BY <1>3, <1>5, <2>1
  <2>3. /\ Len(s) \in Nat /\ Len(s) >= 1 /\ Popped(s) = s[Len(s)]
        /\ Rest(s) = SubSeq(s, 1, Len(s) - 1)
    BY <2>2 DEF Popped, Rest
  <2>4. /\ Len(Rest(s)) = Len(s) - 1
        /\ \A i \in 1..(Len(s) - 1) : Rest(s)[i] = s[i]
    <3>1. PICK k \in Nat : k = Len(s) - 1
      BY <2>3
    <3>2. 1 \in Int /\ k \in Int /\ \A i \in 1..k : s[i] \in Worker
      BY <3>1
    <3>3. /\ Len(SubSeq(s, 1, k)) = IF 1 <= k THEN k - 1 + 1 ELSE 0
          /\ \A i \in 1..(k - 1 + 1) : SubSeq(s, 1, k)[i] = s[1 + i - 1]
      BY <3>2, SubSeqProperties
    <3>4. Len(SubSeq(s, 1, k)) = k /\ \A i \in 1..k : SubSeq(s, 1, k)[i] = s[i]
      BY <3>3
    <3> QED BY <2>3, <3>1, <3>4
  <2>5. Len(s) > 1 => Rest(s) # <<>>
    BY <2>4
  <2> QED BY <1>1, <1>2, <1>5, <2>1, <2>3, <2>4, <2>5
<1>6. \A k \in DOMAIN idle' : \A i \in 1..Len(idle'[k]) :
        /\ k \in DOMAIN idle /\ i \in 1..Len(idle[k]) /\ idle'[k][i] = idle[k][i]
        /\ k = n => i # Len(idle[n])
  <2> SUFFICES ASSUME NEW k \in DOMAIN idle', NEW i \in 1..Len(idle'[k])
               PROVE  /\ k \in DOMAIN idle /\ i \in 1..Len(idle[k]) /\ idle'[k][i] = idle[k][i]
                      /\ k = n => i # Len(idle[n])
    OBVIOUS
  <2>1. CASE k = n
    <3>1. n \in DOMAIN idle /\ idle'[k] = Rest(idle[n])
      BY <1>4, <2>1
    <3>2. i \in 1..(Len(idle[n]) - 1)
      BY <1>5, <3>1
    <3> QED BY <1>5, <2>1, <3>1, <3>2
  <2>2. CASE k # n
    BY <1>4, <2>2
  <2> QED BY <2>1, <2>2
<1>7. ListedOnce'
  BY <1>6 DEF ListedOnce
<1>8. \A x \in Worker : Listed(x)' => Listed(x)
  BY <1>6 DEF Listed
<1>9. \A k \in DOMAIN idle : \A i \in 1..Len(idle[k]) :
        k # n \/ i # Len(idle[n]) =>
          k \in DOMAIN idle' /\ i \in 1..Len(idle'[k]) /\ idle'[k][i] = idle[k][i]
  <2> SUFFICES ASSUME NEW k \in DOMAIN idle, NEW i \in 1..Len(idle[k]), k # n \/ i # Len(idle[n])
               PROVE  k \in DOMAIN idle' /\ i \in 1..Len(idle'[k]) /\ idle'[k][i] = idle[k][i]
    OBVIOUS
  <2>1. CASE k = n
    <3>1. i \in 1..(Len(idle[n]) - 1) /\ Len(idle[n]) > 1
      BY <1>5, <2>1
    <3>2. n \in DOMAIN idle' /\ idle'[n] = Rest(idle[n])
      BY <1>4, <1>5, <2>1, <3>1
    <3> QED BY <1>5, <2>1, <3>1, <3>2
  <2>2. CASE k # n
    BY <1>4, <2>2
  <2> QED BY <2>1, <2>2
<1>10. n \notin DOMAIN idle => \A x \in Worker : Listed(x) => Listed(x)'
  BY <1>9 DEF Listed
<1>11. ASSUME n \in DOMAIN idle
       PROVE  /\ r \in Worker /\ Listed(r) /\ ~Listed(r)'
              /\ \A x \in Worker : Listed(x) /\ x # r => Listed(x)'
  <2>1. r = Popped(idle[n]) /\ r \in Worker /\ NodeOf[r] = n
    BY <1>11, PoppedFacts
  <2>2. r = idle[n][Len(idle[n])] /\ Len(idle[n]) \in 1..Len(idle[n])
    BY <1>5, <1>11, <2>1
  <2>3. Listed(r)
    BY <1>11, <2>2 DEF Listed
  <2>4. ASSUME NEW k \in DOMAIN idle', NEW i \in 1..Len(idle'[k]), idle'[k][i] = r
        PROVE  FALSE
    <3>1. k \in DOMAIN idle /\ i \in 1..Len(idle[k]) /\ idle[k][i] = r /\ (k = n => i # Len(idle[n]))
      BY <1>6, <2>4
    <3>2. k = n
      BY <2>1, <3>1 DEF GMInv, FiledByNode
    <3> QED BY <2>2, <3>1, <3>2 DEF ListedOnce
  <2>5. ~Listed(r)'
    BY <2>4 DEF Listed
  <2>6. \A x \in Worker : Listed(x) /\ x # r => Listed(x)'
    BY <1>9, <2>2 DEF Listed
  <2> QED BY <2>1, <2>3, <2>5, <2>6
<1> QED BY <1>7, <1>8, <1>10, <1>11

-----------------------------------------------------------------------------
(* What reading and writing do to what a worker has sent. *)

LEMMA WorkerConn ==
  ASSUME Base, NEW w \in Worker
  PROVE  /\ w \in Conn /\ w \notin Client /\ w \notin Node
         /\ DOMAIN up = Conn /\ DOMAIN down = Conn /\ DOMAIN serving = Conn /\ DOMAIN wk = Worker
         /\ up[w] \in Seq(UpMsg(w)) /\ down[w] \in Seq(DownMsg)
         /\ wk[w].pc \in {"get", "await", "alloc", "run", "call", "finish", "dead"}
BY ConnAssumption DEF Base, Typed, UpTyped, DownTyped, WaitersOK, ThreadsOK, WkRec, Conn

\* The calls a worker has sent are invocations that were made.
LEMMA SentTasks ==
  ASSUME Base, NEW w \in Worker, NEW i \in 1..Len(up[w]), up[w][i].kind = "invoke"
  PROVE  up[w][i].task \in Task
<1>1. PICK m : m = up[w][i]
  OBVIOUS
<1>2. m \in UpMsg(w) /\ w \in Conn
  BY <1>1, WorkerConn
<1>3. m.task \in Nat
  BY <1>1, <1>2, UpKinds
<1>4. m.task \in Requests(w)
  BY <1>1, CarriedBy DEF Requests
<1>5. In(m.task, "request", w) /\ "request" \in Kinds
  BY <1>2, <1>4 DEF In, Kinds
<1> QED BY <1>1, <1>2, <1>3, <1>5 DEF Base, Custody, MadeOnly

LEMMA ReadHead ==
  ASSUME Base, NEW w \in Worker, up[w] # <<>>, up'[w] = Tail(up[w]), tasks' = tasks
  PROVE  /\ Head(up[w]) = up[w][1] /\ 1 \in 1..Len(up[w]) /\ Len(up[w]) \in Nat
         /\ Len(up[w]) = 1 => up'[w] = <<>>
         /\ Len(up[w]) # 1 => /\ up'[w] # <<>> /\ up'[w][Len(up'[w])] = up[w][Len(up[w])]
                              /\ 1 \in 1..(Len(up[w]) - 1)
         /\ Calls(w, Len(up[w])) => Calls(w, Len(up[w]))'
         /\ Closed(w, Len(up[w])) => Closed(w, Len(up[w]))'
         /\ Calls(w, Len(up[w]) - 1) => Calls(w, Len(up[w]) - 1)'
         /\ Closed(w, Len(up[w]) - 1) => Closed(w, Len(up[w]) - 1)'
<1>1. PICK s \in Seq(UpMsg(w)) : s = up[w]
  BY WorkerConn
<1> DEFINE q == Tail(s)
<1>2. s # <<>> /\ up'[w] = q
  BY <1>1
<1>3. /\ Len(s) \in Nat /\ Len(s) >= 1 /\ Head(s) = s[1] /\ Len(q) = Len(s) - 1
      /\ q \in Seq(UpMsg(w)) /\ \A i \in 1..Len(q) : q[i] = s[i + 1]
  BY <1>2
<1>4. Len(s) = 1 => q = <<>>
  BY TailOfOne
<1> HIDE DEF q
<1>5. Len(s) # 1 => q # <<>> /\ q[Len(q)] = s[Len(s)] /\ 1 \in 1..(Len(s) - 1)
  <2> SUFFICES ASSUME Len(s) # 1
               PROVE  q # <<>> /\ q[Len(q)] = s[Len(s)] /\ 1 \in 1..(Len(s) - 1)
    OBVIOUS
  <2>1. Len(q) \in 1..Len(q) /\ Len(q) + 1 = Len(s) /\ 1 \in 1..(Len(s) - 1)
    BY <1>3
  <2>2. q[Len(q)] = s[Len(q) + 1]
    BY <1>3, <2>1
  <2>3. q # <<>>
    BY <2>1
  <2> QED BY <2>1, <2>2, <2>3
<1>6. \A m : Async(m)' <=> Async(m)
  BY DEF Async
<1>7. \A i \in 1..Len(q) : i + 1 \in 1..Len(s)
  BY <1>3
<1>8. \A i \in 1..(Len(q) - 1) : i \in 1..Len(q) /\ i + 1 \in 1..(Len(s) - 1)
  BY <1>3
<1>9. Calls(w, Len(up[w])) => Calls(w, Len(up[w]))'
  BY <1>1, <1>2, <1>3, <1>6, <1>7 DEF Calls
<1>10. Closed(w, Len(up[w])) => Closed(w, Len(up[w]))'
  BY <1>1, <1>2, <1>3, <1>6, <1>7 DEF Closed
<1>11. Calls(w, Len(up[w]) - 1) => Calls(w, Len(up[w]) - 1)'
  BY <1>1, <1>2, <1>3, <1>6, <1>8 DEF Calls
<1>12. Closed(w, Len(up[w]) - 1) => Closed(w, Len(up[w]) - 1)'
  BY <1>1, <1>2, <1>3, <1>6, <1>8 DEF Closed
<1>13. /\ Head(up[w]) = up[w][1] /\ 1 \in 1..Len(up[w]) /\ Len(up[w]) \in Nat
       /\ Len(up[w]) = 1 => up'[w] = <<>>
  BY <1>1, <1>2, <1>3, <1>4
<1>14. Len(up[w]) # 1 => /\ up'[w] # <<>> /\ up'[w][Len(up'[w])] = up[w][Len(up[w])]
                         /\ 1 \in 1..(Len(up[w]) - 1)
  BY <1>1, <1>2, <1>5
<1> QED BY <1>9, <1>10, <1>11, <1>12, <1>13, <1>14

LEMMA WriteLast ==
  ASSUME Base, NEW w \in Worker, NEW m, up'[w] = Append(up[w], m), \A t \in Task : tasks'[t] = tasks[t]
  PROVE  /\ up'[w] # <<>> /\ up'[w][Len(up'[w])] = m
         /\ Calls(w, Len(up[w])) => Calls(w, Len(up[w]) - 1)'
         /\ Calls(w, Len(up[w])) /\ Async(m)' => Calls(w, Len(up[w]))'
         /\ Calls(w, Len(up[w])) /\ m.kind = "finish" => Closed(w, Len(up[w]))'
         /\ Closed(w, Len(up[w])) => Closed(w, Len(up[w]) - 1)'
<1>1. PICK s \in Seq(UpMsg(w)) : s = up[w]
  BY WorkerConn
<1> DEFINE q == Append(s, m)
<1>2. up'[w] = q
  BY <1>1
<1>3. /\ Len(s) \in Nat /\ Len(q) = Len(s) + 1 /\ q[Len(q)] = m /\ q # <<>>
      /\ \A i \in 1..Len(s) : q[i] = s[i]
  OBVIOUS
<1> HIDE DEF q
<1>4. \A i \in 1..Len(s) : Async(s[i]) => Async(s[i])'
  BY <1>1, SentTasks DEF Async
<1>5. \A i \in 1..Len(q) : i \in 1..Len(s) \/ i = Len(q)
  BY <1>3
<1>6. Len(q) - 1 = Len(s)
  BY <1>3
<1>7. Calls(w, Len(up[w])) => Calls(w, Len(up[w]) - 1)'
  BY <1>1, <1>2, <1>3, <1>4, <1>6 DEF Calls
<1>8. Calls(w, Len(up[w])) /\ Async(m)' => Calls(w, Len(up[w]))'
  BY <1>1, <1>2, <1>3, <1>4, <1>5 DEF Calls
<1>9. Calls(w, Len(up[w])) /\ m.kind = "finish" => Closed(w, Len(up[w]))'
  BY <1>1, <1>2, <1>3, <1>4, <1>5 DEF Calls, Closed
<1>10. Closed(w, Len(up[w])) => Closed(w, Len(up[w]) - 1)'
  BY <1>1, <1>2, <1>3, <1>4, <1>6 DEF Closed
<1> QED BY <1>2, <1>3, <1>7, <1>8, <1>9, <1>10

\* A worker that the step does not touch.
LEMMA WorkerUntouched ==
  ASSUME Base, NEW w \in Worker, WorkerOK(w),
         wk'[w] = wk[w], up'[w] = up[w], down'[w] = down[w], serving'[w] = serving[w],
         Listed(w)' <=> Listed(w), Chosen(w)' <=> Chosen(w),
         \A t \in DOMAIN waitList' : waitList'[t] = w => t \in DOMAIN waitList /\ waitList[t] = w,
         \A t \in Task : tasks'[t] = tasks[t]
  PROVE  WorkerOK(w)'
<1>1. PICK s \in Seq(UpMsg(w)) : s = up[w]
  BY WorkerConn
<1>2. s = up'[w] /\ Len(s) \in Nat
  BY <1>1
<1>3. ~Waits(w) => ~Waits(w)'
  BY DEF Waits
<1>4. Calm(w) => Calm(w)'
  BY <1>3 DEF Calm
<1>5. Unasked(w) => Unasked(w)'
  BY <1>4 DEF Unasked
<1>6. \A i \in 1..Len(s) : s[i].kind = "invoke" => tasks'[s[i].task] = tasks[s[i].task]
  BY <1>1, SentTasks
<1>7. \A i \in 1..Len(s) : Async(s[i]) => Async(s[i])'
  BY <1>6 DEF Async
<1>8. \A i \in 1..(Len(s) - 1) : i \in 1..Len(s)
  BY <1>2
<1>9. /\ Calls(w, Len(up[w])) => Calls(w, Len(up[w]))'
      /\ Calls(w, Len(up[w]) - 1) => Calls(w, Len(up[w]) - 1)'
  BY <1>1, <1>2, <1>7, <1>8 DEF Calls
<1>10. /\ Closed(w, Len(up[w])) => Closed(w, Len(up[w]))'
       /\ Closed(w, Len(up[w]) - 1) => Closed(w, Len(up[w]) - 1)'
  BY <1>1, <1>2, <1>7, <1>8 DEF Closed
<1>11. Asking(w) => Asking(w)'
  BY <1>5, <1>10 DEF Asking
<1>12. Asked(w) => Asked(w)'
  BY <1>4 DEF Asked
<1>13. Calling(w) => Calling(w)'
  <2>1. s # <<>> => Len(s) \in 1..Len(s)
    BY <1>2
  <2> QED BY <1>1, <1>2, <1>4, <1>6, <1>9, <2>1 DEF Calling
<1>14. Held(w) => Held(w)'
  BY <1>3 DEF Held
<1>15. Registered(w) => Registered(w)'
  BY DEF Registered
<1>16. Answered(w) => Answered(w)'
  BY <1>4 DEF Answered
<1> QED BY <1>4, <1>5, <1>9, <1>10, <1>11, <1>12, <1>13, <1>14, <1>15, <1>16 DEF WorkerOK

\* The step touches one worker at most.
LEMMA OthersUntouched ==
  ASSUME Base, WorkerInv, NEW v,
         \A w \in Worker \ {v} :
           /\ wk'[w] = wk[w] /\ up'[w] = up[w] /\ down'[w] = down[w] /\ serving'[w] = serving[w]
           /\ (Listed(w)' <=> Listed(w)) /\ (Chosen(w)' <=> Chosen(w)),
         \A t \in DOMAIN waitList' :
           waitList'[t] # v => t \in DOMAIN waitList /\ waitList[t] = waitList'[t],
         \A t \in Task : tasks'[t] = tasks[t],
         v \in Worker => WorkerOK(v)'
  PROVE  \A w \in Worker : WorkerOK(w)'
BY WorkerUntouched DEF WorkerInv

LEMMA SameListing ==
  /\ UNCHANGED idle => (\A w : Listed(w)' <=> Listed(w)) /\ (ListedOnce => ListedOnce')
  /\ UNCHANGED sched => \A w : Chosen(w)' <=> Chosen(w)
  /\ UNCHANGED dropping => (NoneLeaves => NoneLeaves')
  /\ UNCHANGED <<gone, wk>> => (GoneDead => GoneDead')
  /\ UNCHANGED <<waitList, serving>> => \A c : Calm(c)' <=> Calm(c)
BY DEF Listed, ListedOnce, Chosen, NoneLeaves, GoneDead, Calm, Waits

-----------------------------------------------------------------------------
(* What the state of a worker tells of the request a handler reads next.     *)

LEMMA NextRequest ==
  ASSUME Base, NEW w \in Worker, WorkerOK(w), up[w] # <<>>
  PROVE  /\ Unasked(w)
         /\ up[w][1].kind = "get" => wk[w].pc = "await" /\ Len(up[w]) = 1
         /\ up[w][1].kind = "invoke" /\ tasks[up[w][1].task].sync =>
              wk[w].pc = "call" /\ Len(up[w]) = 1
         /\ up[w][1].kind = "finish" \/ Async(up[w][1]) =>
              \/ wk[w].pc \in {"alloc", "run", "finish"} /\ Calls(w, Len(up[w]))
              \/ wk[w].pc = "get" /\ Closed(w, Len(up[w]))
              \/ wk[w].pc = "await" /\ Asking(w) /\ Len(up[w]) # 1
              \/ wk[w].pc = "call" /\ Calling(w) /\ Len(up[w]) # 1
<1>1. Len(up[w]) \in Nat /\ 1 \in 1..Len(up[w]) /\ (Len(up[w]) # 1 => 1 \in 1..(Len(up[w]) - 1))
  <2>1. PICK s \in Seq(UpMsg(w)) : s = up[w]
    BY WorkerConn
  <2>2. s # <<>>
    BY <2>1
  <2>3. Len(s) \in Nat \ {0}
    BY <2>2, EmptySeq
  <2>4. PICK k \in Nat \ {0} : k = Len(up[w])
    BY <2>1, <2>3
  <2>5. k \in Nat /\ 1 \in 1..k /\ (k # 1 => 1 \in 1..(k - 1))
    OBVIOUS
  <2> QED BY <2>4, <2>5
<1>2. CASE wk[w].pc \in {"alloc", "run", "finish"}
  <2>1. Unasked(w) /\ Calls(w, Len(up[w])) /\ Async(up[w][1])
    BY <1>1, <1>2 DEF WorkerOK, Calls
  <2> QED BY <1>2, <2>1 DEF Async
<1>3. CASE wk[w].pc = "get"
  <2>1. Unasked(w) /\ Closed(w, Len(up[w])) /\ (Async(up[w][1]) \/ up[w][1].kind = "finish")
    BY <1>1, <1>3 DEF WorkerOK, Closed
  <2> QED BY <1>3, <2>1 DEF Async
<1>4. CASE wk[w].pc = "await"
  <2>1. Asking(w)
    BY <1>4 DEF WorkerOK, Asked
  <2>2. CASE Len(up[w]) = 1
    <3>1. up[w][1].kind = "get" /\ Unasked(w)
      BY <2>1, <2>2 DEF Asking
    <3> QED BY <1>4, <2>2, <3>1 DEF Async
  <2>3. CASE Len(up[w]) # 1
    <3>1. Unasked(w) /\ (Async(up[w][1]) \/ up[w][1].kind = "finish")
      BY <1>1, <2>1, <2>3 DEF Asking, Closed
    <3> QED BY <1>4, <2>1, <2>3, <3>1 DEF Async
  <2> QED BY <2>2, <2>3
<1>5. CASE wk[w].pc = "call"
  <2>1. Calling(w) /\ ~Listed(w) /\ ~Chosen(w)
    BY <1>5 DEF WorkerOK, Held, Registered, Answered
  <2>2. Unasked(w)
    BY <2>1 DEF Calling, Unasked
  <2>3. CASE Len(up[w]) = 1
    <3>1. up[w][1].kind = "invoke" /\ tasks[up[w][1].task].sync
      BY <2>1, <2>3 DEF Calling
    <3> QED BY <1>5, <2>2, <2>3, <3>1 DEF Async
  <2>4. CASE Len(up[w]) # 1
    <3>1. Async(up[w][1])
      BY <1>1, <2>1, <2>4 DEF Calling, Calls
    <3> QED BY <1>5, <2>1, <2>2, <2>4, <3>1 DEF Async
  <2> QED BY <2>3, <2>4
<1>6. wk[w].pc # "dead"
  BY DEF WorkerOK
<1> QED BY <1>2, <1>3, <1>4, <1>5, <1>6, WorkerConn

\* The end of an execution, or an asynchronous call, is read.
LEMMA Consumed ==
  ASSUME Base, NEW w \in Worker, WorkerOK(w), up[w] # <<>>,
         up[w][1].kind = "finish" \/ Async(up[w][1]),
         up'[w] = Tail(up[w]), tasks' = tasks, wk'[w] = wk[w], down'[w] = down[w], Calm(w)',
         Listed(w)' <=> Listed(w), Chosen(w)' <=> Chosen(w)
  PROVE  WorkerOK(w)'
<1>1. Unasked(w) /\ Unasked(w)'
  BY NextRequest DEF Unasked
<1>2. /\ Calls(w, Len(up[w])) => Calls(w, Len(up[w]))'
      /\ Closed(w, Len(up[w])) => Closed(w, Len(up[w]))'
      /\ Calls(w, Len(up[w]) - 1) => Calls(w, Len(up[w]) - 1)'
      /\ Closed(w, Len(up[w]) - 1) => Closed(w, Len(up[w]) - 1)'
      /\ Len(up[w]) # 1 => up'[w] # <<>> /\ up'[w][Len(up'[w])] = up[w][Len(up[w])]
  BY ReadHead
<1>3. Asking(w) /\ Len(up[w]) # 1 => Asking(w)'
  BY <1>1, <1>2 DEF Asking
<1>4. Calling(w) /\ Len(up[w]) # 1 => Calling(w)'
  BY <1>2 DEF Calling
<1>5. \/ wk[w].pc \in {"alloc", "run", "finish"} /\ Calls(w, Len(up[w]))
      \/ wk[w].pc = "get" /\ Closed(w, Len(up[w]))
      \/ wk[w].pc = "await" /\ Asking(w) /\ Len(up[w]) # 1
      \/ wk[w].pc = "call" /\ Calling(w) /\ Len(up[w]) # 1
  BY NextRequest
<1>6. ~Listed(w)' /\ ~Chosen(w)'
  BY <1>1 DEF Unasked
<1> QED BY <1>1, <1>2, <1>3, <1>4, <1>5, <1>6 DEF WorkerOK

-----------------------------------------------------------------------------
(* Each step keeps the workers' connections in order: gateway and handlers.  *)

LEMMA ClientsLeaveWorkers ==
  ASSUME Base, WorkerInv, NEW d \in Client,
         ClientPing(d) \/ (\E f \in Function : ClientInvoke(d, f)) \/ ClientReturn(d)
  PROVE  WorkerInv'
<1>1. UNCHANGED <<idle, sched, waitList, serving, wk, gone, dropping>>
  BY DEF ClientPing, ClientInvoke, ClientReturn, gmVars
<1>2. \A t \in Task : tasks'[t] = tasks[t]
  <2>1. CASE UNCHANGED tasks
    BY <2>1
  <2>2. CASE \E f \in Function : ClientInvoke(d, f)
    <3>1. PICK f \in Function : Len(tasks) < MaxTasks /\ tasks' = Append(tasks, [fn |-> f, sync |-> TRUE, from |-> d])
      BY <2>2 DEF ClientInvoke
    <3>2. PICK r \in TaskRec : r = [fn |-> f, sync |-> TRUE, from |-> d]
      BY DEF TaskRec
    <3>3. tasks' = Append(tasks, r)
      BY <3>1, <3>2
    <3> QED BY <3>1, <3>3, NewTask
  <2> QED BY <2>1, <2>2 DEF ClientPing, ClientReturn
<1>3. \A w \in Worker : up'[w] = up[w] /\ down'[w] = down[w]
  <2> SUFFICES ASSUME NEW w \in Worker
               PROVE  up'[w] = up[w] /\ down'[w] = down[w]
    OBVIOUS
  <2>1. w # d /\ w \in DOMAIN up /\ w \in DOMAIN down
    BY WorkerConn
  <2> QED BY <2>1 DEF ClientPing, ClientInvoke, ClientReturn, Send, ReadDown
<1>4. \A w \in Worker : WorkerOK(w)'
  <2>1. d \notin Worker
    BY WorkerConn
  <2> QED BY <1>1, <1>2, <1>3, <2>1, OthersUntouched, SameListing
<1> QED BY <1>1, <1>4, SameListing DEF WorkerInv

\* The same for requests on other connections than a worker's.
LEMMA ElsewhereServed ==
  ASSUME Base, WorkerInv, NEW d \in Conn, d \notin Worker,
         up' = [up EXCEPT ![d] = Tail(up[d])], \A c \in Conn \ {d} : down'[c] = down[c],
         \A c \in Conn \ {d} : serving'[c] = serving[c],
         UNCHANGED <<idle, waitList, tasks, wk, gone, dropping>>,
         UNCHANGED sched \/ sched' = Notified
  PROVE  WorkerInv'
<1>1. \A w : Chosen(w)' <=> Chosen(w)
  <2>1. CASE sched' = Notified
    <3>1. sched'.worker = sched.worker /\ (sched'.pc = "write" <=> sched.pc = "write")
      BY <2>1, NotifiedOK DEF Base, Typed
    <3> QED BY <3>1 DEF Chosen
  <2> QED BY <2>1, SameListing
<1>2. \A w \in Worker : /\ up'[w] = up[w] /\ down'[w] = down[w] /\ serving'[w] = serving[w]
                        /\ (Listed(w)' <=> Listed(w))
  BY WorkerConn, SameListing
<1>3. \A w \in Worker : WorkerOK(w)'
  BY <1>1, <1>2, OthersUntouched
<1> QED BY <1>3, SameListing DEF WorkerInv

LEMMA ServeGetKeeps ==
  ASSUME Base, WorkerInv, NEW v \in Worker, ServeGet(v)
  PROVE  WorkerInv'
<1>1. /\ up[v] # <<>> /\ Head(up[v]).kind = "get" /\ up' = [up EXCEPT ![v] = Tail(up[v])]
      /\ AddIdle(v) /\ sched' = Notified
      /\ UNCHANGED <<waitList, tasks, serving, down, wk, gone, dropping>>
  BY DEF ServeGet, Requested, ReadUp, nodeVars
<1>2. up'[v] = Tail(up[v]) /\ \A w \in Worker \ {v} : up'[w] = up[w]
  BY <1>1, WorkerConn
<1>3. /\ Head(up[v]) = up[v][1] /\ (Len(up[v]) = 1 => up'[v] = <<>>) /\ WorkerOK(v)
  BY <1>1, <1>2, ReadHead DEF WorkerInv
<1>4. Unasked(v) /\ wk[v].pc = "await" /\ up'[v] = <<>>
  BY <1>1, <1>3, NextRequest
<1>5. ListedOnce' /\ Listed(v)' /\ \A x \in Worker \ {v} : Listed(x)' <=> Listed(x)
  BY <1>1, <1>4, AddLists DEF Base, Typed, WorkerInv, Unasked
<1>6. \A w : Chosen(w)' <=> Chosen(w)
  <2>1. sched'.worker = sched.worker /\ (sched'.pc = "write" <=> sched.pc = "write")
    BY <1>1, NotifiedOK DEF Base, Typed
  <2> QED BY <2>1 DEF Chosen
<1>7. WorkerOK(v)'
  <2>1. Calm(v)' /\ ~Chosen(v)' /\ down'[v] = <<>> /\ wk'[v].pc = "await"
    BY <1>1, <1>4, <1>6, SameListing DEF Unasked
  <2>2. Asked(v)'
    BY <1>4, <1>5, <2>1 DEF Asked
  <2> QED BY <2>1, <2>2 DEF WorkerOK
<1>8. \A w \in Worker : WorkerOK(w)'
  BY <1>1, <1>2, <1>5, <1>6, <1>7, OthersUntouched
<1> QED BY <1>1, <1>5, <1>8, SameListing DEF WorkerInv

LEMMA ServeInvokeOrder ==
  ASSUME Base, WorkerInv, AsyncFits, NEW v \in Worker, ServeInvoke(v)
  PROVE  WorkerInv'
<1>1. PICK t : t = Head(up[v]).task
  OBVIOUS
<1>2. /\ Requested(v, "invoke") /\ serving[v] = None
      /\ up[v] # <<>> /\ Head(up[v]).kind = "invoke" /\ up' = [up EXCEPT ![v] = Tail(up[v])]
      /\ \/ /\ serving' = [serving EXCEPT ![v] = IF tasks[t].sync THEN t ELSE None]
            /\ down' = down
         \/ /\ Len(queue) >= QueueCap
            /\ down' = Delivered(v, Return(t, "full")) /\ serving' = serving
      /\ UNCHANGED <<idle, sched, waitList, tasks, wk, gone, dropping>>
  BY <1>1 DEF ServeInvoke, Requested, ReadUp, nodeVars, gmVars
<1>3. up'[v] = Tail(up[v]) /\ \A w \in Worker \ {v} : up'[w] = up[w]
  BY <1>2, WorkerConn
<1>4. \A w \in Worker \ {v} : down'[w] = down[w] /\ serving'[w] = serving[w]
  <2> SUFFICES ASSUME NEW w \in Worker \ {v}
               PROVE  down'[w] = down[w] /\ serving'[w] = serving[w]
    OBVIOUS
  <2> QED BY <1>2, WorkerConn DEF Delivered
<1>5. /\ Head(up[v]) = up[v][1] /\ (Len(up[v]) = 1 => up'[v] = <<>>) /\ WorkerOK(v)
  BY <1>2, <1>3, ReadHead DEF WorkerInv
<1>6. Unasked(v) /\ up[v][1].kind = "invoke" /\ up[v][1].task = t
  BY <1>1, <1>2, <1>5, NextRequest
<1>7. CASE ~tasks[t].sync
  <2>1. Async(up[v][1])
    BY <1>6, <1>7 DEF Async
  <2>2. Len(queue) < QueueCap
    BY <1>1, <1>2, <1>7 DEF AsyncFits
  <2>3. down' = down /\ serving' = [serving EXCEPT ![v] = None]
    <3>1. ~(Len(queue) >= QueueCap)
      BY <2>2, BoundAssumption DEF Base, Typed, QueueOK
    <3> QED BY <1>2, <1>7, <3>1
  <2>4. Calm(v)'
    BY <1>2, <1>6, <2>3, WorkerConn DEF Unasked, Calm, Waits
  <2>5. (Listed(v)' <=> Listed(v)) /\ (Chosen(v)' <=> Chosen(v)) /\ down'[v] = down[v]
    BY <1>2, <2>3, SameListing
  <2> QED BY <1>2, <1>3, <1>4, <1>5, <2>1, <2>4, <2>5, Consumed, OthersUntouched, SameListing
          DEF WorkerInv
<1>8. CASE tasks[t].sync
  <2>1. wk[v].pc = "call" /\ Len(up[v]) = 1 /\ up'[v] = <<>>
    BY <1>2, <1>5, <1>6, <1>8, NextRequest
  <2>2. ~Listed(v)' /\ ~Chosen(v)' /\ ~Waits(v)' /\ wk'[v].pc = "call"
    BY <1>2, <1>6, <2>1, SameListing DEF Unasked, Calm, Waits
  <2>3. ASSUME serving' = [serving EXCEPT ![v] = IF tasks[t].sync THEN t ELSE None], down' = down
        PROVE  WorkerOK(v)'
    <3>1. t # None
      <4>1. PICK m : m = up[v][1]
        OBVIOUS
      <4>2. m \in UpMsg(v)
        <5>1. up[v] \in Seq(UpMsg(v)) /\ up[v] # <<>>
          BY <1>2, WorkerConn
        <5> QED BY <1>5, <4>1, <5>1
      <4> QED BY <1>6, <4>1, <4>2, UpKinds, NoneIsNoTask, WorkerConn
    <3>2. serving'[v] = t /\ down'[v] = <<>>
      BY <1>6, <1>8, <2>3, WorkerConn DEF Unasked
    <3>3. Held(v)'
      BY <2>1, <2>2, <3>1, <3>2 DEF Held
    <3> QED BY <2>2, <3>3 DEF WorkerOK
  <2>4. ASSUME down' = Delivered(v, Return(t, "full")), serving' = serving
        PROVE  WorkerOK(v)'
    <3>1. v \notin gone
      BY <2>1 DEF WorkerInv, GoneDead
    <3>2. down' = [down EXCEPT ![v] = Append(down[v], Return(t, "full"))]
      BY <2>4, <3>1 DEF Delivered
    <3>3. down'[v] = <<Return(t, "full")>>
      BY <1>6, <3>2, WorkerConn, OneMessage DEF Unasked
    <3>4. Len(down'[v]) = 1 /\ down'[v][1].kind = "return"
      BY <3>3, OneMessage DEF Return
    <3>5. Calm(v)'
      BY <1>2, <2>2, <2>4 DEF Calm
    <3>6. Answered(v)'
      BY <2>1, <3>4, <3>5 DEF Answered
    <3> QED BY <2>2, <3>6 DEF WorkerOK
  <2>5. WorkerOK(v)'
    BY <1>2, <2>3, <2>4
  <2>6. \A w \in Worker : WorkerOK(w)'
    BY <1>2, <1>3, <1>4, <2>5, OthersUntouched, SameListing
  <2> QED BY <1>2, <2>6, SameListing DEF WorkerInv
<1> QED BY <1>7, <1>8

LEMMA ServeRegisterOrder ==
  ASSUME Base, WorkerInv, NEW d \in Conn, ServeRegister(d)
  PROVE  WorkerInv'
<1>1. PICK t : t = serving[d]
  OBVIOUS
<1>2. /\ t # None /\ waitList' = Put(waitList, t, d) /\ serving' = [serving EXCEPT ![d] = None]
      /\ UNCHANGED <<idle, sched, tasks, up, down, wk, gone, dropping>>
  BY <1>1 DEF ServeRegister, nodeVars, gmVars
<1>3. /\ \A u \in DOMAIN waitList' : waitList'[u] # d => u \in DOMAIN waitList /\ waitList[u] = waitList'[u]
      /\ \A u \in DOMAIN waitList' : waitList'[u] = d => u = t \/ (u \in DOMAIN waitList /\ waitList[u] = d)
  BY <1>2 DEF Put
<1>4. \A w \in Worker \ {d} : serving'[w] = serving[w]
  BY <1>2, WorkerConn
<1>5. d \in Worker => WorkerOK(d)'
  <2> SUFFICES ASSUME d \in Worker
               PROVE  WorkerOK(d)'
    OBVIOUS
  <2>1. WorkerOK(d) /\ ~Calm(d)
    BY <1>1, <1>2 DEF WorkerInv, Calm
  <2>2. wk[d].pc = "call" /\ Held(d) /\ ~Listed(d) /\ ~Chosen(d)
    BY <1>1, <1>2, <2>1, WorkerConn
       DEF WorkerOK, Unasked, Asking, Asked, Calling, Registered, Answered
  <2>3. serving'[d] = None /\ \A u \in DOMAIN waitList' : waitList'[u] = d => u = t
    BY <1>2, <1>3, <2>2, WorkerConn DEF Held, Waits
  <2>4. Registered(d)'
    BY <1>2, <2>2, <2>3 DEF Held, Registered
  <2> QED BY <1>2, <2>2, <2>4, SameListing DEF WorkerOK
<1>6. \A w \in Worker : WorkerOK(w)'
  BY <1>2, <1>3, <1>4, <1>5, OthersUntouched, SameListing
<1> QED BY <1>2, <1>6, SameListing DEF WorkerInv

LEMMA ServeFinishOrder ==
  ASSUME Base, WorkerInv, NEW v \in Worker, ServeFinish(v)
  PROVE  WorkerInv'
<1>1. PICK t, x : t = Head(up[v]).task /\ x = Return(t, Head(up[v]).res)
  OBVIOUS
<1>2. /\ up[v] # <<>> /\ Head(up[v]).kind = "finish"
      /\ up' = [up EXCEPT ![v] = Tail(up[v])] /\ waitList' = Drop(waitList, t)
      /\ down' = IF t \in DOMAIN waitList THEN Delivered(waitList[t], x) ELSE down
      /\ UNCHANGED <<idle, sched, tasks, serving, wk, gone, dropping>>
  BY <1>1 DEF ServeFinish, Requested, ReadUp, nodeVars, gmVars
<1>3. /\ DOMAIN waitList' = DOMAIN waitList \ {t}
      /\ \A u \in DOMAIN waitList' : waitList'[u] = waitList[u]
  BY <1>2, DropFacts
<1>4. up'[v] = Tail(up[v]) /\ \A w \in Worker \ {v} : up'[w] = up[w]
  BY <1>2, WorkerConn
<1>5. Head(up[v]) = up[v][1] /\ WorkerOK(v)
  BY <1>2, <1>4, ReadHead DEF WorkerInv
<1>6. Unasked(v) /\ up[v][1].kind = "finish"
  BY <1>2, <1>5, NextRequest
<1>7. \A w \in Worker : ~(t \in DOMAIN waitList /\ waitList[t] = w) => down'[w] = down[w]
  <2> SUFFICES ASSUME NEW w \in Worker, ~(t \in DOMAIN waitList /\ waitList[t] = w)
               PROVE  down'[w] = down[w]
    OBVIOUS
  <2> QED BY <1>2, WorkerConn DEF Delivered
<1>8. \A w \in Worker : (Listed(w)' <=> Listed(w)) /\ (Chosen(w)' <=> Chosen(w))
  BY <1>2, SameListing
<1>9. ASSUME NEW w \in Worker
      PROVE  WorkerOK(w)'
  <2>1. CASE w = v
    <3>1. ~(t \in DOMAIN waitList /\ waitList[t] = v) /\ Calm(v)'
      BY <1>2, <1>3, <1>6 DEF Unasked, Calm, Waits
    <3>2. down'[v] = down[v] /\ wk'[v] = wk[v] /\ tasks' = tasks
      BY <1>2, <1>7, <3>1
    <3> QED BY <1>2, <1>4, <1>5, <1>6, <1>8, <2>1, <3>1, <3>2, Consumed
  <2>2. CASE w # v /\ t \in DOMAIN waitList /\ waitList[t] = w
    <3>1. WorkerOK(w) /\ Waits(w)
      BY <2>2 DEF WorkerInv, Waits
    <3>2. wk[w].pc = "call" /\ Registered(w) /\ ~Listed(w) /\ ~Chosen(w)
      BY <3>1, WorkerConn
         DEF WorkerOK, Unasked, Asking, Asked, Calling, Held, Answered, Calm
    <3>3. w \notin gone
      BY <3>2 DEF WorkerInv, GoneDead
    <3>4. down' = [down EXCEPT ![w] = Append(down[w], x)]
      BY <1>2, <2>2, <3>3 DEF Delivered
    <3>5. down'[w] = <<x>>
      BY <3>2, <3>4, WorkerConn, OneMessage DEF Registered
    <3>6. Len(down'[w]) = 1 /\ down'[w][1].kind = "return"
      <4>1. Len(down'[w]) = 1 /\ down'[w][1] = x
        BY <3>5, OneMessage
      <4> QED BY <1>1, <4>1 DEF Return
    <3>7. Calm(w)'
      BY <1>2, <1>3, <2>2, <3>2 DEF Calm, Waits, Registered
    <3>8. Answered(w)'
      BY <1>4, <2>2, <3>2, <3>6, <3>7 DEF Answered, Registered
    <3> QED BY <1>2, <1>8, <3>2, <3>8 DEF WorkerOK
  <2>3. CASE w # v /\ ~(t \in DOMAIN waitList /\ waitList[t] = w)
    BY <1>2, <1>3, <1>4, <1>7, <1>8, <2>3, WorkerUntouched DEF WorkerInv
  <2> QED BY <2>1, <2>2, <2>3
<1> QED BY <1>2, <1>9, SameListing DEF WorkerInv

-----------------------------------------------------------------------------
(* The scheduling thread. *)

\* A worker that is listed, or chosen, waits for a task and has been sent none.
LEMMA ListedWaits ==
  ASSUME Base, WorkerInv, NEW w \in Worker, Listed(w) \/ Chosen(w)
  PROVE  /\ wk[w].pc = "await" /\ Calm(w) /\ up[w] = <<>> /\ down[w] = <<>> /\ w \notin gone
         /\ ~(Listed(w) /\ Chosen(w))
<1>1. WorkerOK(w)
  BY DEF WorkerInv
<1>2. wk[w].pc = "await"
  BY <1>1, WorkerConn DEF WorkerOK, Unasked
<1>3. Asked(w)
  BY <1>1, <1>2 DEF WorkerOK, Asking, Unasked
<1>4. w \notin gone
  BY <1>2 DEF WorkerInv, GoneDead
<1> QED BY <1>2, <1>3, <1>4 DEF Asked

LEMMA FindUnlists ==
  ASSUME GMInv, ListedOnce, NEW f, NEW r \in Worker \cup {None}, FindIdle(f, r)
  PROVE  /\ ListedOnce' /\ (\A x \in Worker \ {r} : Listed(x)' <=> Listed(x))
         /\ r # None => Listed(r) /\ ~Listed(r)'
<1>1. CASE r = None /\ UNCHANGED idle
  BY <1>1, NoneAssumption, SameListing
<1>2. ASSUME NEW n, r = IF n \in DOMAIN idle THEN Popped(idle[n]) ELSE None, idle' = IdlePopped(n)
      PROVE  /\ ListedOnce' /\ (\A x \in Worker \ {r} : Listed(x)' <=> Listed(x))
             /\ r # None => Listed(r) /\ ~Listed(r)'
  BY <1>2, PopUnlists
<1>3. CASE FindCached(f, r)
  BY <1>2, <1>3 DEF FindCached
<1>4. CASE FindAny(f, r)
  <2>1. CASE \E n \in DOMAIN idle : r = Popped(idle[n]) /\ idle' = IdlePopped(n)
    BY <1>2, <2>1
  <2> QED BY <1>1, <1>4, <2>1 DEF FindAny
<1> QED BY <1>3, <1>4 DEF FindIdle

LEMMA SchedFindOrder ==
  ASSUME Base, WorkerInv, SchedFind
  PROVE  WorkerInv'
<1>1. PICK r \in Worker \cup {None} :
        /\ FindIdle(tasks[sched.task].fn, r)
        /\ sched' = [sched EXCEPT !.pc = IF r = None THEN "wait" ELSE "write", !.worker = r]
  BY DEF SchedFind
<1>2. /\ sched.pc = "find"
      /\ UNCHANGED <<waitList, tasks, serving, up, down, wk, gone, dropping>>
  BY DEF SchedFind, nodeVars
<1>3. /\ ListedOnce' /\ (\A x \in Worker \ {r} : Listed(x)' <=> Listed(x))
      /\ r # None => Listed(r) /\ ~Listed(r)'
  <2>1. PICK f : f = tasks[sched.task].fn
    OBVIOUS
  <2> QED BY <1>1, <2>1, FindUnlists DEF Base, Typed, WorkerInv
<1>4. sched'.worker = r /\ (sched'.pc = "write" <=> r # None)
  BY <1>1 DEF Base, Typed, SchedOK, SchedRec
<1>5. \A x \in Worker : ~Chosen(x) /\ (Chosen(x)' <=> x = r)
  BY <1>2, <1>4, NoneAssumption DEF Chosen
<1>6. r \in Worker => WorkerOK(r)'
  <2> SUFFICES ASSUME r \in Worker
               PROVE  WorkerOK(r)'
    OBVIOUS
  <2>1. Listed(r) /\ ~Listed(r)' /\ Chosen(r)'
    BY <1>3, <1>5, NoneAssumption
  <2>2. wk[r].pc = "await" /\ Calm(r) /\ up[r] = <<>> /\ down[r] = <<>>
    BY <2>1, ListedWaits
  <2>3. wk'[r].pc = "await" /\ Calm(r)' /\ up'[r] = <<>> /\ down'[r] = <<>>
    BY <1>2, <2>2, SameListing
  <2>4. Asked(r)'
    BY <2>1, <2>3 DEF Asked
  <2> QED BY <2>3, <2>4 DEF WorkerOK
<1>7. \A w \in Worker : WorkerOK(w)'
  BY <1>2, <1>3, <1>5, <1>6, OthersUntouched
<1> QED BY <1>2, <1>3, <1>7, SameListing DEF WorkerInv

LEMMA SchedWriteOrder ==
  ASSUME Base, WorkerInv, SchedWrite
  PROVE  WorkerInv'
<1>1. /\ sched.pc = "write"
      /\ UNCHANGED <<idle, waitList, tasks, serving, up, wk, gone, dropping>>
  BY DEF SchedWrite, nodeVars, gmVars
<1>2. PICK v \in Worker : v = sched.worker
  BY <1>1 DEF Base, Typed, SchedOK
<1>3. Chosen(v) /\ \A w \in Worker \ {v} : ~Chosen(w)
  BY <1>1, <1>2 DEF Chosen
<1>4. /\ wk[v].pc = "await" /\ Calm(v) /\ up[v] = <<>> /\ down[v] = <<>> /\ v \notin gone /\ ~Listed(v)
  BY <1>3, ListedWaits
<1>5. PICK x : x = ProcessTask(sched.task)
  OBVIOUS
<1>6. /\ down' = [down EXCEPT ![v] = Append(down[v], x)]
      /\ sched' = [pc |-> "recv", task |-> None, worker |-> None]
  BY <1>2, <1>4, <1>5 DEF SchedWrite, Delivered
<1>7. \A w : ~Chosen(w)'
  BY <1>6 DEF Chosen
<1>8. down'[v] = <<x>> /\ \A w \in Worker \ {v} : down'[w] = down[w]
  BY <1>4, <1>6, WorkerConn, OneMessage
<1>9. WorkerOK(v)'
  <2>1. Len(down'[v]) = 1 /\ down'[v][1].kind = "process"
    <3>1. Len(down'[v]) = 1 /\ down'[v][1] = x
      BY <1>8, OneMessage
    <3> QED BY <1>5, <3>1 DEF ProcessTask
  <2>2. ~Listed(v)' /\ Calm(v)' /\ up'[v] = <<>> /\ wk'[v].pc = "await"
    BY <1>1, <1>4, SameListing
  <2>3. Asked(v)'
    BY <1>7, <2>1, <2>2 DEF Asked
  <2> QED BY <2>2, <2>3 DEF WorkerOK
<1>10. \A w \in Worker : WorkerOK(w)'
  BY <1>1, <1>3, <1>7, <1>8, <1>9, OthersUntouched, SameListing
<1> QED BY <1>1, <1>10, SameListing DEF WorkerInv

LEMMA SchedWaitOrder ==
  ASSUME Base, WorkerInv, SchedRecv \/ SchedSpuriousWake
  PROVE  WorkerInv'
<1>1. /\ sched.pc # "write" /\ sched'.pc # "write"
      /\ UNCHANGED <<idle, waitList, tasks, serving, up, down, wk, gone, dropping>>
  BY DEF SchedRecv, SchedSpuriousWake, nodeVars, gmVars, Base, Typed, SchedOK, SchedRec
<1>2. \A w \in Worker : Chosen(w)' <=> Chosen(w)
  BY <1>1 DEF Chosen
<1>3. None \in Worker => WorkerOK(None)'
  BY NoneAssumption
<1>4. \A w \in Worker : WorkerOK(w)'
  BY <1>1, <1>2, <1>3, OthersUntouched, SameListing
<1> QED BY <1>1, <1>4, SameListing DEF WorkerInv

-----------------------------------------------------------------------------
(* The worker threads. *)

\* A thread of worker v moves; what the others hold is not touched.
LEMMA ThreadOrder ==
  ASSUME Base, WorkerInv, NEW v \in Worker, WorkerOK(v)',
         \A w \in Worker \ {v} : wk'[w] = wk[w] /\ up'[w] = up[w] /\ down'[w] = down[w],
         UNCHANGED <<idle, sched, waitList, serving, dropping>>,
         \A t \in Task : tasks'[t] = tasks[t],
         \/ gone' = gone /\ wk[v].pc # "dead"
         \/ gone' = gone \cup {v} /\ wk'[v].pc = "dead"
  PROVE  WorkerInv'
<1>1. \A w \in Worker : WorkerOK(w)'
  BY OthersUntouched, SameListing
<1>2. GoneDead'
  BY DEF WorkerInv, GoneDead, Base, Typed, MachinesOK
<1> QED BY <1>1, <1>2, SameListing DEF WorkerInv

LEMMA WorkerGetOrder ==
  ASSUME Base, WorkerInv, NEW v \in Worker, WorkerGet(v)
  PROVE  WorkerInv'
<1>1. /\ wk[v].pc = "get" /\ up' = [up EXCEPT ![v] = Append(up[v], GetTask)]
      /\ wk' = [wk EXCEPT ![v].pc = "await"]
      /\ UNCHANGED <<idle, waitList, sched, tasks, serving, down, gone, dropping>>
  BY DEF WorkerGet, Send, gmVars
<1>2. /\ up'[v] = Append(up[v], GetTask) /\ wk'[v].pc = "await"
      /\ \A w \in Worker \ {v} : wk'[w] = wk[w] /\ up'[w] = up[w] /\ down'[w] = down[w]
  BY <1>1, WorkerConn, WorkerTyped DEF WkRec
<1>3. Unasked(v) /\ Closed(v, Len(up[v]))
  BY <1>1 DEF WorkerInv, WorkerOK
<1>4. Asking(v)'
  <2>1. up'[v] # <<>> /\ up'[v][Len(up'[v])] = GetTask /\ Closed(v, Len(up[v]) - 1)'
    BY <1>1, <1>2, <1>3, WriteLast
  <2>2. Unasked(v)'
    BY <1>1, <1>3, SameListing DEF Unasked
  <2> QED BY <2>1, <2>2 DEF Asking, GetTask
<1>5. WorkerOK(v)'
  BY <1>2, <1>4 DEF WorkerOK
<1> QED BY <1>1, <1>2, <1>5, ThreadOrder

LEMMA WorkerReadOrder ==
  ASSUME Base, WorkerInv, NEW v \in Worker, WorkerRead(v)
  PROVE  WorkerInv'
<1>1. /\ wk[v].pc = "await" /\ down[v] # <<>> /\ down' = [down EXCEPT ![v] = Tail(down[v])]
      /\ UNCHANGED <<idle, waitList, sched, tasks, serving, up, dropping>>
  BY DEF WorkerRead, ReadDown, gmVars
<1>2. Asked(v)
  BY <1>1 DEF WorkerInv, WorkerOK, Asking, Unasked
<1>3. /\ Calm(v) /\ up[v] = <<>> /\ ~Listed(v) /\ ~Chosen(v)
      /\ Len(down[v]) = 1 /\ down[v][1].kind = "process"
  BY <1>1, <1>2 DEF Asked
<1>4. Tail(down[v]) = <<>> /\ Head(down[v]).kind = "process"
  BY <1>3, WorkerConn, TailOfOne
<1>5. wk' = [wk EXCEPT ![v].pc = "alloc", ![v].task = Head(down[v]).task] /\ gone' = gone
  BY <1>4 DEF WorkerRead, Received
<1>6. /\ down'[v] = <<>> /\ wk'[v].pc = "alloc"
      /\ \A w \in Worker \ {v} : wk'[w] = wk[w] /\ up'[w] = up[w] /\ down'[w] = down[w]
  BY <1>1, <1>4, <1>5, WorkerConn, WorkerTyped DEF WkRec
<1>7. Unasked(v)'
  BY <1>1, <1>3, <1>6, SameListing DEF Unasked
<1>8. Calls(v, Len(up[v]))'
  BY <1>1, <1>3 DEF Calls
<1>9. WorkerOK(v)'
  BY <1>6, <1>7, <1>8 DEF WorkerOK
<1> QED BY <1>1, <1>5, <1>6, <1>9, ThreadOrder

\* A worker goes on with its task, and its machine may report.
LEMMA BusyOrder ==
  ASSUME Base, WorkerInv, NEW v \in Worker, wk[v].pc \in {"alloc", "run"},
         wk' \in [Worker -> WkRec], \A w \in Worker \ {v} : wk'[w] = wk[w],
         wk'[v].pc \in {"run", "finish"}, \A w \in Worker : up'[w] = up[w],
         UNCHANGED <<idle, sched, waitList, serving, tasks, down, gone, dropping>>
  PROVE  WorkerInv'
<1>1. Unasked(v) /\ Calls(v, Len(up[v]))
  BY DEF WorkerInv, WorkerOK
<1>2. Unasked(v)'
  BY <1>1, SameListing DEF Unasked
<1>3. Calls(v, Len(up[v]))'
  BY <1>1 DEF Calls, Async
<1>4. WorkerOK(v)'
  BY <1>2, <1>3 DEF WorkerOK
<1> QED BY <1>4, ThreadOrder

LEMMA WorkerAllocOrder ==
  ASSUME Base, WorkerInv, NEW v \in Worker, NEW flows, WorkerAlloc(v, flows)
  PROVE  WorkerInv'
<1>1. /\ wk[v].pc = "alloc"
      /\ UNCHANGED <<idle, sched, waitList, serving, tasks, down, gone, dropping>>
  BY DEF WorkerAlloc, gmVars
<1>2. \/ wk' = [wk EXCEPT ![v].pc = "run"]
      \/ wk' = [wk EXCEPT ![v].pc = "finish", ![v].res = "exhausted"]
  BY DEF WorkerAlloc
<1>3. /\ wk' \in [Worker -> WkRec] /\ \A w \in Worker \ {v} : wk'[w] = wk[w]
      /\ wk'[v].pc \in {"run", "finish"}
  BY <1>2, WorkerTyped DEF WkRec, Results
<1>4. \A w \in Worker : up'[w] = up[w]
  <2> SUFFICES ASSUME NEW w \in Worker
               PROVE  up'[w] = up[w]
    OBVIOUS
  <2>1. NodeOf[v] \in Node
    BY NodeOfAssumption
  <2> QED BY <2>1, WorkerConn DEF WorkerAlloc
<1> QED BY <1>1, <1>3, <1>4, BusyOrder

LEMMA WorkerRunOrder ==
  ASSUME Base, WorkerInv, NEW v \in Worker, WorkerRun(v)
  PROVE  WorkerInv'
<1>1. /\ wk[v].pc = "run"
      /\ UNCHANGED <<idle, sched, waitList, serving, tasks, down, gone, dropping>>
  BY DEF WorkerRun, gmVars
<1>2. PICK x \in {"ok", "failed"} : wk' = [wk EXCEPT ![v].pc = "finish", ![v].res = x]
  BY DEF WorkerRun
<1>3. /\ wk' \in [Worker -> WkRec] /\ \A w \in Worker \ {v} : wk'[w] = wk[w]
      /\ wk'[v].pc \in {"run", "finish"}
  BY <1>2, WorkerTyped DEF WkRec, Results
<1>4. \A w \in Worker : up'[w] = up[w]
  <2> SUFFICES ASSUME NEW w \in Worker
               PROVE  up'[w] = up[w]
    OBVIOUS
  <2>1. NodeOf[v] \in Node
    BY NodeOfAssumption
  <2> QED BY <2>1, WorkerConn DEF WorkerRun, Send
<1> QED BY <1>1, <1>3, <1>4, BusyOrder

LEMMA WorkerInvokeOrder ==
  ASSUME Base, WorkerInv, NEW v \in Worker, NEW f \in Function, NEW sync \in BOOLEAN,
         WorkerInvoke(v, f, sync)
  PROVE  WorkerInv'
<1>1. PICK t : t = Len(tasks) + 1
  OBVIOUS
<1>2. PICK r \in TaskRec : r = [fn |-> f, sync |-> sync, from |-> v]
  BY DEF TaskRec
<1>3. PICK m : m = Invoke(t)
  OBVIOUS
<1>4. /\ wk[v].pc = "run" /\ Len(tasks) < MaxTasks /\ tasks' = Append(tasks, r)
      /\ up' = [up EXCEPT ![v] = Append(up[v], m)]
      /\ wk' = [wk EXCEPT ![v].pc = IF sync THEN "call" ELSE "run"]
      /\ UNCHANGED <<idle, waitList, sched, serving, down, gone, dropping>>
  BY <1>1, <1>2, <1>3 DEF WorkerInvoke, Send, gmVars
<1>5. tasks'[t] = r /\ \A u \in Task : tasks'[u] = tasks[u]
  BY <1>1, <1>4, NewTask
<1>6. m.kind = "invoke" /\ m.task = t /\ r.sync = sync
  BY <1>2, <1>3 DEF Invoke
<1>7. /\ up'[v] = Append(up[v], m) /\ wk'[v].pc = IF sync THEN "call" ELSE "run"
      /\ \A w \in Worker \ {v} : wk'[w] = wk[w] /\ up'[w] = up[w] /\ down'[w] = down[w]
  BY <1>4, WorkerConn, WorkerTyped DEF WkRec
<1>8. Unasked(v) /\ Calls(v, Len(up[v]))
  BY <1>4 DEF WorkerInv, WorkerOK
<1>9. Unasked(v)'
  BY <1>4, <1>8, SameListing DEF Unasked
<1>10. /\ up'[v] # <<>> /\ up'[v][Len(up'[v])] = m /\ Calls(v, Len(up[v]) - 1)'
       /\ Async(m)' => Calls(v, Len(up[v]))'
  BY <1>5, <1>7, <1>8, WriteLast
<1>11. WorkerOK(v)'
  <2>1. CASE sync
    <3>1. Calling(v)'
      BY <1>5, <1>6, <1>9, <1>10, <2>1 DEF Calling, Unasked
    <3>2. wk'[v].pc = "call" /\ ~Listed(v)' /\ ~Chosen(v)'
      BY <1>7, <1>9, <2>1 DEF Unasked
    <3> QED BY <3>1, <3>2 DEF WorkerOK
  <2>2. CASE ~sync
    <3>1. Async(m)'
      BY <1>5, <1>6, <2>2 DEF Async
    <3>2. wk'[v].pc = "run"
      BY <1>7, <2>2
    <3> QED BY <1>9, <1>10, <3>1, <3>2 DEF WorkerOK
  <2> QED BY <2>1, <2>2
<1> QED BY <1>4, <1>5, <1>7, <1>11, ThreadOrder

LEMMA WorkerReplyOrder ==
  ASSUME Base, WorkerInv, NEW v \in Worker, WorkerReply(v)
  PROVE  WorkerInv'
<1>1. /\ wk[v].pc = "call" /\ down[v] # <<>> /\ down' = [down EXCEPT ![v] = Tail(down[v])]
      /\ UNCHANGED <<idle, waitList, sched, tasks, serving, up, dropping>>
  BY DEF WorkerReply, ReadDown, gmVars
<1>2. Answered(v) /\ ~Listed(v) /\ ~Chosen(v)
  BY <1>1 DEF WorkerInv, WorkerOK, Calling, Held, Registered
<1>3. PICK p \in {"dead", "run"} :
        /\ wk' = [wk EXCEPT ![v].pc = p]
        /\ gone' = IF p = "dead" THEN gone \cup {v} ELSE gone
  BY DEF WorkerReply
<1>4. Tail(down[v]) = <<>>
  BY <1>2, WorkerConn, TailOfOne DEF Answered
<1>5. /\ down'[v] = <<>> /\ wk'[v].pc = p
      /\ \A w \in Worker \ {v} : wk'[w] = wk[w] /\ up'[w] = up[w] /\ down'[w] = down[w]
  BY <1>1, <1>3, <1>4, WorkerConn, WorkerTyped DEF WkRec
<1>6. Calm(v)' /\ ~Listed(v)' /\ ~Chosen(v)' /\ up'[v] = <<>>
  BY <1>1, <1>2, SameListing DEF Answered
<1>7. Unasked(v)'
  BY <1>5, <1>6 DEF Unasked
<1>8. Calls(v, Len(up[v]))'
  BY <1>6 DEF Calls
<1>9. WorkerOK(v)'
  BY <1>5, <1>6, <1>7, <1>8 DEF WorkerOK
<1> QED BY <1>1, <1>3, <1>5, <1>9, ThreadOrder

LEMMA WorkerFinishOrder ==
  ASSUME Base, WorkerInv, NEW v \in Worker, WorkerFinish(v)
  PROVE  WorkerInv'
<1>1. PICK m : m = Finish(wk[v].task, wk[v].res)
  OBVIOUS
<1>2. /\ wk[v].pc = "finish" /\ up' = [up EXCEPT ![v] = Append(up[v], m)]
      /\ wk' = [wk EXCEPT ![v] = [pc |-> "get", task |-> None, res |-> "none"]]
      /\ UNCHANGED <<idle, waitList, sched, tasks, serving, down, gone, dropping>>
  BY <1>1 DEF WorkerFinish, Send, gmVars
<1>3. m.kind = "finish"
  BY <1>1 DEF Finish
<1>4. /\ up'[v] = Append(up[v], m) /\ wk'[v].pc = "get"
      /\ \A w \in Worker \ {v} : wk'[w] = wk[w] /\ up'[w] = up[w] /\ down'[w] = down[w]
  BY <1>2, WorkerConn
<1>5. Unasked(v) /\ Calls(v, Len(up[v]))
  BY <1>2 DEF WorkerInv, WorkerOK
<1>6. Closed(v, Len(up[v]))'
  BY <1>2, <1>3, <1>4, <1>5, WriteLast
<1>7. Unasked(v)'
  BY <1>2, <1>5, SameListing DEF Unasked
<1>8. WorkerOK(v)'
  BY <1>4, <1>6, <1>7 DEF WorkerOK
<1> QED BY <1>2, <1>4, <1>8, ThreadOrder

-----------------------------------------------------------------------------
(* All steps together. *)

\* A request that is not a worker's: a ping, a gateway's invocation, a report.
LEMMA ServeOrder ==
  ASSUME Base, WorkerInv, AsyncFits, NEW d \in Conn, Serve(d)
  PROVE  WorkerInv'
<1>1. /\ DOMAIN down = Conn /\ DOMAIN serving = Conn /\ DOMAIN up = Conn
      /\ (d \in Client \/ d \in Node => d \notin Worker)
  BY ConnAssumption DEF Base, Typed, UpTyped, DownTyped, WaitersOK
<1>2. CASE ServePing(d)
  <2>1. PICK m : m = Head(up[d])
    OBVIOUS
  <2>2. /\ Requested(d, "ping") /\ ReadUp(d) /\ down' = Delivered(d, Pong)
        /\ UNCHANGED <<idle, waitList, sched, tasks, serving, wk, gone, dropping>>
    BY <1>2 DEF ServePing, nodeVars, gmVars
  <2>3. m \in UpMsg(d) /\ m.kind = "ping"
    BY <2>1, <2>2, Request
  <2>4. d \notin Worker
    BY <1>1, <2>3, UpKinds
  <2>5. \A c \in Conn \ {d} : down'[c] = down[c]
    BY <1>1, <2>2 DEF Delivered
  <2> QED BY <2>2, <2>4, <2>5, ElsewhereServed DEF ReadUp
<1>3. CASE ServeInvoke(d)
  <2>1. PICK m, t : m = Head(up[d]) /\ t = Head(up[d]).task
    OBVIOUS
  <2>2. /\ Requested(d, "invoke") /\ ReadUp(d)
        /\ \/ serving' = [serving EXCEPT ![d] = IF tasks[t].sync THEN t ELSE None] /\ down' = down
           \/ serving' = serving /\ down' = Delivered(d, Return(t, "full"))
        /\ UNCHANGED <<idle, waitList, sched, tasks, wk, gone, dropping>>
    BY <1>3, <2>1 DEF ServeInvoke, nodeVars, gmVars
  <2>3. CASE d \in Worker
    BY <1>3, <2>3, ServeInvokeOrder
  <2>4. CASE d \notin Worker
    <3>1. \A c \in Conn \ {d} : down'[c] = down[c] /\ serving'[c] = serving[c]
      BY <1>1, <2>2 DEF Delivered
    <3> QED BY <2>2, <2>4, <3>1, ElsewhereServed DEF ReadUp
  <2> QED BY <2>3, <2>4
<1>4. CASE d \in Node /\ ServeUpdate(d)
  <2>1. /\ ReadUp(d) /\ sched' = Notified
        /\ UNCHANGED <<idle, waitList, tasks, serving, down, wk, gone, dropping>>
    BY <1>4 DEF ServeUpdate, Update, nodeVars
  <2> QED BY <1>1, <1>4, <2>1, ElsewhereServed DEF ReadUp
<1>5. ~(d \in Node /\ ServeDrop(d))
  BY DEF ServeDrop, WorkerInv, NoneLeaves
<1> QED BY <1>2, <1>3, <1>4, <1>5, ServeRegisterOrder, ServeGetKeeps, ServeFinishOrder DEF Serve

LEMMA NextKeepsWorkers ==
  ASSUME Faulty = {}
  PROVE  Base /\ WorkerInv /\ AsyncFits /\ [Next]_vars => WorkerInv'
<1> SUFFICES ASSUME Base, WorkerInv, AsyncFits, [Next]_vars
             PROVE  WorkerInv'
  OBVIOUS
<1>1. CASE UNCHANGED vars
  <2>1. UNCHANGED <<idle, sched, waitList, serving, tasks, up, down, wk, gone, dropping>>
    BY <1>1 DEF vars
  <2>2. None \in Worker => WorkerOK(None)'
    BY NoneAssumption
  <2>3. \A w \in Worker : WorkerOK(w)'
    BY <2>1, <2>2, OthersUntouched, SameListing
  <2> QED BY <2>1, <2>3, SameListing DEF WorkerInv
<1>2. ASSUME NEW d \in Conn, Serve(d)
      PROVE  WorkerInv'
  BY <1>2, ServeOrder
<1>3. CASE Schedule \/ SchedSpuriousWake
  BY <1>3, SchedFindOrder, SchedWriteOrder, SchedWaitOrder DEF Schedule
<1>4. ASSUME NEW c \in Client,
             ClientPing(c) \/ (\E f \in Function : ClientInvoke(c, f)) \/ ClientReturn(c)
      PROVE  WorkerInv'
  BY <1>4, ClientsLeaveWorkers
<1>5. ASSUME NEW w \in Worker, WorkerStep(w)
      PROVE  WorkerInv'
  BY <1>5, WorkerGetOrder, WorkerReadOrder, WorkerAllocOrder, WorkerRunOrder, WorkerReplyOrder,
     WorkerFinishOrder DEF WorkerStep
<1>6. ASSUME NEW w \in Worker, NEW f \in Function, NEW sync \in Nested, WorkerInvoke(w, f, sync)
      PROVE  WorkerInv'
  BY <1>6, ChoiceAssumption, WorkerInvokeOrder
<1> QED BY <1>1, <1>2, <1>3, <1>4, <1>5, <1>6 DEF Next

LEMMA InitWorkers == Init => WorkerInv
<1> SUFFICES ASSUME Init
             PROVE  WorkerInv
  OBVIOUS
<1>1. DOMAIN idle = {} /\ DOMAIN waitList = {} /\ sched.pc = "recv" /\ gone = {}
  BY DEF Init, GMInit, EmptyMap
<1>2. ASSUME NEW w \in Worker
      PROVE  WorkerOK(w)
  <2>1. /\ w \in Conn /\ wk[w].pc = "get" /\ serving[w] = None /\ up[w] = <<>> /\ down[w] = <<>>
    BY DEF Init, Conn
  <2>2. Unasked(w)
    BY <1>1, <2>1 DEF Unasked, Calm, Waits, Listed, Chosen
  <2>3. Closed(w, Len(up[w]))
    BY <2>1 DEF Closed
  <2> QED BY <2>1, <2>2, <2>3 DEF WorkerOK
<1>3. NoneLeaves
  BY DEF Init, NoneLeaves
<1> QED BY <1>1, <1>2, <1>3 DEF WorkerInv, ListedOnce, GoneDead

LEMMA WorkersIdle == Base /\ WorkerInv => ListedIsIdle /\ DispatchedToIdle
<1> SUFFICES ASSUME Base, WorkerInv
             PROVE  ListedIsIdle /\ DispatchedToIdle
  OBVIOUS
<1>1. ASSUME NEW n \in DOMAIN idle, NEW i \in DOMAIN idle[n]
      PROVE  /\ wk[idle[n][i]].pc = "await"
             /\ \A j \in DOMAIN idle[n] : idle[n][i] = idle[n][j] => i = j
  <2>1. idle[n] \in Seq(Worker)
    BY DEF Base, Typed, GMInv, GMTypeOK
  <2>2. DOMAIN idle[n] = 1..Len(idle[n]) /\ idle[n][i] \in Worker
    BY <2>1
  <2>3. Listed(idle[n][i])
    BY <2>2 DEF Listed
  <2> QED BY <2>2, <2>3, ListedWaits DEF WorkerInv, ListedOnce
<1>2. ASSUME sched.pc = "write"
      PROVE  wk[sched.worker].pc = "await"
  <2>1. sched.worker \in Worker /\ Chosen(sched.worker)
    BY <1>2 DEF Base, Typed, SchedOK, Chosen
  <2> QED BY <2>1, ListedWaits
<1> QED BY <1>1, <1>2 DEF ListedIsIdle, DispatchedToIdle

\* As long as no asynchronous call of a function meets a full queue, and the
\* machines stay up, a worker in an idle vector is blocked in rpc::get and is
\* listed once, and the worker that the scheduling thread writes a task to is
\* not processing another one.  So the answer "full" to an asynchronous call,
\* which nobody reads, is the only way for the two to lose each other.
THEOREM FullAnswersAloneConfuse ==
  ASSUME Faulty = {}
  PROVE  Spec /\ []AsyncFits => [](ListedIsIdle /\ DispatchedToIdle)
BY InitWorkers, NextKeepsWorkers, WorkersIdle, CustodyHolds, PTL DEF Spec

\* When functions make synchronous calls only, every invocation is synchronous.
AllSync == \A t \in Task : tasks[t].sync

LEMMA NextKeepsSync ==
  ASSUME FALSE \notin Nested
  PROVE  Base /\ AllSync /\ [Next]_vars => AllSync'
<1> SUFFICES ASSUME Base, AllSync, [Next]_vars
             PROVE  AllSync'
  OBVIOUS
<1>1. CASE UNCHANGED tasks
  BY <1>1 DEF AllSync, Task
<1>2. ASSUME NEW r \in TaskRec, r.sync, tasks' = Append(tasks, r), Len(tasks) < MaxTasks
      PROVE  AllSync'
  <2>1. PICK t : t = Len(tasks) + 1
    OBVIOUS
  <2>2. tasks'[t] = r /\ \A u \in Task : tasks'[u] = tasks[u]
    BY <1>2, <2>1, NewTask
  <2>3. \A u \in Task' : u = t \/ u \in Task
    <3>1. tasks \in Seq(TaskRec)
      BY DEF Base, Typed, TasksOK
    <3>2. Len(tasks) \in Nat /\ Len(tasks') = Len(tasks) + 1
      BY <1>2, <3>1
    <3>3. PICK k \in Nat : k = Len(tasks)
      BY <3>2
    <3>4. \A u \in 1..(k + 1) : u = k + 1 \/ u \in 1..k
      OBVIOUS
    <3> QED BY <2>1, <3>2, <3>3, <3>4 DEF Task
  <2> QED BY <1>2, <2>2, <2>3 DEF AllSync
<1>3. ASSUME NEW c \in Client, NEW f \in Function, ClientInvoke(c, f)
      PROVE  AllSync'
  <2>1. PICK r : r = [fn |-> f, sync |-> TRUE, from |-> c]
    OBVIOUS
  <2>2. r \in TaskRec /\ r.sync
    BY <2>1 DEF TaskRec
  <2>3. tasks' = Append(tasks, r) /\ Len(tasks) < MaxTasks
    BY <1>3, <2>1 DEF ClientInvoke
  <2> QED BY <1>2, <2>2, <2>3
<1>4. ASSUME NEW w \in Worker, NEW f \in Function, NEW sync \in Nested, WorkerInvoke(w, f, sync)
      PROVE  AllSync'
  <2>1. sync = TRUE
    BY ChoiceAssumption
  <2>2. PICK r : r = [fn |-> f, sync |-> TRUE, from |-> w]
    OBVIOUS
  <2>3. r \in TaskRec /\ r.sync
    BY <2>2 DEF TaskRec
  <2>4. tasks' = Append(tasks, r) /\ Len(tasks) < MaxTasks
    BY <1>4, <2>1, <2>2 DEF WorkerInvoke
  <2> QED BY <1>2, <2>3, <2>4
<1>5. ASSUME NEW c \in Conn, Serve(c)
      PROVE  UNCHANGED tasks
  BY <1>5 DEF Serve, ServePing, ServeInvoke, ServeRegister, ServeGet, ServeFinish, ServeUpdate, ServeDrop
<1>6. Schedule \/ SchedSpuriousWake => UNCHANGED tasks
  BY DEF Schedule, SchedRecv, SchedFind, SchedWrite, SchedSpuriousWake
<1>7. ASSUME NEW w \in Worker, WorkerStep(w)
      PROVE  UNCHANGED tasks
  BY <1>7 DEF WorkerStep, WorkerGet, WorkerRead, WorkerAlloc, WorkerRun, WorkerReply, WorkerFinish
<1>8. ASSUME NEW c \in Client, ClientPing(c) \/ ClientReturn(c)
      PROVE  UNCHANGED tasks
  BY <1>8 DEF ClientPing, ClientReturn
<1>9. ASSUME NEW n \in Faulty, CtrlC(n) \/ Crash(n)
      PROVE  UNCHANGED tasks
  BY <1>9 DEF CtrlC, Crash
<1>10. UNCHANGED vars => UNCHANGED tasks
  BY DEF vars
<1> QED BY <1>1, <1>3, <1>4, <1>5, <1>6, <1>7, <1>8, <1>9, <1>10 DEF Next

\* A call that has not been read was made by an execution that goes on, or whose
\* end was sent after it.
Followed(s) == \A i \in 1..Len(s) : s[i].kind = "invoke" =>
                 \E j \in 1..Len(s) : i < j /\ s[j].kind = "finish"
Called(w)   == wk[w].pc \in {"alloc", "run", "call", "finish"} \/ Followed(up[w])
CallsInv    == \A w \in Worker : Called(w)

LEMMA FollowedTail ==
  ASSUME NEW S, NEW s \in Seq(S), s # <<>>, Followed(s)
  PROVE  Followed(Tail(s))
<1> DEFINE q == Tail(s)
<1>1. /\ Len(s) \in Nat /\ Len(q) = Len(s) - 1
      /\ \A i \in 1..Len(q) : q[i] = s[i + 1] /\ i + 1 \in 1..Len(s)
      /\ \A i \in 2..Len(s) : s[i] = q[i - 1] /\ i - 1 \in 1..Len(q)
  OBVIOUS
<1> HIDE DEF q
<1>2. ASSUME NEW i \in 1..Len(q), q[i].kind = "invoke"
      PROVE  \E j \in 1..Len(q) : i < j /\ q[j].kind = "finish"
  <2>1. i + 1 \in 1..Len(s) /\ s[i + 1].kind = "invoke"
    BY <1>1, <1>2
  <2>2. PICK j \in 1..Len(s) : i + 1 < j /\ s[j].kind = "finish"
    BY <2>1 DEF Followed
  <2>3. j \in 2..Len(s) /\ i < j - 1
    BY <1>1, <2>2
  <2> QED BY <1>1, <2>2, <2>3
<1> QED BY <1>2 DEF Followed, q

LEMMA FollowedAppend ==
  ASSUME NEW S, NEW s \in Seq(S), NEW m, m.kind # "invoke", Followed(s) \/ m.kind = "finish"
  PROVE  Followed(Append(s, m))
<1> DEFINE q == Append(s, m)
<1>1. /\ Len(s) \in Nat /\ Len(q) = Len(s) + 1 /\ q[Len(s) + 1] = m
      /\ \A i \in 1..Len(s) : q[i] = s[i]
  OBVIOUS
<1> HIDE DEF q
<1>2. ASSUME NEW i \in 1..Len(q), q[i].kind = "invoke"
      PROVE  \E j \in 1..Len(q) : i < j /\ q[j].kind = "finish"
  <2>1. i # Len(s) + 1
    BY <1>1, <1>2
  <2>2. i \in 1..Len(s) /\ i < Len(s) + 1 /\ s[i].kind = "invoke" /\ Len(s) + 1 \in 1..Len(q)
    BY <1>1, <1>2, <2>1
  <2>3. CASE m.kind = "finish"
    BY <1>1, <2>2, <2>3
  <2>4. CASE Followed(s)
    <3>1. PICK j \in 1..Len(s) : i < j /\ s[j].kind = "finish"
      BY <2>2, <2>4 DEF Followed
    <3>2. j \in 1..Len(q) /\ q[j].kind = "finish"
      BY <1>1, <3>1
    <3> QED BY <3>1, <3>2
  <2> QED BY <2>3, <2>4
<1> QED BY <1>2 DEF Followed, q

LEMMA NextKeepsCalls ==
  ASSUME Faulty = {}
  PROVE  Base /\ WorkerInv /\ CallsInv /\ [Next]_vars => CallsInv'
<1> SUFFICES ASSUME Base, WorkerInv, CallsInv, [Next]_vars, NEW w \in Worker
             PROVE  Called(w)'
  BY DEF CallsInv
<1>1. /\ Called(w) /\ up[w] \in Seq(UpMsg(w)) /\ w \in DOMAIN up /\ w \in DOMAIN wk
      /\ w \notin Client /\ w \notin Node
  BY WorkerConn DEF CallsInv
<1>2. ASSUME wk'[w] = wk[w], up'[w] = up[w] \/ (up[w] # <<>> /\ up'[w] = Tail(up[w]))
      PROVE  Called(w)'
  BY <1>1, <1>2, FollowedTail DEF Called
<1>3. CASE UNCHANGED vars
  BY <1>2, <1>3 DEF vars
<1>4. ASSUME NEW d \in Conn, Serve(d)
      PROVE  Called(w)'
  <2>1. /\ wk' = wk
        /\ up' = up \/ (up[d] # <<>> /\ up' = [up EXCEPT ![d] = Tail(up[d])])
    BY <1>4 DEF Serve, ServePing, ServeInvoke, ServeRegister, ServeGet, ServeFinish, ServeUpdate,
                ServeDrop, Requested, ReadUp, nodeVars
  <2> QED BY <1>1, <1>2, <2>1
<1>5. CASE Schedule \/ SchedSpuriousWake
  BY <1>2, <1>5 DEF Schedule, SchedRecv, SchedFind, SchedWrite, SchedSpuriousWake, nodeVars
<1>6. ASSUME NEW c \in Client,
             ClientPing(c) \/ (\E f \in Function : ClientInvoke(c, f)) \/ ClientReturn(c)
      PROVE  Called(w)'
  <2>1. wk' = wk /\ up'[w] = up[w]
    BY <1>1, <1>6 DEF ClientPing, ClientInvoke, ClientReturn, Send
  <2> QED BY <1>2, <2>1
<1>7. ASSUME NEW v \in Worker,
             WorkerStep(v) \/ (\E f \in Function, sync \in Nested : WorkerInvoke(v, f, sync))
      PROVE  Called(w)'
  <2>1. NodeOf[v] \in Node
    BY NodeOfAssumption
  <2>2. CASE w # v
    <3>1. wk'[w] = wk[w]
      BY <1>1, <1>7, <2>2 DEF WorkerStep, WorkerGet, WorkerRead, WorkerAlloc, WorkerRun, WorkerReply,
                              WorkerFinish, WorkerInvoke
    <3>2. up'[w] = up[w]
      BY <1>1, <1>7, <2>1, <2>2 DEF WorkerStep, WorkerGet, WorkerRead, WorkerAlloc, WorkerRun,
                                    WorkerReply, WorkerFinish, WorkerInvoke, Send
    <3> QED BY <1>2, <3>1, <3>2
  <2>3. CASE w = v
    <3>1. CASE WorkerGet(w)
      <4>1. wk[w].pc = "get" /\ up'[w] = Append(up[w], GetTask) /\ GetTask.kind = "get"
        BY <1>1, <3>1 DEF WorkerGet, Send, GetTask
      <4> QED BY <1>1, <4>1, FollowedAppend DEF Called
    <3>2. CASE WorkerRead(w)
      BY <1>1, <3>2 DEF WorkerRead, Called
    <3>3. ASSUME wk' \in [Worker -> WkRec], wk'[w].pc \in {"alloc", "run", "call", "finish"}
          PROVE  Called(w)'
      BY <3>3 DEF Called
    <3>4. ASSUME NEW flows \in Flows, WorkerAlloc(w, flows)
          PROVE  Called(w)'
      <4>1. \/ wk' = [wk EXCEPT ![w].pc = "run"]
            \/ wk' = [wk EXCEPT ![w].pc = "finish", ![w].res = "exhausted"]
        BY <3>4 DEF WorkerAlloc
      <4> QED BY <3>3, <4>1, WorkerTyped DEF WkRec, Results
    <3>5. CASE WorkerRun(w)
      <4>1. PICK x \in {"ok", "failed"} : wk' = [wk EXCEPT ![w].pc = "finish", ![w].res = x]
        BY <3>5 DEF WorkerRun
      <4> QED BY <3>3, <4>1, WorkerTyped DEF WkRec, Results
    <3>6. CASE WorkerReply(w)
      <4>1. wk[w].pc = "call" /\ down[w] # <<>> /\ up' = up
        BY <3>6 DEF WorkerReply
      <4>2. up[w] = <<>>
        BY <4>1 DEF WorkerInv, WorkerOK, Calling, Held, Registered, Answered
      <4> QED BY <4>1, <4>2 DEF Called, Followed
    <3>7. CASE WorkerFinish(w)
      <4>1. PICK m : m = Finish(wk[w].task, wk[w].res)
        OBVIOUS
      <4>2. m.kind = "finish" /\ up'[w] = Append(up[w], m)
        BY <1>1, <3>7, <4>1 DEF WorkerFinish, Send, Finish
      <4> QED BY <1>1, <4>2, FollowedAppend DEF Called
    <3>8. ASSUME NEW f \in Function, NEW sync \in Nested, WorkerInvoke(w, f, sync)
          PROVE  Called(w)'
      <4>1. wk' = [wk EXCEPT ![w].pc = IF sync THEN "call" ELSE "run"]
        BY <3>8 DEF WorkerInvoke
      <4> QED BY <3>3, <4>1, WorkerTyped DEF WkRec, Results
    <3> QED BY <1>7, <2>3, <3>1, <3>2, <3>4, <3>5, <3>6, <3>7, <3>8 DEF WorkerStep
  <2> QED BY <2>2, <2>3
<1> QED BY <1>3, <1>4, <1>5, <1>6, <1>7 DEF Next

\* A worker's next request, if it is a call, names an invocation that was made
\* and is not in the queue.
LEMMA NextCall ==
  ASSUME Base, NEW w \in Worker, Requested(w, "invoke"), NEW t, t = Head(up[w]).task
  PROVE  t \in Task /\ t \in Nat /\ t \notin Queued /\ In(t, "request", w)
<1>1. PICK m : m = Head(up[w])
  OBVIOUS
<1>2. up[w] # <<>> /\ m.kind = "invoke" /\ w \in Conn /\ up[w] \in Seq(UpMsg(w)) /\ Once(up[w], "invoke")
  BY <1>1, WorkerConn DEF Requested, Base, Custody, UpOnce
<1>3. m \in UpMsg(w)
  BY <1>1, <1>2
<1>4. m.task \in Requests(w)
  BY <1>1, <1>2, TailCarried DEF Requests
<1>5. t \in Nat /\ In(t, "request", w)
  BY <1>1, <1>2, <1>3, <1>4, UpKinds DEF In
<1>6. t \in Queued => In(t, "queue", None)
  BY DEF In
<1> QED BY <1>2, <1>5, <1>6 DEF Kinds, Base, Custody, OnePlace, MadeOnly

\* The execution that made it is of another task, which is not in the queue either.
LEMMA NextCaller ==
  ASSUME Base, NEW w \in Worker, Called(w), Requested(w, "invoke"), NEW t, t = Head(up[w]).task
  PROVE  \E u \in Task \ {t} : u \notin Queued
<1>1. In(t, "request", w) /\ t \in Nat /\ w \in Conn
  BY NextCall, WorkerConn
<1>2. ASSUME NEW u \in Nat, NEW k \in {"worker", "finish"}, In(u, k, w)
      PROVE  \E x \in Task \ {t} : x \notin Queued
  <2>1. u \in Queued => In(u, "queue", None)
    BY DEF In
  <2> QED BY <1>1, <1>2, <2>1 DEF Kinds, Base, Custody, OnePlace, MadeOnly
<1>3. CASE wk[w].pc \in {"alloc", "run", "call", "finish"}
  <2>1. wk[w].task \in Nat /\ wk[w].task \in Working(w)
    BY <1>3 DEF Base, Typed, ThreadsOK, WkRec, Working
  <2>2. In(wk[w].task, "worker", w)
    BY <2>1 DEF In
  <2> QED BY <1>2, <2>1, <2>2
<1>4. CASE Followed(up[w])
  <2>1. up[w] \in Seq(UpMsg(w)) /\ up[w] # <<>> /\ Head(up[w]).kind = "invoke"
    BY WorkerConn DEF Requested
  <2>2. 1 \in 1..Len(up[w]) /\ up[w][1].kind = "invoke"
    BY <2>1
  <2>3. PICK j \in 1..Len(up[w]) : up[w][j].kind = "finish"
    BY <1>4, <2>2 DEF Followed
  <2>4. PICK m : m = up[w][j]
    OBVIOUS
  <2>5. m \in UpMsg(w) /\ m.kind = "finish"
    BY <2>1, <2>3, <2>4
  <2>6. m.task \in Nat
    BY <1>1, <2>5, UpKinds
  <2>7. m.task \in Finishing(w)
    BY <2>3, <2>4, CarriedBy DEF Finishing
  <2>8. In(m.task, "finish", w)
    BY <1>1, <2>7 DEF In
  <2> QED BY <1>2, <2>6, <2>8
<1> QED BY <1>3, <1>4 DEF Called

LEMMA UpTo ==
  ASSUME NEW k \in Nat
  PROVE  IsFiniteSet(1..k) /\ Cardinality(1..k) = k
<1>1. 1 \in Int /\ k \in Int
  OBVIOUS
<1>2. IsFiniteSet(1..k) /\ Cardinality(1..k) = IF 1 > k THEN 0 ELSE k - 1 + 1
  BY <1>1, FS_Interval
<1> QED BY <1>2

\* A queue with room for every invocation but one has room if two are elsewhere.
LEMMA RoomForAll ==
  ASSUME Base, MaxTasks <= QueueCap + 1, NEW t \in Task, t \notin Queued,
         NEW u \in Task \ {t}, u \notin Queued
  PROVE  Len(queue) < QueueCap
<1>1. /\ queue \in Seq(Nat) /\ Len(queue) \in Nat /\ Len(tasks) \in Nat /\ Len(tasks) <= MaxTasks
      /\ MaxTasks \in Nat /\ QueueCap \in Nat
  BY BoundAssumption DEF Base, Typed, QueueOK, TasksOK
<1> DEFINE others == (Task \ {t}) \ {u}
<1>2. \A i \in 1..Len(queue) : queue[i] \in others
  <2> SUFFICES ASSUME NEW i \in 1..Len(queue)
               PROVE  queue[i] \in others
    OBVIOUS
  <2>1. queue[i] \in Nat /\ queue[i] \in Queued
    BY <1>1 DEF Queued
  <2>2. In(queue[i], "queue", None)
    BY <2>1 DEF In
  <2> QED BY <2>1, <2>2 DEF Kinds, Base, Custody, MadeOnly
<1>3. IsFiniteSet(Task) /\ Cardinality(Task) = Len(tasks)
  BY <1>1, UpTo DEF Task
<1>4. IsFiniteSet(Task \ {t}) /\ Cardinality(Task \ {t}) = Len(tasks) - 1
  BY <1>3, FS_RemoveElement
<1>5. IsFiniteSet(others) /\ Cardinality(others) = Len(tasks) - 1 - 1
  BY <1>4, FS_RemoveElement
<1> HIDE DEF others
<1>6. queue \in Injection(1..Len(queue), others)
  <2>1. DOMAIN queue = 1..Len(queue) /\ queue = [i \in 1..Len(queue) |-> queue[i]]
    BY <1>1
  <2>2. queue \in [1..Len(queue) -> others]
    BY <1>2, <2>1
  <2> QED BY <2>1, <2>2 DEF Injection, IsInjective, Base, Custody, QueueOnce
<1>7. Cardinality(1..Len(queue)) <= Len(tasks) - 1 - 1
  BY <1>5, <1>6, FS_Injection
<1>8. Cardinality(1..Len(queue)) = Len(queue)
  BY <1>1, UpTo
<1> QED BY <1>1, <1>7, <1>8

\* Without faults, if functions make synchronous calls only, or if the queue has
\* room for every invocation but one (--qcap is large enough), a listed worker is
\* idle, listed once, and tasks are only dispatched to idle workers.
THEOREM ListedAreIdle ==
  ASSUME Faulty = {}, FALSE \notin Nested \/ MaxTasks <= QueueCap + 1
  PROVE  Spec => [](ListedIsIdle /\ DispatchedToIdle)
<1>1. CASE FALSE \notin Nested
  <2>1. Init => AllSync
    BY DEF Init, AllSync, Task
  <2>2. Base /\ AllSync => AsyncFits
    BY NextCall DEF AsyncFits, AllSync
  <2>3. Base /\ AllSync /\ [Next]_vars => AllSync'
    BY <1>1, NextKeepsSync
  <2> QED BY <2>1, <2>2, <2>3, CustodyHolds, FullAnswersAloneConfuse, PTL DEF Spec
<1>2. CASE MaxTasks <= QueueCap + 1
  <2>1. Init => CallsInv
    BY DEF Init, CallsInv, Called, Followed, Conn
  <2>2. Base /\ CallsInv => AsyncFits
    <3> SUFFICES ASSUME Base, CallsInv, NEW w \in Worker, Requested(w, "invoke")
                 PROVE  Len(queue) < QueueCap
      BY DEF AsyncFits
    <3>1. PICK t : t = Head(up[w]).task
      OBVIOUS
    <3>2. t \in Task /\ t \notin Queued
      BY <3>1, NextCall
    <3>3. PICK u \in Task \ {t} : u \notin Queued
      BY <3>1, NextCaller DEF CallsInv
    <3> QED BY <1>2, <3>2, <3>3, RoomForAll
  <2>3. Base /\ WorkerInv /\ CallsInv /\ [Next]_vars => WorkerInv' /\ CallsInv'
    BY <2>2, NextKeepsWorkers, NextKeepsCalls
  <2> QED BY <2>1, <2>3, InitWorkers, WorkersIdle, CustodyHolds, PTL DEF Spec
<1> QED BY <1>1, <1>2

=============================================================================
