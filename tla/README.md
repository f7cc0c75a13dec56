# Faasten: TLA+ models, model checking and proofs

Faasten runs serverless functions in Firecracker VMs under information flow
control.  A *scheduler* process distributes invocations to *worker threads* of
`multivm` processes, one process per machine.  A worker thread runs a function in
a VM and serves its system calls against a labeled file system kept in a shared
key-value store.  A *gateway* (webfront) turns HTTP requests into invocations.

This directory holds TLA+ modules translated from that code, TLC configurations
that check them on small instances, and TLAPS proofs of the theorems that hold
for every instance.  `PROJECT.json` maps every definition to the lines it models
and lists runs, hazards, findings, theorems, and for each property a mutation of
the code that it detects.

Contents: 1 inventory; 2 modules; 3 runs and bounds; 4 fairness; 5 proofs;
6 findings; 7 what the models leave out; 8 plan.

## 1. Inventory

Paths are under `src/snapfaas/src/` unless they say otherwise.

| Component | State | Operations |
|---|---|---|
| Scheduler resource manager, `sched/resource_manager.rs` | `info` (node -> dirty flag), `cached` (function -> node -> number of VMs), `idle` (node -> vector of connections), `wait_list` (uuid -> connection) | `add_idle`, `find_idle`, `update`, `remove`, `remove_all` |
| Scheduler RPC server, `sched/rpc_server.rs`; scheduling thread, `sched/mod.rs` | bounded request queue, a condition variable, one handler thread per connection | Ping, GetTask, FinishTask, LabeledInvoke, UpdateResource, DropResource; `schedule` |
| Local resource manager, `resource_manager.rs` | VM cache, free memory, connection to the scheduler | `get_cached_vm`, `new_vm`, `release`, `delete`, eviction, `update_scheduler` |
| Worker threads, `worker.rs`, `vm.rs`, `bins/multivm` | task, VM, retry counter, thread-local label and privilege | `wait_and_process`, `try_allocate`, `launch`, Ctrl-C |
| Labeled directories, `fs/mod.rs`, `fs/lmdb.rs` | entries of a directory object | `link`, `unlink` as compare-and-swap loops |
| Faceted directories, `fs/mod.rs` | list of (facet, directory) pairs | `open`, `list` |
| Reference monitor, `syscall_server.rs`, `fs/mod.rs`, `fs/utils.rs` | objects and labels, current label and privilege of a thread, descriptors | the `dent_*` calls, `taint_with_label`, invocation of gates and services, response |
| Gateway, `src/frontends/webfront/src/init.rs` | label and privilege of the request's thread | path traversal, gate resolution, check of the answer's label |
| `labeled` crate | none | `lub`, `can_flow_to`, `can_flow_to_with_privilege`, `downgrade`, `implies` |
| Login and registration, `src/frontends/webfront/src/app.rs`, `fs/bootstrap.rs` | signed tokens, the fsutil gate in each principal's home, label and privilege of the thread | CAS login, `delegate`, `register_user_fsutil`, `faasten_invoke` |
| Blob store, `blobstore/mod.rs`; `blob_*` calls, `syscall_server.rs` | files named by their digest, temporary files, two descriptor tables per processor | `create`, `write`, `save`, `open`; `blob_create`, `blob_write`, `blob_finalize`, `blob_close`; uploads and images |
| Admin tools, `bins/admin_fstools`, `fs/bootstrap.rs`, `fs/utils.rs` | objects and names; each tool is a process | Bootstrap, UpdatePython, Delete, CreateBlob, Mkdir, GenKeypair over `create_or_update_*` |
| Garbage collector, firerunner, singlevm, clients, conversions and metrics | | not modelled, section 7 |

How they interact.  Gateways and workers keep one TCP connection each to the
scheduler and write requests to it; each machine has one more, for the reports of
its resource manager.  A worker's connection carries *everything* that worker
says and hears: GetTask and the task that answers it, FinishTask, the invocations
its function makes and their answers.  Scheduler handlers and the scheduling
thread share the manager's mutex; the condition variable is notified by GetTask
and UpdateResource only.  Worker threads of a machine share the local manager's
mutex.  All workers and gateways share the key-value store, whose `get`, `set`,
`add` and `cas` are atomic and nothing larger is.  They also share the directory of
saved blobs: the file system and the invocations hold only names of blobs, which a
worker opens later.  An administrator's tools work on the same store, each in a
process of its own.  The gateway's request threads keep label and privilege in
thread-locals, as workers do, and a thread serves many requests.

What is hard, and the properties that make each part correct:

* *Scheduler*: handlers interleave with the scheduling thread between two locks;
  a machine dies with tasks in flight; a write may fail or silently lose its task;
  the queue fills up; a notification may be missed.  Correct when a task is never
  in two hands, an answer reaches the client that waits for it and no other, idle
  workers and queued tasks meet, and the maps stay consistent with each other.
* *Machine*: several threads allocate, evict and give back memory; launches and
  executions fail and are retried.  Correct when no memory is lost or counted
  twice, the scheduler's view is current, eviction and retries end.
* *File system*: compare-and-swap loops race.  Correct when link and unlink are
  atomic with their label checks, and a facet has one directory.
* *Monitor*: long sequences of calls by several functions move data from object
  to object.  Correct when no secret comes to be under a label that does not
  protect it, no privilege appears from nowhere, and no client receives what it
  is not cleared for.
* *Gateway*: requests of different principals follow each other on a thread, and
  registrations race for a home that does not exist yet.  Correct when no chain of
  delegations reaches more than a user who logged in has, nothing of one request
  is left for the next, and each home holds the gate of its owner.
* *Blob store*: the disk takes part of a write, two processes save the same
  contents, a save or its process stops half way.  Correct when a name stands for
  the contents it is the digest of, every stored name can be opened, and a
  descriptor never changes its meaning.
* *Admin tools*: an update is an unlink and a link with a gap between them, in
  which other tools run and the tool may be killed.  Correct when no name leads to
  an unwritten object, installers do not take a name away from each other, and a
  later tool repairs what a dead one left.

## 2. Modules

| Module | Models | Used by |
|---|---|---|
| `GlobalManager` | the scheduler's maps | `Cluster`, `GlobalManagerProofs` |
| `VmPool` | the VM cache and memory of one machine, as functions of a pool | `LocalManager`, `Cluster` |
| `LocalManager` | the worker threads of one machine around a pool | `MCLocalManager`, `LocalManagerProofs` |
| `Cluster` | scheduler, machines and gateways together | `MCCluster`, `ClusterProofs` |
| `AtomicDirectory` | abstract: a directory whose operations are atomic | `DirectoryOps` |
| `DirectoryOps` | `link` and `unlink` as the code runs them | `AdminTools`, `DirectoryOpsProofs` |
| `AdminTools` | the administrator's programs, composed with `DirectoryOps` | `MCAdminTools`, `AdminToolsProofs` |
| `FacetedOpen` | `open` of a faceted directory as the code runs it | `Gateway`, `GatewayProofs` |
| `Buckle` | labels and privileges | `Monitor`, `Gateway` |
| `Gateway` | login, delegation, registration and resolution, composed with `FacetedOpen` | `MCGateway`, `GatewayProofs` |
| `BlobStore` | the store of blobs, the descriptors of functions, uploads and images | `MCBlobStore`, `BlobStoreProofs` |
| `Monitor` | system calls, gates, services, worker loop, gateway: their effect on labels and data | `MCMonitor`, `MonitorProofs` |

**GlobalManager.**  One action per method.  `find_idle` takes any clean node that
caches the function when there is one (the code takes the first in a hash map's
order), pops its idle vector and may therefore answer None although another node
has idle workers; otherwise it takes a worker of any node and marks that node
dirty.  A node is *dirty* when a task was dispatched to it and it has not reported
since.

**VmPool, LocalManager.**  A pool is a record of the cache (VMs per function) and
the free memory.  `NewVm` is `new_vm` with its eviction loop: its result is "ok",
"exhausted", or "spin", when the loop never ends.  A thread that spins keeps the
manager's lock, which `owner` records.  A worker thread is a record whose `pc`
says where in `wait_and_process` it stands.

**Cluster.**  Every connection is two FIFO streams, `up` and `down`.  A handler
serves one request of its connection at a time.  LabeledInvoke is two actions,
because the code queues the task first and locks the manager to register the
connection later: `ServeInvoke` and `ServeRegister`.  `schedule` is `SchedRecv`,
`SchedFind`, `SchedWrite`, and a wait on the condition variable that `ServeGet`
and `ServeUpdate` end.  A worker reads whatever comes next on its stream:
`WorkerRead` and `WorkerReply` say what each message is taken for, including the
ones that were meant for another read.

**AtomicDirectory, DirectoryOps.**  An operation is invoked, takes effect and
returns.  In `DirectoryOps` it is a get, then turns of a loop: check the closure's
precondition and the label on the copy, compare-and-swap, and on failure go on
with the contents the swap brought.  A thread may die at any point of its
operation.  `Linearizable` says that this implements `AtomicDirectory`, with the
refinement mapping that takes `read` and `prev` away.

**AdminTools.**  Extends `DirectoryOps`: a tool runs a program, a sequence of items,
one per name it deals with.  The five kinds of item are listed in the module;
`create_or_update_file`, `create_or_update_blob` and the part of `prepare_fs` that
installs the gate have one shape and are one kind.  `Unlinked` and `Linked` are the
returns of the two operations, and they ignore what the code ignores.  `alone` does
not exist in the code: it names the tool that nothing has run beside.

**FacetedOpen.**  `open` searches the list, makes a directory, compares-and-swaps
the extended list; a loser searches the list it was given by the failed swap.

**Gateway.**  Extends `FacetedOpen`: the directory opened is the home of the
principal whose privilege the thread has.  A registration is `AuthenticateCas` or
`Delegate`, then `DupFsutil`, the steps of `open`, `LinkFsutil` and `ReplyToken`; an
invocation is `FaastenInvoke`, the steps of `open`, `Submit` and `Answered`.  `cur`
and `priv` are the thread-locals and outlive the request; `Respawn` is the HTTP
library's choice of a new thread.  A token is the component it is signed for.

**BlobStore.**  A blob being written is a record of what is in its temporary file and
what its digest covers.  Every write takes a prefix of what it is given.  A save is
the rename, over a file of that name if there is one.  A processor has the two
tables of the code and their common counter; `meant` does not exist in the code and
is what the guest was told of each open descriptor.

**Buckle.**  A component is a negation-free formula over principals, represented
by its models, so implication is inclusion.  Principals are flat (the delegation
chains of the crate's principals do not occur).

**Monitor.**  Objects have a kind, a label and the one field their kind uses.
Each system call is an action; `Calls` and `Kinds` select which of them the
functions of a run make.  Three variables do not exist in the code.  `holds` (per
object) and `seen` (per thread) track whose secrets the data really depends on,
so that containment is about data and labels and not about labels alone.
`leaked` is a history variable: the principals whose secrets the memory of a VM,
cached or kept over a repeated try, has brought into an execution whose label does
not protect them (section 6).  The containment properties except these principals,
and so say that no secret leaks in any other way.
Exercising the privilege of `p`, by a write with privilege, by a response or by a
service, takes `p` out: that is declassification by its owner.

## 3. Runs

Nine runs pass and three show a disagreement (section 6).

| Run | Instance | Shows |
|---|---|---|
| `MCLocalManager` | 2 threads, sizes 1, 1, 2, 4 of a total of 2, five tries | `MemoryBalance`, `ReportsCurrent`, `EvictionEnds` (one size, room for one VM per thread), `ExhaustedOnlyIfTooBig`, `RetriesEnd` |
| `ClusterFaults` | 2 machines of one worker, the first may crash or be dropped, one client, sync and async nested calls, queue of 1, 3 tasks | `NeverDuplicated`, `RepliesMatch`; of the scheduler's maps `KnownNodes` (the `unwrap`s of `find_idle` never meet an unknown node), `LiveEntries` (no zero count, no empty vector); `RegisteredWaits` (`wait_list` holds no connection whose request was refused or answered) |
| `ClusterLive` | 2 machines, one client, a function that fits and one that does not, failing runs, async nested calls, queue of 1, 2 tasks | `ListedIsIdle`, `QueuedTaskFinishes`, `IdleWorkerIsUsed`, `RegisteredAnswered` |
| `AdminTools` | 3 tools, one of which may not write, 2 names, programs of up to 3 items, any tool may be killed | `Linearizable`, `NoEmptyObject`, `DoneAlone`, `StaysInstalled`, `ToolsEnd` |
| `Gateway` | 2 threads, one user who logs in, delegation of `alice\|bob` and of `alice&bob`, 4 requests, 8 uids | `OneDirectoryPerFacet`, `FacetsKept`, `TokensBacked`, `ActsAsRequest`, `HomeGates`, `RegisteredHasGate`, `RequestsEnd` |
| `BlobStore` | 2 workers, contents of one and of two bytes, 2 descriptors each | `ContentAddressed`, `NamesSaved`, `DescriptorsKept` |
| `MonitorFiles` | a worker and a client, 5 objects, directories, files and blobs, 2 invocations | `ObjectsContained`, `ThreadsContained`, `ClientCleared` |
| `MonitorGates` | 2 workers and a client, 4 objects, direct and redirect gates, 2 invocations | `ThreadsContained`, `NoAmplification` (privileges, and the clearances that redirection accumulates), `Untouched` |
| `MonitorOthers` | a worker and a client, 6 objects, services, blobs, facets, direct gates, failing and repeated executions, 1 invocation | `ObjectsContained` |
| `ClusterSyncRace` | one worker, one client, one task | `SyncAnswered` is violated |
| `ClusterPhantom` | one worker, one client, async calls, queue of 1, 4 tasks | `DispatchedToIdle` is violated |
| `MonitorVmReuse` | the instance of `MonitorFiles` | `VmLessTainted` is violated |

The runs of `LocalManager`, `Cluster` (with the maps of `GlobalManager`) and `Monitor`
also check a type invariant, which says that tables, streams and descriptors refer
only to things that exist and that bounded quantities keep their bounds.  Those of
`DirectoryOps`, `FacetedOpen`, `Gateway` and `BlobStore` are proved only, and so are `CasReady`,
`ReturnsListed` and `NeverRewritten` (section 5).

Why the bounds are enough for the questions asked:

* In `MCLocalManager` a third size larger than a thread's share and a fourth that
  never fits reach each way out of `try_allocate`, including the endless one, and
  memory for two small VMs with two threads makes eviction happen.  The retry
  counter is kept exactly up to the value the code compares it with and one more;
  larger values are alike.
* `ClusterFaults`: three tasks and a queue of one are the least for a full queue
  while one task is with a worker and one with the scheduling thread.  Two machines,
  one of them faulty, are the least for a retry on another worker.  At most two
  reports of a machine are unread at a time (`MaxUnread`); one allocation sends two.
  A machine that stopped does not come back in a behaviour.  The idle vectors are
  not bounded; the invariants of the maps are proved without any bound.
* `ClusterLive`: two machines let a task be dispatched to the one that does not
  cache its function, and two functions let each report change the maps.  With two
  tasks the queue of one does not fill up, which is why `ListedIsIdle` can hold
  (section 6: with a full queue it does not).
* `AdminTools`: a program needs two items on one name for an object of the wrong kind
  to be in the way, and three for a bootstrap that stops at its second.  Two tools
  that may write race; the third is refused by both operations.
* `Gateway`: a thread makes at most one directory per list it has seen without its
  facet, so eight uids are never used up; the bound is not reached.  Four requests
  are a login, a delegation and two uses of what they gave, or two registrations of
  one home at once after it.
* `BlobStore`: one content is a prefix of the other, so a write that is cut short
  makes the blob that someone else saves in full.  Two descriptors are the least for
  one to be confused with another.  `MaxLen` and `MaxFd` bound the run; the proofs
  hold for every value.
* The Monitor runs split the system calls by the kind of object they touch, because
  one run with all of them is too large.  In `MonitorFiles` and `MonitorGates` two
  invocations let a function started by the client invoke another, or two requests
  of the client follow each other on one worker thread; `MonitorOthers` has one
  invocation, of a function that may do more.  Principal `b` is the one whose
  privilege nobody has: no client logs in with it, and the one gate that has it asks
  its invoker for it.

Deadlock is not checked where the system may stop: when no more tasks may be made
(`MaxTasks`) or requests served (`MaxRequests`), when the tools have ended, or when
the threads of a machine are dead.

## 4. Fairness

`Cluster`: each handler, the scheduling thread, each worker thread and each gateway
thread that is inside a request runs when it can (weak fairness per thread, not
per action), which threads and TCP streams give as long as machines do not stop.
Nobody is obliged to send a request, and the condition variable wakes its waiter
only when notified: `SchedSpuriousWake` is possible and never obliged.  `ClusterLive`
is therefore a check that no notification is missed.

`LocalManager`: weak fairness of each thread's own steps.  Tasks arrive or not.

`AdminTools`: a tool that was started goes on until it ends or is killed (weak
fairness of its steps); nobody has to start one.  The loops of `link` and `unlink`
alone are only lock-free: one of them may lose its race for ever against threads
that never stop.  `ToolsEnd` holds because each other tool has finitely many items, so
it can win finitely often.

`Gateway`: a thread goes on with the request it has (weak fairness of its steps),
except that the scheduler need not answer, and no request has to come.  `RequestsEnd`
holds without a bound on the other threads' speed, since every race lost in `open`
means that a facet was added, and none is ever removed.

`Monitor` and `BlobStore` have no fairness; only safety is claimed of them.

## 5. Proofs

| Module | Theorem | For every |
|---|---|---|
| `GlobalManagerProofs` | `GMInvariant`, `GMTypeOKHolds`, `KnownNodesHolds`, `LiveEntriesHolds` | set of nodes, workers, functions and counts |
| `DirectoryOpsProofs` | `TypeOKHolds`, `CasReadyHolds`, `LinearizableHolds` | set of threads, names and entries |
| `GatewayProofs` | for `FacetedOpen`: `TypeOKHolds`, `OneDirectoryPerFacetHolds`, `ReturnsListedHolds`, `FacetsKeptHolds` | set of threads, facets and uids |
| | for `Gateway`: `GwInvHolds`, `GwTypeOKHolds`, `TokensBackedHolds`, `ActsAsRequestHolds`, `HomeGatesHolds`, `RegisteredHasGateHolds` | set of threads, users, principals, delegated components, clearances, labels and uids, and number of requests |
| `LocalManagerProofs` | `LMInvHolds`, `LocalTyped`, `MemoryBalanced`, `ReportsStayCurrent`, `EvictionAlwaysEnds`, `RefusedOnlyIfTooBig` | finite set of threads, functions, sizes, total memory and number of tries |
| `ClusterProofs` | `CustodyHolds`, `ClusterTyped`, `TaskNeverDuplicated`, `TablesConsistent`, `AnswersMatchRequests`, `RegisteredStillWait` | set of nodes, workers, clients and functions, queue capacity, number of tasks and set of faulty machines |
| | `FullAnswersAloneConfuse`, `ListedAreIdle` | the same, without faulty machines |
| `MonitorProofs` | `MonitorTyped`, `SecretsContained`, `LabelsKeepUp`, `ClientsCleared`, `PrivilegeNeverMadeUp`, `VouchedUntouched` | set of threads, objects, names, principals, labels and privileges, and number of invocations |
| `AdminToolsProofs` | `NoEmptyObjectHolds`, `DoneAloneHolds`, `StaysInstalledHolds`, `ToolsLinearizable` | set of tools, names and programs |
| `BlobStoreProofs` | `TypeOKHolds`, `ContentAddressedHolds`, `NamesSavedHolds`, `DescriptorsKeptHolds`, `NeverRewrittenHolds` | set of workers and bytes, contents, lengths and numbers of descriptors |

The theorems of `GlobalManagerProofs`, `DirectoryOpsProofs`, `BlobStoreProofs` and of
`FacetedOpen` are about a component with the most general caller: any thread may
invoke any operation at any time, and for the scheduler's maps any method,
`remove_all` included, may be called.  The others are about the composed systems,
the specifications that the runs check: `ClusterProofs` uses the lemmas of
`GlobalManagerProofs`, `AdminToolsProofs` those of `DirectoryOpsProofs`.

*Assumptions.*  `NodeOf` maps workers to nodes (a connection's peer address is
fixed), counts are natural numbers, and `None` is not a member of the sets it is
told apart from.  `MayWriteAssumption`: the threads that pass the label check on
the directory are some of the threads.  `ChunkAssumption`, `BoundAssumption`: what is
written are sequences of bytes, and the bounds are natural numbers.
`StoreAssumption`: the objects of `Monitor` that exist at the start refer to objects
that exist, and the root is a directory.
`ConnAssumption`: a connection is a gateway's, a worker's or a machine's.
`ChoiceAssumption`, `MemoryAssumption`, `NoneIsNoTask`: flags are Boolean, the faulty
machines are machines, and a VM takes memory.  `WorkerAssumption`: a machine has
finitely many worker threads.  `ProgramsAssumption`: programs are sequences of items
of bounded length.  `EntryAssumption`, `DrawAssumption`: a tool's objects are entries,
and a drawn uid is an unused one.  TLC evaluates all of them in the runs.
`GatewayAssumption`: users are principals, what requests name are formulas and
labels, and the faceted directory `home` can have a facet for every principal.

*Scheduler maps.*  `GMInv` is the types, `KnownNodes`, `LiveEntries` and
`FiledByNode`, a strengthening of the proof alone; `KnownNodes` is not inductive
without it.  The fallback of `find_idle`
marks dirty the node of the worker it popped.  That node is a key of `info` only
because the worker was filed under its own node (`FiledByNode`) and the nodes of
`idle` are known (`KnownNodes`); the count it decrements is positive only because
`retain` was called after every earlier decrement (`LiveEntries`).  There is a lemma for each of the
methods and for each helper on maps and stacks.

*Directories.*  `Inv` is the types, `CasReady` and `IdleHoldsNothing`.  `CasReady`
says that a thread about to compare-and-swap has passed both checks on the very
contents it compares with.  A successful swap is then an atomic operation on the
current contents, since they are equal to the copy; a refusal takes effect at the
get or the failed swap that brought the contents refused on.  `LinearizableHolds`
follows step by step: each concrete action is an abstract one or a stutter.

*Facets.*  `Inv` adds to the properties `ListedLabels`, that a listed directory is
labeled with its facet, and `Knows`, that a thread in the loop has looked its facet
up in the list it is about to compare with and did not find it.  Without `Knows`
the successful swap could add a second directory for the facet.

*Gateway.*  Each step is a step of `FacetedOpen` or leaves its variables alone, so the
invariant of `FacetedOpen` is kept and what it says of `open` can be used: the
directory returned is the one listed for the facet, and labeled with it.  `GwInv` adds,
for each thread, `Serving`: the privilege of the thread is that of the request's
caller, `open` wants the caller's home, a request that will be answered with a token
is `Backed`, and one that began on a public label still has it.  A gate's privilege is
then that of its home's owner (`HomesOwned`) because two principals do not share a
facet, and a registration that began on a public label cannot fail because a public
label flows to the owner's home with the owner's privilege.

*Blobs.*  `Inv` says that every file has the contents its name is the digest of, that
every stored or queued name is a file's, and that each processor is `Good`: its two
tables have different descriptors, all below the counter, a new blob's digest covers
exactly what its file holds, and both are what the guest was told.  The last part is
what makes `blob_finalize` save a file under its own name; that the counter is above
every descriptor is what makes a new one unused; and `NamesSaved` needs that files
are never removed, so `NeverRewritten` is proved from the same invariant.

*Machine.*  Memory is counted unit by unit: `VmPool` measures what is cached and
held as a set of units, each a unit of one VM, so a sum over functions
is the size of one set and no induction over the set of functions is needed.  `LMInv` says that
the free units, those of cached VMs, of VMs that threads hold and of VMs lost in a
panic make up the machine.  The eviction loop either ends with what was asked for or
never ends, and with VMs of one size and room for one per thread it ends: the thread
that asks holds nothing, so what is free and cached is enough for it.

*Cluster.*  `Base` is the custody of tasks: `OnePlace`, a task is in at most one of
the places from the request to FinishTask; `Once`, it is there once; `MadeOnly`, only
tasks that were made are anywhere.  `NeverDuplicated` alone is not inductive, because
a stream could hold the same task twice, and because a new task must be in no place.
Each step moves at most one task from where it read it to where it writes it; a
crash and a lost write only take tasks away.  A thread whose eviction would never end
(`NewVm` answers "spin") takes no further step.  `TablesConsistent` adds that each step is one of
`GlobalManager` or leaves its maps alone.  `ClientOK` lists the stages of a gateway's
request: in the stream, held by its handler between queueing and registering,
registered or finished unregistered (the race of section 6), or answered.  `RepliesMatch`
follows, since a FinishTask answers the connection registered for its own task.
`RegisteredWaits` follows too: a refused request was never registered, and an answer
takes its connection out of `wait_list` in the same step.

`WorkerOK` lists, for each point of a worker's loop, what may be in its two streams
and whether it may be listed or chosen.  It is kept by every step except the answer
"full" to an asynchronous call, the steps of `CtrlC` and `Crash`, and what follows them.
`FullAnswersAloneConfuse` therefore has the hypothesis `[]AsyncFits` that no such
answer is given, and `ListedAreIdle` two conditions that imply it: no asynchronous
calls, or a queue with room for all invocations but one.  So on machines that do not
fail the refused asynchronous call of section 6 is the only way to dispatch to a busy
worker.  The second condition is the one of `ClusterLive`.  It needs `CallsInv`: a call
in a worker's stream was made by an execution that goes on, or whose FinishTask is
behind it, so the caller's task is not in the queue, and neither is the new one.

*Monitor.*  `MonInv` says what a good store, thread, invocation and answer are.  A
label *covers* the secrets that the data depends on, except those of `leaked`.  A step
that brings the memory of a VM into an execution (`TakeTask`, `Retry`) adds to the
exceptions exactly what the execution's label does not cover; covering only gets
easier with more of them (`Excepted`), so what was covered before stays so.  A
privilege is `Powerless` when it is not that of a principal nobody has.  A gate is
`Guarded`: either its privilege is powerless, or its clearance asks for what it
gives, so that whoever passes the check gains nothing.  Redirection takes the
conjunction of the privileges and of the clearances along the way, and a
conjunction of guarded gates is guarded (`GuardedFacts`); this needs that the
clearance of every gate passed is asked for.  Lemmas about `Buckle` give what a
taint, a check with privilege and a residual do.  A step replaces one thread's
record and at most one object.  `VouchedUntouched` is an action property: each write
of an object is guarded by a check that an unheld principal's integrity label does
not pass.

*Admin tools.*  `ToolInv` has the invariant of the compare-and-swap loops, `Core`
(where a tool is in its program and which operation it is in; an object has its
contents before it is linked; a name is bound only to what a program made for it),
`SoloOK` (what a tool has seen is still true while nothing has run beside it) and
`KeptNames` (a name that is installed and never deleted is bound, or some install of
it is not settled).

*Model-checked only.*  All liveness properties (`ToolsEnd`, `RequestsEnd`,
`RetriesEnd`, `QueuedTaskFinishes`, `IdleWorkerIsUsed`, `RegisteredAnswered`): the
prover does not handle fairness and ENABLED.  Every invariant and every action
property that a passing run checks is also proved, `ListedIsIdle` under the conditions above.

## 6. Disagreements between the code and what is written about it

Three are shown by runs.

* `ClusterSyncRace`.  `sched/rpc_server.rs:96` queues a synchronous task and line
  111 registers the connection to answer, under another lock.  The task can be
  dispatched, executed and finished in between; FinishTask then finds nobody, and
  the client waits for ever.  `RegisteredAnswered` shows that a client registered in
  time is answered.
* `ClusterPhantom`.  A full queue is answered with a TaskReturn even if the
  invocation is asynchronous (`sched/rpc_server.rs:104`).  A worker whose function
  made the call reads it as the response to its next `rpc::get`, fails to decode
  it, and asks again.  It is then listed as idle twice, and a second task is sent to
  it while it is busy with the first.
* `MonitorVmReuse`.  `system-components.md:126` says that a worker caches a VM "with
  its floating label at the completion".  `vm.rs:76` sets the label to public and
  nothing sets it again, so the test at `worker.rs:238` always passes, and the
  memory of a VM that has seen secrets is given to a public invocation.

  The same happens within one invocation.  A failed execution is repeated in the
  same live VM (`vm.rs:91` returns at once), for which `worker.rs:169-173` makes a
  new processor whose label is the task's, while the guest keeps its memory.  An
  undecodable system call (`syscall_server.rs:1142`) is enough to fail.
  `system-components.md:119-121` says that the label is tainted with the VM's.
  `VmLessTainted` also fails with a single invocation when the calls of this run
  include "retry".

Others were met while modelling and were confirmed with further properties and
instances that are not kept as runs.  The properties above are stated so as to hold around
them, and the modules keep the behaviour as it is in the code.

* A failed `vm.launch` does `continue` (`worker.rs:156`), before the check of the
  counter at line 185: a VM that cannot start is launched for ever and nobody is
  told, although `sched/message.rs:10` says that the gateway will "respond 500 if
  fail to start the execution".  Failed launches also move the counter, and the check
  is `cnt == 5`: once it has passed 5, a failing execution is repeated for ever
  too.
* The eviction loop (`resource_manager.rs:204`) counts only what it evicts itself
  and ends only when that is enough.  When less is cached than is asked for, it
  spins with the manager locked.  The comment at 196-198 allows a failure only when
  the request exceeds the total.  Function sizes may differ, and even
  equal ones may exceed a thread's share: `multivm` starts one thread per 128 MB.
* `sched/resource_manager.rs:96-97` says that a cached VM "always implies an idle
  worker".  A worker reports the released VM before it sends FinishTask and
  GetTask.
* `sched/resource_manager.rs:177` says of the workers of a dropped node "They must
  have no busy worker".  Ctrl-C on `multivm` sends DropResource at any time.
* A crashed machine leaves its entry in `cached`.  When its listed workers are used
  up, `find_idle` pops from a missing vector and answers None (line 110) although
  another machine is idle, and the scheduling thread sleeps until the next
  notification.
* A synchronous `dent_invoke` holds its worker (`syscall_server.rs:715`).  When every
  worker is blocked so, the invoked tasks stay in the queue for ever.
* `syscalls.proto:240` says that declassify "returns Buckle (new current label)";
  `fs/utils.rs:156-167` computes a label and does not assign it.
* The TaskReturn of a failure is built at `worker.rs:126`, before the thread's label
  is reset for the new task: it carries the label that the previous invocation
  left.  It has no payload, so no secret is in it, but the gateway checks that label:
  it may refuse to tell its client of the failure.
* `Gate::replace`, `Service::replace` and the writes of files get an object, check
  it and set it (`fs/mod.rs:388-390`) without a compare-and-swap.  Of two updates at
  once one is lost, and both callers are told of success.  `Untouched` holds around
  it: both were allowed to write.
* `dent_update` can make two gates redirect to each other; the loop of
  `to_invokable` (`fs/mod.rs:363-368`) then never ends.
* `create_or_update_*` ignore the `Ok(false)` of `dir.link` (`fs/utils.rs`), so a tool
  prints `true` although another tool's object has the name.  A Mkdir, for one, may
  slip in between the unlink and the link.  An error between the two leaves the name
  unbound.  `StaysInstalled` and `DoneAlone` say what remains true.
* Two GenKeypairs at once can leave the private key of one and the public key of the
  other (`bins/admin_fstools/main.rs:277-300`).
* `register_user_fsutil` (`fs/bootstrap.rs:195`) sets the privilege and not the label.
  On a thread whose label an earlier invocation raised, the public gate cannot be
  created; the error is logged and the user is sent a token without an fsutil gate.
  `RegisteredHasGate` is about threads with a public label.
* An expired token is accepted: the test at `src/frontends/webfront/src/app.rs:89` ends
  in `&& false`, with a note to remove it for production.
* `syscall_server.rs:1119` says that a privilege "should always be a conjunction of
  singleton clauses"; `delegate` signs a token for `alice|bob` when alice asks.  The
  invoker that a function is told of is then the first of the two, whoever called.
* `blob_close` does not know a blob that was not finalized, and a `blob_finalize` that
  fails has already taken the new blob out of its table.  CreateBlob ignores the
  error of a copy that stopped half way and saves what there is
  (`bins/admin_fstools/main.rs:228`); the name is then that of the shorter contents,
  which `ContentAddressed` allows.

## 7. What the models leave out

* **Cluster.**  Bytes and framing; payloads; memory figures in reports, which no
  method reads; the end of the scheduler process (its `remove_all` is an action of
  `GlobalManager`); machines that come back after a crash.  The five tries of a task are one
  step here, `LocalManager` has them.  Panics with the scheduler's mutex locked are
  not modelled.
* **LocalManager.**  The contents of VMs, and the process exit.
* **AdminTools.**  Contents of objects are the tool that wrote them.  All names are in
  one directory, so a base path always leads to it or is refused.  Labels of objects
  are a check that may pass or fail.  A kill (`ToolCrash`, `Crash`) has no code of its
  own: it is any point at which a process stops.  The first `fs.initialize` has run.
* **Gateway.**  Signatures are not forged and keys are not changed.  Homes are opened
  step by step, the rest of a path is read at once.  Faasten's own home and gates are
  there: neither a partial bootstrap nor the opening of that home
  (`fs/bootstrap.rs:174-181`) is a step.  The GitHub pages and `whoami`,
  which change nothing in Faasten.
* **BlobStore.**  SHA-256 is injective.  The temporary directory is on the file system
  of the store, so that a rename is atomic, and all processes see one store, as the
  code requires when a worker opens what the gateway saved.  File offsets of reads.
  An upload's save and the storing of its name are one step, as the name is stored
  only after a save that succeeded.  The blobs of an invocation are opened once, not
  again at a repeated try.
* **DirectoryOps, FacetedOpen.**  Objects are not deleted, as nothing in `src/`
  deletes them; the `Err(None)` of a swap, which means that the object is gone, is
  therefore not a step.  The label check is a property of the thread: a directory's label
  never changes, and a thread's label does not change within one `link`.
* **Monitor.**  The `blob_*` calls, whose tables are private to a processor and are in
  `BlobStore` (what they would bring is read with the descriptor); descriptor
  numbers (the table is the set of objects it refers to); that the *existence* of a
  facet may itself inform; the field `declassify` of gates (creation checks that
  the creator implies it, and nothing applies it); paths through facets in
  client requests; the three images of a gate are read as one; the guest is any
  sequence of calls.  `holds` takes
  a directory's entries as one piece of data.
* **Not modelled at all.**  The garbage collector, `sfclient`, `sffs`, `sfdb` and
  `sfblob`: they are commented out of `src/snapfaas/Cargo.toml`, and call functions that the
  crate no longer has (`FS::collect_garbage` for one).  firerunner and the Firecracker
  wrapper: one process that sets up one VM from its arguments; its death is a step of
  `LocalManager` and `Cluster`.  singlevm, `httpserver` and `webhook`, which use no
  labels.  Parsing of paths, conversions, metrics.

## 8. Plan

What is left, in this order.

1. What of `WorkerOK` survives faults: the entries of a dead machine's workers are
   the only listed ones that are not idle.
2. What `ServeFinish` loses: a task that finishes unregistered is the only one whose
   client is left without an answer.
3. Shutdown of the scheduler, machines that come back, and panics under its mutex
   (`sched/rpc_server.rs:75`).
4. The updates of gates, services and files as read-modify-write without a swap:
   an abstract register they implement when they are not concurrent.
