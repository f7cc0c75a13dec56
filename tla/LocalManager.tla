----------------------------- MODULE LocalManager -----------------------------
(***************************************************************************)
(* One worker machine: its worker threads (snapfaas/src/worker.rs,         *)
(* wait_and_process and try_allocate) sharing the local resource manager   *)
(* (snapfaas/src/resource_manager.rs) behind a mutex.                      *)
(*                                                                         *)
(* A worker thread is a record.  pc is where it stands:                    *)
(*   "wait"    blocked in rpc::get;                                        *)
(*   "alloc"   about to lock the resource manager in try_allocate;         *)
(*   "try"     at the head of the retry loop, holding a VM;                *)
(*   "run"     the VM is up and processor.run executes the function;       *)
(*   "release", "delete"   about to lock the manager to hand the VM back;  *)
(*   "dead"    the thread panicked.                                        *)
(* fn is the function of its task, up tells whether its VM has a handle,   *)
(* cnt is the loop counter and res the code of the last FinishTask sent.   *)
(***************************************************************************)
EXTENDS VmPool

CONSTANTS
  Worker,       \* the worker threads of the pool
  None,
  MaxTries,     \* the literal 5 of the retry loop
  LaunchMayFail,\* BOOLEAN: VM processes may fail to start
  RunMayFail,   \* BOOLEAN: processor.run may return an error
  MayPanic      \* BOOLEAN: processor.run may panic

ASSUME TriesAssumption  == MaxTries \in Nat \ {0}
ASSUME WorkerAssumption == IsFiniteSet(Worker) /\ None \notin Function \cup Worker

VARIABLES
  pool,    \* the manager's cache and free memory
  owner,   \* the thread that never gives the manager's lock back, or None
  report,  \* the statistics last sent to the scheduler by update_scheduler
  wk       \* the worker threads

vars == <<pool, owner, report, wk>>

Busy  == {"try", "run", "release", "delete"}   \* the thread holds a VM
Codes == {"none", "success", "failed", "exhausted"}

Init ==
  /\ pool   = FreshPool
  /\ owner  = None
  /\ report = FreshPool.cache
  /\ wk     = [w \in Worker |->
                 [pc |-> "wait", fn |-> None, up |-> FALSE, cnt |-> 0, res |-> "none"]]

\* cnt += 1.  The counter is only compared with MaxTries, so the values above it
\* are alike: two of them, taken in turn, stand for them all.
Counted(n) == IF n = MaxTries + 2 THEN MaxTries + 1 ELSE n + 1

\* update_scheduler: the scheduler is sent the number of cached VMs per function.
UpdateScheduler(p) == report' = p.cache

\* rpc::finish has sent the task's answer; the locals of the loop are gone.
Answered(w, code) ==
  [wk EXCEPT ![w].pc = "wait", ![w].up = FALSE, ![w].cnt = 0, ![w].res = code]

\* rpc::get returns a ProcessTask for function f.
TakeTask(w, f) ==
  /\ wk[w].pc = "wait"
  /\ wk' = [wk EXCEPT ![w].pc = "alloc", ![w].fn = f, ![w].res = "none"]
  /\ UNCHANGED <<pool, owner, report>>

\* try_allocate, under one lock: flows is the label check on a cached VM.  A
\* cached VM that fails the check goes back before a new one is made, so new_vm
\* sees the pool as it was, except that the manager reported in between.
TryAllocate(w, flows) ==
  LET f   == wk[w].fn
      hit == CachedVms(pool, f) > 0
      new == NewVm(pool, f)
  IN  /\ wk[w].pc = "alloc"
      /\ owner = None
      /\ \/ /\ hit /\ flows
            /\ pool' = Taken(pool, f)
            /\ UpdateScheduler(pool')
            /\ wk' = [wk EXCEPT ![w].pc = "try", ![w].up = TRUE]
            /\ UNCHANGED owner
         \/ /\ ~(hit /\ flows)
            /\ new.res = "ok"
            /\ pool' = new.pool
            /\ UpdateScheduler(pool')
            /\ wk' = [wk EXCEPT ![w].pc = "try", ![w].up = FALSE]
            /\ UNCHANGED owner
         \/ /\ ~(hit /\ flows)
            /\ new.res = "exhausted"
            /\ UpdateScheduler(pool)
            /\ wk' = Answered(w, "exhausted")
            /\ UNCHANGED <<pool, owner>>
         \/ /\ ~(hit /\ flows)
            /\ new.res = "spin"
            /\ pool' = new.pool
            /\ owner' = w
            /\ UpdateScheduler(pool)
            /\ UNCHANGED wk

\* One more turn of the retry loop: vm.launch is a no-op for a VM that is up.
Launch(w) ==
  /\ wk[w].pc = "try"
  /\ wk' = [wk EXCEPT ![w].pc = "run", ![w].up = TRUE, ![w].cnt = Counted(@)]
  /\ UNCHANGED <<pool, owner, report>>

\* vm.launch fails: `continue`, before the check of the counter.
LaunchFails(w) ==
  /\ LaunchMayFail
  /\ wk[w].pc = "try"
  /\ ~wk[w].up
  /\ wk' = [wk EXCEPT ![w].cnt = Counted(@)]
  /\ UNCHANGED <<pool, owner, report>>

\* processor.run returns Ok.
RunSucceeds(w) ==
  /\ wk[w].pc = "run"
  /\ wk' = [wk EXCEPT ![w].pc = "release"]
  /\ UNCHANGED <<pool, owner, report>>

\* Mutant of RunFails: the counter is never looked at.
RunFailsForever(w) ==
  /\ RunMayFail
  /\ wk[w].pc = "run"
  /\ wk' = [wk EXCEPT ![w].pc = "try"]
  /\ UNCHANGED <<pool, owner, report>>

\* processor.run returns Err: give up on the last try only.
RunFails(w) ==
  /\ RunMayFail
  /\ wk[w].pc = "run"
  /\ wk' = [wk EXCEPT ![w].pc = IF wk[w].cnt = MaxTries THEN "delete" ELSE "try"]
  /\ UNCHANGED <<pool, owner, report>>

\* processor.run panics (a nested synchronous call came back without a
\* payload): the thread and its VM are gone, the memory is never returned.
RunPanics(w) ==
  /\ MayPanic
  /\ wk[w].pc = "run"
  /\ wk' = [wk EXCEPT ![w].pc = "dead"]
  /\ UNCHANGED <<pool, owner, report>>

\* Mutant of ReleaseVm: release forgets update_scheduler.
ReleaseVmSilently(w) ==
  /\ wk[w].pc = "release"
  /\ owner = None
  /\ pool' = Released(pool, wk[w].fn)
  /\ wk' = Answered(w, "success")
  /\ UNCHANGED <<owner, report>>

\* release, then rpc::finish with the function's answer.
ReleaseVm(w) ==
  /\ wk[w].pc = "release"
  /\ owner = None
  /\ pool' = Released(pool, wk[w].fn)
  /\ UpdateScheduler(pool')
  /\ wk' = Answered(w, "success")
  /\ UNCHANGED owner

\* delete, then rpc::finish with ProcessRequestFailed.
DeleteVm(w) ==
  /\ wk[w].pc = "delete"
  /\ owner = None
  /\ pool' = Deleted(pool, wk[w].fn)
  /\ UpdateScheduler(pool')
  /\ wk' = Answered(w, "failed")
  /\ UNCHANGED owner

\* What a thread does on its own once it has a task.
Progress(w) ==
  \/ \E flows \in BOOLEAN : TryAllocate(w, flows)
  \/ Launch(w)
  \/ LaunchFails(w)
  \/ RunSucceeds(w)
  \/ RunFails(w)
  \/ RunPanics(w)
  \/ ReleaseVm(w)
  \/ DeleteVm(w)

Next == \E w \in Worker : Progress(w) \/ \E f \in Function : TakeTask(w, f)

\* Threads are scheduled fairly, and a mutex that is released is eventually
\* acquired; tasks arrive or not.
Fairness == \A w \in Worker : WF_vars(Progress(w))

Spec == Init /\ [][Next]_vars /\ Fairness

-----------------------------------------------------------------------------
(* Properties. *)

\* Types.  free_mem stays between zero and the total of the machine.
TypeOK ==
  /\ DOMAIN pool.cache \subseteq Function
  /\ \A f \in DOMAIN pool.cache : pool.cache[f] \in Nat
  /\ pool.free \in 0..TotalMem
  /\ owner \in Worker \cup {None}
  /\ DOMAIN report \subseteq Function
  /\ wk \in [Worker -> [pc : Busy \cup {"wait", "alloc", "dead"},
                        fn : Function \cup {None}, up : BOOLEAN,
                        cnt : 0..(MaxTries + 2), res : Codes]]

\* Memory of the VMs that worker threads hold, unit by unit.
Held(places) == UNION {{w} \X (1..Memory[wk[w].fn]) : w \in {v \in Worker : wk[v].pc \in places}}
HeldMem      == Cardinality(Held(Busy))

\* Memory is accounted for: what is free, cached and held by the threads never
\* exceeds the machine's total, however allocations, evictions and releases of
\* the threads interleave, and nothing is lost unless a thread panicked.
MemoryBalance ==
  /\ pool.free + CachedMem(pool) + HeldMem <= TotalMem
  /\ (\A w \in Worker : wk[w].pc # "dead")
       => pool.free + CachedMem(pool) + HeldMem = TotalMem

\* The scheduler is told every count: whenever the manager's lock is free, the
\* last report equals the cache, function by function.
ReportsCurrent == owner = None => report = pool.cache

\* The sizes of the VMs that were ever cached or asked for.
Sizes == {Memory[f] : f \in (DOMAIN pool.cache \cup {wk[w].fn : w \in Worker}) \ {None}}

\* The eviction loop of dummy_evict ends, and the manager's lock is given back,
\* as long as all VMs have one size and there is room for one per worker thread,
\* which is what the notes of multivm assume.  (Nothing in the code enforces it,
\* and with other sizes the loop may run for ever.)
EvictionEnds ==
  (\A m, n \in Sizes : m = n /\ m * Cardinality(Worker) <= TotalMem) => owner = None

\* ResourceExhausted is answered only for functions larger than the machine.
ExhaustedOnlyIfTooBig ==
  \A w \in Worker : wk[w].res = "exhausted" => Memory[wk[w].fn] > TotalMem

\* A task whose VM comes up within MaxTries launches is answered after at most
\* MaxTries turns of the loop, unless the thread panics or the manager's lock is
\* never given back.  (A VM that cannot be launched is retried for ever, and one
\* that came up later than that is given the task again for as long as it fails:
\* the counter has passed the only value it is compared with.)
RetriesEnd ==
  \A w \in Worker : wk[w].pc = "run" /\ wk[w].cnt <= MaxTries
                      ~> wk[w].pc \in {"wait", "dead"} \/ owner # None

=============================================================================
