------------------------------ MODULE Workers ------------------------------
(***************************************************************************)
(* WorkerService (workers.py) over the worker tables of store.py: several   *)
(* services, each a process with its own thread pool, share one database.   *)
(* Every method of Store that changes worker rows begins with BEGIN         *)
(* IMMEDIATE and is one step here.                                          *)
(*                                                                          *)
(* A service holds an OS file lock on its random owner name while it has    *)
(* active executions (WorkerOwnerLock); the kernel drops it when the        *)
(* process dies.  reconcile settles an attempt as lost only while it holds  *)
(* the lock of the attempt's owner.                                         *)
(*                                                                          *)
(* All calls come from the one owner of the worker tree, so the ownership   *)
(* tests of the methods always pass.  An attempt runs at most one local     *)
(* process.  adapter.cancel() makes the adapter return early, which it may  *)
(* do at any time here, so the call leaves no trace of its own.             *)
(***************************************************************************)
EXTENDS Integers, FiniteSets

CONSTANTS
    NumWorkers,     \* workers that can be dispatched
    Parent,         \* worker -> its parent, 0 for a root
    NumAttempts,    \* bound: attempt rows
    NumInputs,      \* bound: messages sent
    Services,       \* service processes (their owner names are never reused)
    Nobody,         \* owner of an attempt row that does not exist yet
    MaxSlots,       \* WorkerService max_workers
    MaxCrashes,     \* bound: service processes killed
    Environments    \* sets of outside events, one of which a behaviour meets

Workers  == 1 .. NumWorkers
Attempts == 1 .. NumAttempts
Inputs   == 1 .. NumInputs
Events   == {"cancel", "close", "resume", "bind", "fail", "stubborn", "release", "register"}

ASSUME WorkersAssumption ==
    /\ NumWorkers \in Nat \ {0} /\ NumAttempts \in Nat \ {0} /\ NumInputs \in Nat
    /\ Parent \in [Workers -> 0 .. NumWorkers]
    /\ \A w \in Workers : Parent[w] < w
    /\ Nobody \notin Services
    /\ MaxSlots \in Nat \ {0} /\ MaxCrashes \in Nat
    /\ Environments \subseteq SUBSET Events

Outcomes == {"none", "success", "failure", "stopped", "lost"}
Reasons  == {"none", "cancelled", "parent_cancelled", "timeout", "runtime_error",
             "process_cleanup", "restart"}
Results  == {"none", "succeeded", "failed", "cancelled"}
CancelReasons == {"cancelled", "parent_cancelled"}

VARIABLES
    worker,      \* the rows of workers: phase, last outcome, stop reason
    att,         \* the rows of worker_attempts: worker, service owner, status, outcome
    envelope,    \* per attempt, the status of the persisted AgentResult
    latest,      \* per worker, the attempt whose envelope was inserted last (0: none)
    queue,       \* per worker, the input rows not consumed yet
    used,        \* per attempt, the inputs its prompt incorporates
    registered,  \* attempts with a worker_attempt_processes row
    alive,       \* attempts whose local process group exists
    exec,        \* per attempt, where _execute is and what it will report
    unclean,     \* attempts with execution.cleanup_failed set
    up,          \* service process exists
    closed,      \* WorkerService._closed
    held,        \* the service holds the lock on its owner name
    call,        \* per service, the call that holds its _lock between two transactions
    todo,        \* per service, attempts that cancel or close still has to clean up
    recon,       \* per service, the attempt it is reconciling (0: none)
    sent,        \* messages sent so far
    crashes,
    environment  \* the outside events of this behaviour

rows     == <<worker, att, envelope, latest, queue, used>>
process  == <<registered, alive>>
services == <<up, closed, held, call, todo, recon>>
vars     == <<rows, process, exec, unclean, services, sent, crashes>>

ExecStates == {"none", "starting", "queued", "entered", "run", "spawned", "observed", "serving",
               "returned", "collected", "persisted", "failing", "failed", "final", "cleaned", "gone",
               "dead", "dead_spawned"}
Active     == ExecStates \ {"none", "gone", "dead", "dead_spawned"}
Ops        == {"none", "dispatch", "resume", "submit", "refused"}

NoCall == [op |-> "none", worker |-> 1, ids |-> {}, att |-> 0]
NoExec == [pc |-> "none", result |-> "none"]

TypeOK ==
    /\ worker \in [Workers -> [phase : {"absent", "idle", "running"}, outcome : Outcomes,
                               reason : Reasons]]
    /\ att \in [Attempts -> [worker : Workers, by : Services \cup {Nobody},
                             status : {"none", "running", "finished"}, outcome : Outcomes]]
    /\ envelope \in [Attempts -> Results]
    /\ latest \in [Workers -> 0 .. NumAttempts]
    /\ queue \in [Workers -> SUBSET Inputs] /\ used \in [Attempts -> SUBSET Inputs]
    /\ registered \subseteq Attempts /\ alive \subseteq Attempts /\ unclean \subseteq Attempts
    /\ exec \in [Attempts -> [pc : ExecStates, result : Results \cup Reasons]]
    /\ up \in [Services -> BOOLEAN] /\ closed \in [Services -> BOOLEAN]
    /\ held \in [Services -> BOOLEAN]
    /\ call \in [Services -> [op : Ops, worker : Workers, ids : SUBSET Inputs,
                              att : 0 .. NumAttempts]]
    /\ todo \in [Services -> SUBSET Attempts] /\ recon \in [Services -> 0 .. NumAttempts]
    /\ sent \in 0 .. NumInputs /\ crashes \in Nat /\ environment \in SUBSET Events

AttemptsOf(w)  == {a \in Attempts : att[a].status # "none" /\ att[a].worker = w}
Live(a)        == att[a].status = "running"
ActiveOf(s)    == {a \in Attempts : att[a].by = s /\ exec[a].pc \in Active}
First(x, S)    == x \in S /\ \A y \in S : x <= y
Unused         == {a \in Attempts : att[a].status = "none"}
Reconciled(o)  == \E s \in Services : recon[s] # 0 /\ att[recon[s]].by = o
Open(s)        == up[s] /\ ~ closed[s] /\ call[s].op = "none"

\* The workers below w, itself included: what the frontier loop of cancel_worker_tree adds up to.
Subtree(w) ==
    {v \in Workers : \A T \in SUBSET Workers :
        (w \in T /\ \A u \in Workers : Parent[u] \in T => u \in T) => v \in T}

Init ==
    /\ worker = [w \in Workers |-> [phase |-> "absent", outcome |-> "none", reason |-> "none"]]
    /\ att = [a \in Attempts |-> [worker |-> 1, by |-> Nobody, status |-> "none",
                                  outcome |-> "none"]]
    /\ envelope = [a \in Attempts |-> "none"]
    /\ latest = [w \in Workers |-> 0]
    /\ queue = [w \in Workers |-> {}] /\ used = [a \in Attempts |-> {}]
    /\ registered = {} /\ alive = {} /\ unclean = {}
    /\ exec = [a \in Attempts |-> NoExec]
    /\ up = [s \in Services |-> TRUE] /\ closed = [s \in Services |-> FALSE]
    /\ held = [s \in Services |-> FALSE]
    /\ call = [s \in Services |-> NoCall]
    /\ todo = [s \in Services |-> {}] /\ recon = [s \in Services |-> 0]
    /\ sent = 0 /\ crashes = 0 /\ environment \in Environments

-----------------------------------------------------------------------------
(* Transactions of Store.                                                      *)

\* Fault: a late settlement overwrites the one that came first.
SettleWorkerAlways(a, outcome, reason) ==
    /\ att' = [att EXCEPT ![a].status = "finished", ![a].outcome = outcome]
    /\ worker' = [worker EXCEPT ![att[a].worker] =
                     [phase |-> "idle", outcome |-> outcome, reason |-> reason]]

\* settle_worker: without effect once the attempt is finished.
SettleWorker(a, outcome, reason) ==
    IF Live(a)
      THEN /\ att' = [att EXCEPT ![a].status = "finished", ![a].outcome = outcome]
           /\ worker' = [worker EXCEPT ![att[a].worker] =
                            [phase |-> "idle", outcome |-> outcome, reason |-> reason]]
      ELSE UNCHANGED <<att, worker>>

\* cancel_worker_tree: running attempts of the tree stop; a worker row changes when it is
\* running or has no outcome yet.
CancelWorkerTree(w) ==
    LET tree == Subtree(w) IN
    /\ att' = [a \in Attempts |->
                 IF Live(a) /\ att[a].worker \in tree
                   THEN [att[a] EXCEPT !.status = "finished", !.outcome = "stopped"]
                   ELSE att[a]]
    /\ worker' = [v \in Workers |->
                    IF /\ v \in tree
                       /\ \/ worker[v].phase = "running"
                          \/ worker[v].phase = "idle" /\ worker[v].outcome = "none"
                      THEN [phase |-> "idle", outcome |-> "stopped",
                            reason |-> IF v = w THEN "cancelled" ELSE "parent_cancelled"]
                      ELSE worker[v]]

\* Fault: the inputs read before are not looked up again.
AdmittedAnyInputs(w, ids, dispatched) ==
    /\ worker[w].phase = "idle"
    /\ \A a \in AttemptsOf(w) : ~ Live(a) /\ a \notin registered

\* Fault: the parent is not looked up again.
AdmittedAnyParent(w, ids, dispatched) ==
    AdmittedAnyInputs(w, ids, dispatched) /\ ids \subseteq queue[w]

\* The admission tests of start_worker_attempt.  A dispatched worker must not have been stopped
\* and its parent must be running; a resumed one must not have a cancelled parent.
Admitted(w, ids, dispatched) ==
    /\ worker[w].phase = "idle"
    /\ \A a \in AttemptsOf(w) : ~ Live(a) /\ a \notin registered
    /\ ids \subseteq queue[w]
    /\ dispatched => worker[w].reason = "none"
    /\ Parent[w] \in Workers =>
         IF dispatched THEN worker[Parent[w]].phase = "running"
                       ELSE worker[Parent[w]].reason \notin CancelReasons

StartWorkerAttempt(s, w, a, ids) ==
    /\ att' = [att EXCEPT ![a] = [worker |-> w, by |-> s, status |-> "running", outcome |-> "none"]]
    /\ used' = [used EXCEPT ![a] = ids]
    /\ queue' = [queue EXCEPT ![w] = @ \ ids]
    /\ worker' = [worker EXCEPT ![w].phase = "running", ![w].reason = "none"]

\* persist_worker_result: the first envelope of an attempt stays.
PersistWorkerResult(a, status) ==
    IF envelope[a] = "none"
      THEN /\ envelope' = [envelope EXCEPT ![a] = status]
           /\ latest' = [latest EXCEPT ![att[a].worker] = a]
      ELSE UNCHANGED <<envelope, latest>>

\* reconcile_workers: settle one attempt as lost, unless it keeps a process row.
ReconcileWorkers(a) ==
    IF Live(a) /\ worker[att[a].worker].phase = "running" /\ a \notin registered
         /\ \A b \in AttemptsOf(att[a].worker) : b # a => ~ Live(b)
      THEN SettleWorker(a, "lost", "restart")
      ELSE UNCHANGED <<att, worker>>

-----------------------------------------------------------------------------
(* _cleanup_attempt: kill the registered group, then drop the row.             *)

\* Fault: the row goes without the group.
CleanedRowOnly(a) == registered' = registered \ {a} /\ UNCHANGED alive

Cleaned(a) ==
    /\ registered' = registered \ {a}
    /\ alive' = IF a \in registered THEN alive \ {a} ELSE alive

\* The group survives or cannot be probed: the row stays.
CleanupFails(a) ==
    /\ "stubborn" \in environment
    /\ a \in registered \cap alive
    /\ UNCHANGED process

ReleaseIdleOwner(s, stillActive) == held' = [held EXCEPT ![s] = @ /\ stillActive # {}]

-----------------------------------------------------------------------------
(* Calls of a service.                                                         *)

\* dispatch, first transaction: create_worker, for a child under a running parent only.
CreateWorker(s, w) ==
    /\ Open(s) /\ Unused # {}
    /\ worker[w].phase = "absent"
    /\ Parent[w] \in Workers => worker[Parent[w]].phase = "running"
    /\ worker' = [worker EXCEPT ![w].phase = "idle"]
    /\ call' = [call EXCEPT ![s] = [NoCall EXCEPT !.op = "dispatch", !.worker = w]]
    /\ UNCHANGED <<att, envelope, latest, queue, used, process, exec, unclean, up, closed, held,
                   todo, recon, sent, crashes>>

\* resume: the worker is idle; note which inputs its next prompt will incorporate.
ResumeRead(s, w) ==
    /\ "resume" \in environment
    /\ Open(s) /\ Unused # {}
    /\ worker[w].phase = "idle"
    /\ call' = [call EXCEPT ![s] = [op |-> "resume", worker |-> w, ids |-> queue[w], att |-> 0]]
    /\ UNCHANGED <<rows, process, exec, unclean, up, closed, held, todo, recon, sent, crashes>>

\* _start: take the owner lock, then start_worker_attempt.
Start(s) ==
    LET w == call[s].worker
        dispatched == call[s].op = "dispatch" IN
    /\ up[s] /\ call[s].op \in {"dispatch", "resume"}
    /\ held[s] \/ ~ Reconciled(s)
    /\ Admitted(w, call[s].ids, dispatched)
    /\ \E a \in Attempts :
         /\ First(a, Unused)
         /\ StartWorkerAttempt(s, w, a, call[s].ids)
         /\ exec' = [exec EXCEPT ![a].pc = "starting"]
         /\ call' = [call EXCEPT ![s] = [NoCall EXCEPT !.op = "submit", !.worker = w, !.att = a]]
    /\ held' = [held EXCEPT ![s] = TRUE]
    /\ UNCHANGED <<envelope, latest, process, unclean, up, closed, todo, recon, sent, crashes>>

\* _start raises: the lock is held by a reconciler, or the attempt is not admitted.
StartRefused(s) ==
    LET dispatched == call[s].op = "dispatch" IN
    /\ up[s] /\ call[s].op \in {"dispatch", "resume"}
    /\ \/ ~ held[s] /\ Reconciled(s)
       \/ ~ Admitted(call[s].worker, call[s].ids, dispatched)
       \/ Unused = {}      \* bound; the code takes this path when the Store raises
    /\ call' = [call EXCEPT ![s] =
                  IF dispatched /\ Parent[call[s].worker] \in Workers
                    THEN [NoCall EXCEPT !.op = "refused", !.worker = call[s].worker] ELSE NoCall]
    /\ UNCHANGED <<rows, process, exec, unclean, up, closed, held, todo, recon, sent, crashes>>

\* dispatch closes a child that lost the race against its parent's end.
AbandonChild(s) ==
    /\ up[s] /\ call[s].op = "refused"
    /\ IF worker[Parent[call[s].worker]].phase # "running"
         THEN CancelWorkerTree(call[s].worker)
         ELSE UNCHANGED <<att, worker>>
    /\ call' = [call EXCEPT ![s] = NoCall]
    /\ UNCHANGED <<envelope, latest, queue, used, process, exec, unclean, up, closed, held, todo,
                   recon, sent, crashes>>

\* before_start succeeded and the pool has the execution.
Submit(s) ==
    /\ up[s] /\ call[s].op = "submit"
    /\ exec' = [exec EXCEPT ![call[s].att].pc = "queued"]
    /\ call' = [call EXCEPT ![s] = NoCall]
    /\ UNCHANGED <<rows, process, unclean, up, closed, held, todo, recon, sent, crashes>>

\* before_start raised: the attempt fails and its execution is dropped.
StartFails(s) ==
    LET a == call[s].att IN
    /\ "bind" \in environment
    /\ up[s] /\ call[s].op = "submit"
    /\ SettleWorker(a, "failure", "runtime_error")
    /\ exec' = [exec EXCEPT ![a].pc = "gone"]
    /\ ReleaseIdleOwner(s, ActiveOf(s) \ {a})
    /\ call' = [call EXCEPT ![s] = NoCall]
    /\ UNCHANGED <<envelope, latest, queue, used, process, unclean, up, closed, todo, recon,
                   sent, crashes>>

\* send: queued for the next continuation.
Send(w) ==
    /\ sent < NumInputs
    /\ worker[w].phase = "running"
    /\ sent' = sent + 1
    /\ queue' = [queue EXCEPT ![w] = @ \cup {sent + 1}]
    /\ UNCHANGED <<worker, att, envelope, latest, used, process, exec, unclean, services, crashes>>

\* cancel: the transaction, and the ended attempts of the tree that keep a process row.
Cancel(s, w) ==
    /\ "cancel" \in environment
    /\ up[s] /\ call[s].op = "none"
    /\ worker[w].phase # "absent"
    /\ CancelWorkerTree(w)
    /\ todo' = [todo EXCEPT ![s] = @ \cup {a \in registered : att[a].worker \in Subtree(w)}]
    /\ UNCHANGED <<envelope, latest, queue, used, process, exec, unclean, up, closed, held, call,
                   recon, sent, crashes>>

\* close: no new calls; every active execution is stopped and cleaned.
Close(s) ==
    /\ "close" \in environment
    /\ Open(s)
    /\ closed' = [closed EXCEPT ![s] = TRUE]
    /\ todo' = [todo EXCEPT ![s] = @ \cup ActiveOf(s)]
    /\ UNCHANGED <<rows, process, exec, unclean, up, held, call, recon, sent, crashes>>

\* One attempt of that fan-out; close also settles it, cancel found it settled already.
CleanupOne(s, a) ==
    /\ up[s] /\ a \in todo[s]
    /\ IF closed[s] /\ att[a].by = s THEN SettleWorker(a, "stopped", "cancelled")
                                     ELSE UNCHANGED <<att, worker>>
    /\ Cleaned(a) \/ CleanupFails(a)
    /\ todo' = [todo EXCEPT ![s] = @ \ {a}]
    /\ UNCHANGED <<envelope, latest, queue, used, exec, unclean, up, closed, held, call, recon,
                   sent, crashes>>

\* Fault: a service reconciles running attempts only.
ReconcileLockRunning(s, a) ==
    LET owner == att[a].by IN
    /\ up[s] /\ recon[s] = 0 /\ Live(a)
    /\ owner \in Services /\ ~ held[owner] /\ ~ Reconciled(owner)
    /\ recon' = [recon EXCEPT ![s] = a]
    /\ UNCHANGED <<rows, process, exec, unclean, up, closed, held, call, todo, sent, crashes>>

\* reconcile, per attempt of a list that may be old by now (the attempt may have ended and been
\* cleaned since): skip it unless its owner's lock is free.
ReconcileLock(s, a) ==
    LET owner == att[a].by IN
    /\ up[s] /\ recon[s] = 0
    /\ owner \in Services /\ ~ held[owner] /\ ~ Reconciled(owner)
    /\ recon' = [recon EXCEPT ![s] = a]
    /\ UNCHANGED <<rows, process, exec, unclean, up, closed, held, call, todo, sent, crashes>>

\* Fault: lost although the cleanup was not confirmed and without looking at the lock.
ReconcileSettleUnlocked(s) ==
    \E a \in Attempts :
      /\ up[s] /\ recon[s] = 0 /\ Live(a) /\ att[a].by # s
      /\ SettleWorker(a, "lost", "restart")
      /\ UNCHANGED <<envelope, latest, queue, used, process, held, recon, exec, unclean, up,
                     closed, call, todo, sent, crashes>>

\* ... clean its processes, settle it when that is confirmed, and let the lock go.
ReconcileSettle(s) ==
    LET a == recon[s] IN
    /\ up[s] /\ a # 0
    /\ \/ Cleaned(a) /\ ReconcileWorkers(a)
       \/ CleanupFails(a) /\ UNCHANGED <<att, worker>>
    /\ recon' = [recon EXCEPT ![s] = 0]
    /\ UNCHANGED <<envelope, latest, queue, used, exec, unclean, up, closed, held, call, todo,
                   sent, crashes>>

-----------------------------------------------------------------------------
(* A thread of the pool: _execute for attempt a.                               *)

At(a, label) == exec[a].pc = label      \* a crash ends every thread, see Crash
Goto(a, label) == exec' = [exec EXCEPT ![a].pc = label]
Report(a, label, result) == exec' = [exec EXCEPT ![a] = [pc |-> label, result |-> result]]

\* The test of guard() and of the process observer.
Stopped(a) == closed[att[a].by] \/ ~ Live(a)

\* guard(): stopped, or a process that could not be cleaned.
Guard(a, label) ==
    \/ Stopped(a) /\ Report(a, "failing", "cancelled")
    \/ ~ Stopped(a) /\ a \in unclean /\ Report(a, "failing", "process_cleanup")
    \/ ~ Stopped(a) /\ a \notin unclean /\ Goto(a, label)

ThreadFrame == UNCHANGED <<services, sent, crashes>>

\* The pool has a free slot: the first guard, under the service's lock.
Enter(a) ==
    LET s == att[a].by IN
    /\ At(a, "queued") /\ call[s].op = "none"
    /\ Cardinality({b \in ActiveOf(s) : exec[b].pc \notin {"starting", "queued"}}) < MaxSlots
    /\ Guard(a, "entered")
    /\ UNCHANGED <<rows, process, unclean>> /\ ThreadFrame

\* The guard right before adapter.run.
Invoke(a) ==
    /\ At(a, "entered")
    /\ Guard(a, "run")
    /\ UNCHANGED <<rows, process, unclean>> /\ ThreadFrame

\* The adapter starts a local process ...
Spawn(a) ==
    /\ At(a, "run")
    /\ alive' = alive \cup {a}
    /\ Goto(a, "spawned")
    /\ UNCHANGED <<rows, registered, unclean>> /\ ThreadFrame

\* ... and reports it: the observer registers it, also for an attempt that has ended.  When that raises,
\* the adapter is told to stop its process, which may fail, and the attempt is marked; the runtime goes on.
Register(a) ==
    /\ At(a, "spawned")
    /\ \/ /\ registered' = registered \cup {a}
          /\ Goto(a, "observed")
          /\ UNCHANGED <<alive, unclean>>
       \/ /\ "register" \in environment
          /\ unclean' = unclean \cup {a}
          /\ \/ alive' = alive \ {a}
             \/ "stubborn" \in environment /\ UNCHANGED alive
          /\ Goto(a, "serving")
          /\ UNCHANGED registered
    /\ UNCHANGED rows /\ ThreadFrame

\* The rest of the observer: a launch that lost against a stop is cleaned up at once.
Observe(a) ==
    /\ At(a, "observed")
    /\ \/ Stopped(a) /\ (Cleaned(a) \/ CleanupFails(a)) /\ Report(a, "failing", "cancelled")
       \/ ~ Stopped(a) /\ Goto(a, "serving") /\ UNCHANGED process
    /\ UNCHANGED <<rows, unclean>> /\ ThreadFrame

\* The adapter has stopped its process: the released callback cleans the registration.
Released(a) ==
    /\ "release" \in environment
    /\ At(a, "serving") /\ a \in registered
    /\ \/ Cleaned(a) /\ UNCHANGED unclean
       \/ CleanupFails(a) /\ unclean' = unclean \cup {a}
    /\ UNCHANGED <<rows, exec>> /\ ThreadFrame

\* adapter.run returns a result or raises.
Return(a) ==
    /\ At(a, "run") \/ At(a, "serving")
    /\ \/ Report(a, "returned", "succeeded")
       \/ "fail" \in environment /\ \E r \in {"failed", "cancelled"} : Report(a, "returned", r)
       \/ "fail" \in environment /\ \E r \in {"timeout", "runtime_error"} : Report(a, "failing", r)
    /\ UNCHANGED <<rows, process, unclean>> /\ ThreadFrame

\* The guard after adapter.run, then the cleanup that must be confirmed.
Collect(a) ==
    /\ At(a, "returned")
    /\ \/ Stopped(a) /\ Report(a, "failing", "cancelled") /\ UNCHANGED process
       \/ /\ ~ Stopped(a) /\ a \in unclean
          /\ Report(a, "failing", "process_cleanup") /\ UNCHANGED process
       \/ /\ ~ Stopped(a) /\ a \notin unclean
          /\ \/ Cleaned(a) /\ Goto(a, "collected")
             \/ CleanupFails(a) /\ Report(a, "failing", "process_cleanup")
    /\ UNCHANGED <<rows, unclean>> /\ ThreadFrame

\* persist_worker_result; it may raise (a result above the size limit).
Persist(a) ==
    /\ At(a, "collected")
    /\ \/ PersistWorkerResult(a, exec[a].result) /\ Goto(a, "persisted")
       \/ "fail" \in environment /\ Report(a, "failing", "runtime_error")
          /\ UNCHANGED <<envelope, latest>>
    /\ UNCHANGED <<worker, att, queue, used, process, unclean>> /\ ThreadFrame

OutcomeOf(result) ==
    CASE result = "succeeded" -> "success"
      [] result = "cancelled" -> "stopped"
      [] OTHER -> "failure"

ReasonOf(result) ==
    CASE result = "succeeded" -> "none"
      [] result = "failed" -> "runtime_error"
      [] OTHER -> result

Settle(a) ==
    /\ At(a, "persisted") /\ call[att[a].by].op = "none"
    /\ SettleWorker(a, OutcomeOf(exec[a].result), ReasonOf(exec[a].result))
    /\ Goto(a, "final")
    /\ UNCHANGED <<envelope, latest, queue, used, process, unclean>> /\ ThreadFrame

\* The exception handler: a fallback envelope, unless there is one already ...
Fallback(a) ==
    LET reason == CASE closed[att[a].by] -> "cancelled"
                    [] ~ closed[att[a].by] /\ a \in unclean -> "process_cleanup"
                    [] OTHER -> exec[a].result
    IN
    /\ At(a, "failing")
    /\ PersistWorkerResult(a, IF reason = "cancelled" THEN "cancelled" ELSE "failed")
    /\ Report(a, "failed", reason)
    /\ UNCHANGED <<worker, att, queue, used, process, unclean>> /\ ThreadFrame

\* ... then the settlement.
SettleFailure(a) ==
    /\ At(a, "failed")
    /\ SettleWorker(a, IF exec[a].result = "cancelled" THEN "stopped" ELSE "failure",
                    exec[a].result)
    /\ Goto(a, "final")
    /\ UNCHANGED <<envelope, latest, queue, used, process, unclean>> /\ ThreadFrame

\* The finally block: a last cleanup, confirmed or not ...
Cleanup(a) ==
    /\ At(a, "final")
    /\ Cleaned(a) \/ CleanupFails(a)
    /\ Goto(a, "cleaned")
    /\ UNCHANGED <<rows, unclean>> /\ ThreadFrame

\* ... then, under the service's lock, forget the execution and release the owner when idle.
Leave(a) ==
    LET s == att[a].by IN
    /\ At(a, "cleaned") /\ call[s].op = "none"
    /\ Goto(a, "gone")
    /\ ReleaseIdleOwner(s, ActiveOf(s) \ {a})
    /\ UNCHANGED <<rows, process, unclean, up, closed, call, todo, recon, sent, crashes>>

-----------------------------------------------------------------------------
(* The operating system.                                                        *)

ProcessExits(a) ==
    /\ a \in alive
    /\ alive' = alive \ {a}
    /\ UNCHANGED <<rows, registered, exec, unclean, services, sent, crashes>>

\* A service process dies: its threads and locks go, its rows and child processes stay.
Crash(s) ==
    /\ crashes < MaxCrashes /\ up[s]
    /\ crashes' = crashes + 1
    /\ up' = [up EXCEPT ![s] = FALSE]
    /\ held' = [held EXCEPT ![s] = FALSE]
    /\ call' = [call EXCEPT ![s] = NoCall]
    /\ todo' = [todo EXCEPT ![s] = {}] /\ recon' = [recon EXCEPT ![s] = 0]
    /\ exec' = [a \in Attempts |->
                  IF a \notin ActiveOf(s) THEN exec[a]
                    ELSE [exec[a] EXCEPT !.pc = IF @ = "spawned" THEN "dead_spawned" ELSE "dead"]]
    /\ UNCHANGED <<rows, process, unclean, closed, sent>>

ServiceStep(s) ==
    \/ Start(s) \/ StartRefused(s) \/ AbandonChild(s) \/ Submit(s) \/ StartFails(s)

ThreadStep(a) ==
    \/ Enter(a) \/ Invoke(a) \/ Spawn(a) \/ Register(a) \/ Observe(a) \/ Released(a) \/ Return(a)
    \/ Collect(a) \/ Persist(a) \/ Settle(a) \/ Fallback(a) \/ SettleFailure(a) \/ Cleanup(a)
    \/ Leave(a)

Steps ==
    \/ \E s \in Services :
         \/ ServiceStep(s) \/ Close(s) \/ Crash(s) \/ ReconcileSettle(s)
         \/ \E w \in Workers : CreateWorker(s, w) \/ ResumeRead(s, w) \/ Cancel(s, w)
         \/ \E a \in Attempts : CleanupOne(s, a) \/ ReconcileLock(s, a)
    \/ \E a \in Attempts : ThreadStep(a) \/ ProcessExits(a)
    \/ \E w \in Workers : Send(w)

Next == Steps /\ UNCHANGED environment

Spec == Init /\ [][Next]_<<vars, environment>>

\* Threads, calls and cleanups of a service that lives go on, and it keeps reconciling.
Fairness ==
    /\ \A s \in Services : /\ WF_vars(ServiceStep(s)) /\ WF_vars(ReconcileSettle(s))
                           /\ \A a \in Attempts : /\ WF_vars(CleanupOne(s, a))
                                                    /\ SF_vars(ReconcileLock(s, a))
    /\ \A a \in Attempts : WF_vars(ThreadStep(a))

-----------------------------------------------------------------------------
\* A worker is running exactly while one of its attempts is: cancellation, reconciliation and
\* settlement by racing services never leave a running worker nobody works for, nor two
\* attempts of one worker open.
PhaseMatchesAttempt ==
    \A w \in Workers :
       LET open == {a \in AttemptsOf(w) : Live(a)} IN
       /\ worker[w].phase = "running" <=> open # {}
       /\ Cardinality(open) <= 1

\* A service with executions in its pool holds the lock on its owner name.
ActiveHoldsLock == \A a \in Attempts : exec[a].pc \in Active => held[att[a].by]

\* reconcile declares an attempt lost only when no thread works on it any more (FR-011: a live
\* owner's attempts must remain running).
LostMeansAbandoned == \A a \in Attempts : att[a].outcome = "lost" => exec[a].pc \notin Active

\* A message sent to a worker reaches exactly one prompt, or still waits in the queue.
InputsConsumedOnce ==
    \A i \in 1 .. sent :
       Cardinality({w \in Workers : i \in queue[w]}) + Cardinality({a \in Attempts : i \in used[a]}) = 1

\* A process that no thread looks after is on record, so that reconciliation finds it; only the
\* moment between starting it and reporting it is uncovered.  A process that could be neither recorded
\* nor stopped marks its attempt, and a marked attempt never succeeds.
LiveProcessIsRegistered ==
    /\ \A a \in alive \ registered : exec[a].pc \in {"spawned", "dead_spawned"} \/ a \in unclean
    /\ \A a \in unclean : att[a].outcome # "success"

\* An attempt that succeeded has its succeeded envelope (delivery reads it after settlement).
SuccessHasEnvelope ==
    \A a \in Attempts : att[a].outcome = "success" => envelope[a] = "succeeded"

\* The rows of workers, attempts and envelopes agree while services settle, cancel, resume, close and
\* die, and a service with executions keeps the lock that tells it from a dead one.
RowsAgree == TypeOK /\ PhaseMatchesAttempt /\ SuccessHasEnvelope /\ ActiveHoldsLock

\* Cancelling a worker stops its whole tree for good: no descendant of a cancelled worker runs,
\* neither one that was being dispatched or resumed meanwhile, until the worker is resumed itself.
\* Where adapters fail or services close the code promises less: a cancelled result that an adapter
\* reports, or a shutdown, ends the one worker only.
CancelStopsTree ==
    environment \cap {"fail", "close"} = {} =>
    \A w \in Workers :
       worker[w].phase # "running" /\ worker[w].reason \in CancelReasons
          => \A v \in Workers : Parent[v] = w => worker[v].phase # "running"

\* What read_result_envelope returns for an idle worker.
PresentedResult(w) == IF latest[w] = 0 THEN "none" ELSE envelope[latest[w]]

\* "an interrupted run with no authoritative terminal evidence becomes `lost` and cannot be presented as
\* success" (specs/143-local-worker-lifecycle/spec.md).
LostIsNotSuccess ==
    \A a \in Attempts :
       /\ att[a].outcome = "lost" /\ envelope[a] = "none"
       /\ \A b \in AttemptsOf(att[a].worker) : b <= a
       => PresentedResult(att[a].worker) # "succeeded"

\* Every attempt ends: settled by its thread, or as lost once its service is gone.
AttemptsEnd == \A a \in Attempts : Live(a) ~> ~ Live(a)

\* A process of an attempt that has ended does not outlive it for ever, while its service or
\* another one that reconciles is up and the process was reported.
EndedProcessesDie ==
    \A a \in Attempts : (a \in alive /\ att[a].status = "finished")
                           ~> (a \notin alive \/ exec[a].pc = "dead_spawned")

\* The two together: a service that dies leaves neither an attempt that runs for ever nor a process.
WorkEnds == AttemptsEnd /\ EndedProcessesDie
=============================================================================
