------------------------------ MODULE Delegate ------------------------------
(***************************************************************************)
(* run_worker_agent and cancel of the controller, for a run with one task:  *)
(* several controller processes dispatch, observe and cancel the durable    *)
(* worker a task attempt is delegated to, over the ledger of module Store.  *)
(*                                                                          *)
(* A worker binding pairs one task attempt with the one worker dispatched   *)
(* for it, so both carry the attempt's number.  Of the worker only what     *)
(* delivery reads is kept (module Workers has the rest): its attempt row,   *)
(* its result envelope, and the process whose thread pool executes it.      *)
(*                                                                          *)
(* Whoever delivers holds an OS lock named after the worker; the kernel     *)
(* drops it when the process dies.  Every step below is one transaction,    *)
(* one file operation, or reads that one later transaction checks again.    *)
(***************************************************************************)
EXTENDS Store

CONSTANTS
    Procs,          \* controller processes, each in one call at a time
    Nobody,         \* no process
    MaxAttempts,    \* BudgetSpec.max_attempts
    MaxRetries,     \* config.max_retries
    MaxVersions,    \* bound: plan versions
    MaxCrashes,     \* bound: processes killed
    Environment     \* outside events the instance explores

ASSUME DelegateAssumption ==
    /\ NumTasks = 1 /\ Orchestration = {} /\ DOMAIN FirstPlan = {1}
    /\ Nobody \notin Procs
    /\ MaxAttempts \in Nat /\ MaxRetries \in Nat /\ MaxVersions \in Nat /\ MaxCrashes \in Nat
    /\ Environment \subseteq {"cancel", "raise", "reject", "budget", "timeout", "race"}

VARIABLES
    bound,     \* per attempt, the status of its worker binding
    stale,     \* attempts whose delivery reservation is older than the lease
    work,      \* per attempt, the status of its worker attempt row
    env,       \* per attempt, the status in the persisted result envelope
    exec,      \* per attempt, where the thread executing the worker is
    host,      \* per attempt, the process of that thread, Nobody once it died
    dlock,     \* per attempt, the process that holds the delivery lock
    prepared,  \* attempts with a worker_delivery_output_prepared event
    proc,      \* per process, the call it is in
    dropped,   \* attempts whose lock holder was killed
    crashes

worker == <<work, env, exec, host>>
vars   == <<store, bound, stale, worker, dlock, prepared, proc, dropped, crashes>>

task  == 1
Open  == {"active", "delivering"}

Staging == {"stage", "evaluate", "prepare", "copy", "record", "promote", "complete"}
Pcs     == Staging \cup
           {"idle", "reconcile", "lost", "settle_call", "attach", "budget", "claim", "dispatch",
            "bind", "inputs", "wait", "look", "sleep", "locked", "reserve", "clean", "clean_file",
            "undo", "undo_file", "undone", "failing", "stop", "settle", "finish", "late",
            "late_file", "settle_run", "cancel_list", "cancel_stop", "cancel_settle",
            "drop_next", "drop", "drop_file"}

\* att: the attempt (0: none yet); attached: the binding existed before the call; known: dispatch
\* returned; tries: task.attempts as first read; then: after settle, or the outcome to commit.
Idle == [pc |-> "idle", att |-> 0, attached |-> FALSE, known |-> FALSE, tries |-> 0,
         then |-> "none", todo |-> {}]

TypeOK ==
    /\ StoreTypeOK
    /\ bound \in [Attempts -> Open \cup {"none", "settled", "discarded", "lost"}]
    /\ stale \subseteq Attempts /\ prepared \subseteq Attempts /\ dropped \subseteq Attempts
    /\ work \in [Attempts -> {"none", "running", "finished"}]
    /\ env \in [Attempts -> {"none", "succeeded", "failed"}]
    /\ exec \in [Attempts -> {"none", "running", "returned", "persisted"}]
    /\ host \in [Attempts -> Procs \cup {Nobody}] /\ dlock \in [Attempts -> Procs \cup {Nobody}]
    /\ proc \in [Procs -> [pc : Pcs, att : 0 .. NumAttempts, attached : BOOLEAN, known : BOOLEAN,
                           tries : Nat, todo : SUBSET Attempts,
                           then : {"none", "finish", "late", "succeeded", "failed", "retry"}]]
    /\ crashes \in Nat

Init ==
    /\ StoreInit
    /\ bound = [a \in Attempts |-> "none"]
    /\ work = [a \in Attempts |-> "none"] /\ env = [a \in Attempts |-> "none"]
    /\ exec = [a \in Attempts |-> "none"] /\ host = [a \in Attempts |-> Nobody]
    /\ dlock = [a \in Attempts |-> Nobody]
    /\ proc = [p \in Procs |-> Idle]
    /\ stale = {} /\ prepared = {} /\ dropped = {} /\ crashes = 0

At(p, pc)   == proc[p].pc = pc
Go(p, pc)   == proc' = [proc EXCEPT ![p].pc = pc]
Return(p)   == proc' = [proc EXCEPT ![p] = Idle]
Holds(p)    == proc[p].att \in Attempts /\ dlock[proc[p].att] = p
Release(p)  == dlock' = [a \in Attempts |-> IF dlock[a] = p THEN Nobody ELSE dlock[a]]
Lock(p, a)  == dlock' = [dlock EXCEPT ![a] = p]
OpenBindings == {a \in Attempts : bound[a] \in Open}

-----------------------------------------------------------------------------
(* Transactions on bindings.                                                   *)

\* bind_worker: the worker attempt, the task and the task attempt are all still running.
Bindable(a) ==
    bound[a] = "none" /\ work[a] = "running" /\ Running(task) /\ atts[a].status = "running"

BindWorker(a) == Bindable(a) /\ bound' = [bound EXCEPT ![a] = "active"]

\* settle_worker_binding: without effect on a binding that has an outcome.
SettleWorkerBinding(a, status) ==
    bound' = [bound EXCEPT ![a] = IF @ \in Open THEN status ELSE @]

\* cancel_worker_tree, for a worker without children.
CancelWorker(a) == work' = [work EXCEPT ![a] = IF @ = "running" THEN "finished" ELSE @]

\* The guards of complete_worker_binding.
Deliverable(a) ==
    /\ bound[a] \in Open
    /\ Running(task) /\ atts[a].status = "running"
    /\ work[a] = "finished"
    /\ run.status \notin Terminal

\* complete_worker_binding: task, attempt, binding, evaluation and run in one transaction.
CompleteWorkerBinding(a, outcome) ==
    /\ tasks' = [tasks EXCEPT ![task].state = IF outcome = "retry" THEN "ready" ELSE outcome]
    /\ atts' = [atts EXCEPT ![a].status = IF outcome = "retry" THEN "failed" ELSE outcome]
    /\ bound' = [bound EXCEPT ![a] = "settled"]
    /\ passed' = IF outcome = "succeeded" THEN passed \cup {a} ELSE passed
    /\ run' = [run EXCEPT !.status = IF @ = "cancelled" THEN @ ELSE DerivedStatus']

-----------------------------------------------------------------------------
(* run_worker_agent, up to a bound and running worker.                         *)

\* Refused for a run that has its outcome.
Call(p) ==
    /\ At(p, "idle") /\ run.status \notin Terminal
    /\ Go(p, "reconcile")
    /\ UNCHANGED <<store, bound, stale, worker, dlock, prepared, dropped, crashes>>

\* A running worker whose service owner's lock is free: its process died.
Abandoned == {a \in Attempts : work[a] = "running" /\ host[a] = Nobody}

\* WorkerService.reconcile: worker and binding are lost in one transaction.
Reconcile(p) ==
    /\ At(p, "reconcile")
    /\ work' = [a \in Attempts |-> IF a \in Abandoned THEN "finished" ELSE work[a]]
    /\ bound' = [a \in Attempts |->
                   IF a \in Abandoned /\ bound[a] \in Open THEN "lost" ELSE bound[a]]
    /\ Go(p, "lost")
    /\ UNCHANGED <<store, stale, env, exec, host, dlock, prepared, dropped, crashes>>

\* _reconcile_worker_run: the first lost binding found while the task runs fails the task,
\* whichever attempt is running by now.
SettleLost(p) ==
    LET gone == {a \in Attempts : bound[a] = "lost"} IN
    /\ At(p, "lost")
    /\ IF gone # {} /\ Running(task)
         THEN \E a \in Attempts : First(a, gone) /\ FinishTask(task, a, FALSE)
         ELSE UNCHANGED ledger
    /\ Go(p, "settle_call")
    /\ UNCHANGED <<artifacts, bound, stale, worker, dlock, prepared, dropped, crashes>>

SettleCall(p) ==
    /\ At(p, "settle_call")
    /\ SettleRun
    /\ Go(p, "attach")
    /\ UNCHANGED <<artifacts, bound, stale, worker, dlock, prepared, dropped, crashes>>

\* Attach to the open binding when it is paired with a running attempt.
Attach(p) ==
    /\ At(p, "attach") /\ OpenBindings # {}
    /\ \/ \E a \in OpenBindings :
            /\ OpenBindings = {a}
            /\ Running(task) /\ atts[a].status = "running"
            /\ proc' = [proc EXCEPT ![p] =
                          [Idle EXCEPT !.pc = "wait", !.att = a, !.attached = TRUE, !.known = TRUE,
                                       !.tries = tasks[task].attempts]]
       \/ /\ ~ \E a \in OpenBindings :
                 OpenBindings = {a} /\ Running(task) /\ atts[a].status = "running"
          /\ Return(p)
    /\ UNCHANGED <<store, bound, stale, worker, dlock, prepared, dropped, crashes>>

\* No open binding: the task must be ready to be delegated.
Select(p) ==
    /\ At(p, "attach") /\ OpenBindings = {}
    /\ IF tasks[task].state \in {"ready", "uncertain"}
         THEN proc' = [proc EXCEPT ![p].pc = "budget", ![p].tries = tasks[task].attempts]
         ELSE Return(p)
    /\ UNCHANGED <<store, bound, stale, worker, dlock, prepared, dropped, crashes>>

CheckBudget(p) ==
    /\ At(p, "budget")
    /\ IF tasks[task].attempts >= MaxAttempts
         THEN FailBudget("max_attempts") /\ Return(p)
         ELSE UNCHANGED ledger /\ Go(p, "claim")
    /\ UNCHANGED <<artifacts, bound, stale, worker, dlock, prepared, dropped, crashes>>

Claim(p) ==
    /\ At(p, "claim")
    /\ \/ \E a \in Attempts :
            /\ First(a, Unused) /\ ClaimTask(task, a, FALSE)
            /\ proc' = [proc EXCEPT ![p].pc = "dispatch", ![p].att = a]
       \/ /\ tasks[task].state \notin {"pending", "ready", "uncertain"}
          /\ Return(p)
          /\ UNCHANGED ledger
    /\ UNCHANGED <<artifacts, bound, stale, worker, dlock, prepared, dropped, crashes>>

\* WorkerService.dispatch up to the before_start callback: the worker attempt is running, its
\* execution not yet submitted.
Dispatch(p) ==
    LET a == proc[p].att IN
    /\ At(p, "dispatch")
    /\ work' = [work EXCEPT ![a] = "running"]
    /\ host' = [host EXCEPT ![a] = p]
    /\ Go(p, "bind")
    /\ UNCHANGED <<store, bound, stale, env, exec, dlock, prepared, dropped, crashes>>

Bind(p) ==
    /\ At(p, "bind")
    /\ BindWorker(proc[p].att)
    /\ Go(p, "inputs")
    /\ UNCHANGED <<store, stale, worker, dlock, prepared, dropped, crashes>>

\* The callback staged the inputs: the execution goes to the pool and dispatch returns.
Submit(p) ==
    LET a == proc[p].att IN
    /\ At(p, "inputs")
    /\ exec' = [exec EXCEPT ![a] = "running"]
    /\ proc' = [proc EXCEPT ![p].pc = "wait", ![p].known = TRUE]
    /\ UNCHANGED <<store, bound, stale, work, env, host, dlock, prepared, dropped, crashes>>

\* The callback raised, before or after the binding was committed: settle_worker, re-raise.
StartFails(p) ==
    LET a == proc[p].att IN
    /\ \/ At(p, "bind") /\ ~ Bindable(a)
       \/ At(p, "inputs") /\ "raise" \in Environment
    /\ CancelWorker(a)
    /\ Go(p, "failing")
    /\ UNCHANGED <<store, bound, stale, env, exec, host, dlock, prepared, dropped, crashes>>

-----------------------------------------------------------------------------
(* The thread that executes a worker (WorkerService._execute).                 *)

\* The adapter returned and the attempt is still running.
AdapterReturns(a) ==
    /\ exec[a] = "running" /\ work[a] = "running"
    /\ exec' = [exec EXCEPT ![a] = "returned"]
    /\ UNCHANGED <<store, bound, stale, work, env, host, dlock, prepared, proc, dropped, crashes>>

\* The attempt was stopped: the fallback envelope is persisted, settle_worker has no effect.
ExecutionStops(a) ==
    /\ exec[a] = "running" /\ work[a] = "finished"
    /\ exec' = [exec EXCEPT ![a] = "none"]
    /\ env' = [env EXCEPT ![a] = "failed"]
    /\ UNCHANGED <<store, bound, stale, work, host, dlock, prepared, proc, dropped, crashes>>

PersistResult(a) ==
    /\ exec[a] = "returned"
    /\ \E status \in {"succeeded", "failed"} : env' = [env EXCEPT ![a] = status]
    /\ exec' = [exec EXCEPT ![a] = "persisted"]
    /\ UNCHANGED <<store, bound, stale, work, host, dlock, prepared, proc, dropped, crashes>>

SettleWorker(a) ==
    /\ exec[a] = "persisted"
    /\ CancelWorker(a)
    /\ exec' = [exec EXCEPT ![a] = "none"]
    /\ UNCHANGED <<store, bound, stale, env, host, dlock, prepared, proc, dropped, crashes>>

-----------------------------------------------------------------------------
(* Observation, and the reservation of the delivery.                           *)

Wait(p) ==
    /\ At(p, "wait") /\ work[proc[p].att] = "finished"
    /\ Go(p, "look")
    /\ UNCHANGED <<store, bound, stale, worker, dlock, prepared, dropped, crashes>>

\* WorkerObservationTimeout leaves everything as it is.
ObservationTimeout(p) ==
    /\ "timeout" \in Environment
    /\ \/ At(p, "wait") /\ work[proc[p].att] = "running"
       \/ At(p, "sleep")
    /\ Return(p)
    /\ UNCHANGED <<store, bound, stale, worker, dlock, prepared, dropped, crashes>>

\* The dispatching call fails outside the lock: an event cannot be written, wait raises.
DispatcherRaises(p) ==
    /\ "race" \in Environment
    /\ At(p, "wait") /\ ~ proc[p].attached
    /\ Go(p, "failing")
    /\ UNCHANGED <<store, bound, stale, worker, dlock, prepared, dropped, crashes>>

\* A settled binding is the result of another observer.  Otherwise try the lock.
Look(p) ==
    LET a == proc[p].att IN
    /\ At(p, "look")
    /\ \/ bound[a] = "settled" /\ Return(p) /\ UNCHANGED dlock
       \/ bound[a] \notin Open \cup {"settled"} /\ Go(p, "failing") /\ UNCHANGED dlock
       \/ bound[a] \in Open /\ dlock[a] = Nobody /\ Lock(p, a) /\ Go(p, "locked")
       \/ bound[a] \in Open /\ dlock[a] # Nobody /\ Go(p, "sleep") /\ UNCHANGED dlock
    /\ UNCHANGED <<store, bound, stale, worker, prepared, dropped, crashes>>

\* Somebody else is delivering: look again, unless the observation has timed out by then.
Sleep(p) ==
    /\ At(p, "sleep")
    /\ Go(p, "look")
    /\ UNCHANGED <<store, bound, stale, worker, dlock, prepared, dropped, crashes>>

\* Fault: the reservation of a dead deliverer is never re-opened.
TakableActiveOnly(a) == bound[a] = "active"

\* Not reserved, or reserved by somebody whose lease ran out.
Takable(a) == bound[a] = "active" \/ (bound[a] = "delivering" /\ a \in stale)

\* Under the lock the status is read again, and a stale reservation re-opened
\* (recover_worker_binding_delivery).
Locked(p) ==
    LET a == proc[p].att IN
    /\ At(p, "locked")
    /\ \/ /\ Takable(a)
          /\ bound' = [bound EXCEPT ![a] = "active"]
          /\ Go(p, "reserve")
          /\ UNCHANGED dlock
       \/ /\ ~ Takable(a)
          /\ Release(p) /\ Go(p, IF bound[a] \in Open THEN "sleep" ELSE "look")
          /\ UNCHANGED bound
    /\ UNCHANGED <<store, stale, worker, prepared, dropped, crashes>>

\* Fault: the lock is closed once the binding is reserved.
ReserveUnlocked(p) ==
    LET a == proc[p].att IN
    /\ At(p, "reserve")
    /\ Release(p)
    /\ IF bound[a] = "active"
         THEN /\ bound' = [bound EXCEPT ![a] = "delivering"] /\ stale' = stale \ {a}
              /\ Go(p, "clean")
         ELSE Go(p, "sleep") /\ UNCHANGED <<bound, stale>>
    /\ UNCHANGED <<store, worker, prepared, dropped, crashes>>

\* claim_worker_binding_delivery starts a new lease.
Reserve(p) ==
    LET a == proc[p].att IN
    /\ At(p, "reserve")
    /\ IF bound[a] = "active"
         THEN /\ bound' = [bound EXCEPT ![a] = "delivering"] /\ stale' = stale \ {a}
              /\ Go(p, "clean") /\ UNCHANGED dlock
         ELSE Release(p) /\ Go(p, "sleep") /\ UNCHANGED <<bound, stale>>
    /\ UNCHANGED <<store, worker, prepared, dropped, crashes>>

LeaseExpires(a) ==
    /\ bound[a] = "delivering" /\ a \notin stale
    /\ stale' = stale \cup {a}
    /\ UNCHANGED <<store, bound, worker, dlock, prepared, proc, dropped, crashes>>

-----------------------------------------------------------------------------
(* _discard_late_result: the rows in one transaction, then the files.  It is   *)
(* called before staging, for a refused delivery, on failure and by cancel.    *)

DiscardRows(p) ==
    LET a == proc[p].att IN
    /\ proc[p].pc \in {"clean", "undo", "late", "drop"}
    /\ results' = results \ {a}
    /\ outputs' = outputs \ (prepared \cap {a})
    /\ proc' = [proc EXCEPT ![p].pc = CASE @ = "clean" -> "clean_file" [] @ = "undo" -> "undo_file"
                                        [] @ = "late" -> "late_file" [] @ = "drop" -> "drop_file"]
    /\ UNCHANGED <<ledger, passed, promoted, file, bound, stale, worker, dlock, prepared, dropped,
                   crashes>>

\* The output path is unlinked when the attempt prepared it, whoever wrote it last.
DiscardFiles(p) ==
    LET a == proc[p].att IN
    /\ proc[p].pc \in {"clean_file", "undo_file", "late_file", "drop_file"}
    /\ file' = IF a \in prepared THEN [file EXCEPT ![task] = NoAttempt] ELSE file
    /\ proc' = [proc EXCEPT ![p].pc = CASE @ = "clean_file" -> "stage" [] @ = "undo_file" -> "undone"
                                        [] @ = "late_file" -> "settle_run"
                                        [] @ = "drop_file" -> "drop_next",
                            ![p].todo = @ \ {a}]
    /\ IF At(p, "drop_file") THEN Release(p) ELSE UNCHANGED dlock
    /\ UNCHANGED <<ledger, passed, results, outputs, promoted, bound, stale, worker, prepared,
                   dropped, crashes>>

-----------------------------------------------------------------------------
(* Delivery, under the lock.                                                    *)

\* The envelope is read and the result and runtime artifacts are copied and indexed.
Stage(p) ==
    LET a == proc[p].att IN
    /\ At(p, "stage")
    /\ IF env[a] = "none" THEN Go(p, "failing") /\ UNCHANGED results
                          ELSE Go(p, "evaluate") /\ results' = results \cup {a}
    /\ UNCHANGED <<ledger, passed, outputs, promoted, file, bound, stale, worker, dlock, prepared,
                   dropped, crashes>>

\* The outcome to commit.  tries was read before the claim by the dispatcher, after it by an
\* attached observer.
Evaluate(p) ==
    LET a == proc[p].att
        rejected == IF proc[p].tries + 1 < MaxRetries THEN "retry" ELSE "failed" IN
    /\ At(p, "evaluate")
    /\ \/ env[a] = "failed" /\ proc' = [proc EXCEPT ![p].pc = "complete", ![p].then = "failed"]
       \/ env[a] = "succeeded" /\ proc' = [proc EXCEPT ![p].pc = "prepare", ![p].then = "succeeded"]
       \/ /\ env[a] = "succeeded" /\ "reject" \in Environment
          /\ proc' = [proc EXCEPT ![p].pc = "complete", ![p].then = rejected]
    /\ UNCHANGED <<store, bound, stale, worker, dlock, prepared, dropped, crashes>>

\* _promote_algorithm_outputs: announce the path, replace the file, index it, record the batch.
PrepareOutput(p) ==
    /\ At(p, "prepare")
    /\ prepared' = prepared \cup {proc[p].att}
    /\ Go(p, "copy")
    /\ UNCHANGED <<store, bound, stale, worker, dlock, dropped, crashes>>

CopyOutput(p) ==
    /\ At(p, "copy")
    /\ file' = [file EXCEPT ![task] = proc[p].att]
    /\ Go(p, "record")
    /\ UNCHANGED <<ledger, passed, results, outputs, promoted, bound, stale, worker, dlock, prepared,
                   dropped, crashes>>

RecordOutput(p) ==
    /\ At(p, "record")
    /\ outputs' = outputs \cup {proc[p].att}
    /\ Go(p, "promote")
    /\ UNCHANGED <<ledger, passed, results, promoted, file, bound, stale, worker, dlock, prepared,
                   dropped, crashes>>

PromoteOutput(p) ==
    /\ At(p, "promote")
    /\ promoted' = promoted \cup {proc[p].att}
    /\ Go(p, "complete")
    /\ UNCHANGED <<ledger, passed, results, outputs, file, bound, stale, worker, dlock, prepared,
                   dropped, crashes>>

\* Commit, or find out that the delivery came too late.
Complete(p) ==
    LET a == proc[p].att IN
    /\ At(p, "complete")
    /\ \/ /\ Deliverable(a)
          /\ CompleteWorkerBinding(a, proc[p].then)
          /\ Release(p) /\ Return(p)
       \/ /\ ~ Deliverable(a)
          /\ IF bound[a] = "settled" /\ atts[a].status \in {"succeeded", "failed"}
               THEN Release(p) /\ Return(p)
               ELSE Go(p, "undo") /\ UNCHANGED dlock
          /\ UNCHANGED <<ledger, passed, bound>>
    /\ UNCHANGED <<results, outputs, promoted, file, stale, worker, prepared, dropped, crashes>>

\* Any step under the lock raises: a changed artifact, a missing output, a full disk.
DeliveryRaises(p) ==
    /\ "raise" \in Environment
    /\ proc[p].pc \in Staging \cup {"locked", "reserve", "clean", "clean_file"}
    /\ Go(p, "failing")
    /\ UNCHANGED <<store, bound, stale, worker, dlock, prepared, dropped, crashes>>

\* _check_budget before and after staging and before the commit.  The limit stands for every
\* limit that is checked there.
OverBudget(p) ==
    /\ "budget" \in Environment
    /\ proc[p].pc \in {"stage", "evaluate", "complete"}
    /\ FailBudget("max_runtime_seconds")
    /\ proc' = [proc EXCEPT ![p].pc = "stop", ![p].then = "late"]
    /\ UNCHANGED <<artifacts, bound, stale, worker, dlock, prepared, dropped, crashes>>

-----------------------------------------------------------------------------
(* The exception handlers, and cancel.                                         *)

\* Fault: after a cancellation the handler leaves the evidence to the canceller.
FailingTrustsCancel(p) ==
    LET a == proc[p].att
        leave == (proc[p].attached /\ ~ Holds(p)) \/ bound[a] \in {"settled", "discarded"} IN
    /\ At(p, "failing")
    /\ IF leave
         THEN Release(p) /\ Return(p)
         ELSE /\ proc' = [proc EXCEPT ![p].pc = "stop", ![p].then = "finish"]
              /\ UNCHANGED dlock
    /\ UNCHANGED <<store, bound, stale, worker, prepared, dropped, crashes>>

\* An attached observer without the lock owns nothing, and a settled binding is left alone.  Before
\* dispatch returned, the worker is looked up by its active binding.
Failing(p) ==
    LET a == proc[p].att
        leave == \/ proc[p].attached /\ ~ Holds(p)
                 \/ proc[p].known /\ bound[a] = "settled" IN
    /\ At(p, "failing")
    /\ IF leave
         THEN Release(p) /\ Return(p)
         ELSE /\ proc' = [proc EXCEPT
                            ![p].pc = IF proc[p].known \/ bound[a] = "active" THEN "stop" ELSE "finish",
                            ![p].then = "finish"]
              /\ UNCHANGED dlock
    /\ UNCHANGED <<store, bound, stale, worker, prepared, dropped, crashes>>

\* WorkerService.cancel on the bound worker.
Stop(p) ==
    /\ proc[p].pc \in {"stop", "cancel_stop"}
    /\ CancelWorker(proc[p].att)
    /\ Go(p, IF At(p, "stop") THEN "settle" ELSE "cancel_settle")
    /\ UNCHANGED <<store, bound, stale, env, exec, host, dlock, prepared, dropped, crashes>>

SettleDiscarded(p) ==
    /\ proc[p].pc \in {"undone", "settle", "cancel_settle"}
    /\ SettleWorkerBinding(proc[p].att, "discarded")
    /\ Go(p, CASE At(p, "undone") -> "failing" [] At(p, "settle") -> proc[p].then
               [] At(p, "cancel_settle") -> "cancel_list")
    /\ UNCHANGED <<store, stale, worker, dlock, prepared, dropped, crashes>>

Finish(p) ==
    /\ At(p, "finish")
    /\ IF Running(task) THEN FinishTask(task, proc[p].att, FALSE) ELSE UNCHANGED ledger
    /\ Go(p, "late")
    /\ UNCHANGED <<artifacts, bound, stale, worker, dlock, prepared, dropped, crashes>>

\* settle_run, then the finally block closes the lock.
FailureEnds(p) ==
    /\ At(p, "settle_run")
    /\ SettleRun
    /\ Release(p) /\ Return(p)
    /\ UNCHANGED <<artifacts, bound, stale, worker, prepared, dropped, crashes>>

\* cancel goes on when the run was cancelled before.
Cancel(p) ==
    /\ "cancel" \in Environment
    /\ At(p, "idle")
    /\ CancelRun \/ (run.status = "cancelled" /\ UNCHANGED ledger)
    /\ Go(p, "cancel_list")
    /\ UNCHANGED <<artifacts, bound, stale, worker, dlock, prepared, dropped, crashes>>

\* The open bindings, one after the other.
CancelList(p) ==
    /\ At(p, "cancel_list")
    /\ IF OpenBindings = {}
         THEN proc' = [proc EXCEPT ![p].pc = "drop_next",
                                   ![p].todo = {a \in Attempts : bound[a] = "discarded"}]
         ELSE \E a \in Attempts :
                First(a, OpenBindings)
                /\ proc' = [proc EXCEPT ![p].pc = "cancel_stop", ![p].att = a]
    /\ UNCHANGED <<store, bound, stale, worker, dlock, prepared, dropped, crashes>>

\* Whoever holds the lock of a discarded binding will discard before it is released.
DropNext(p) ==
    /\ At(p, "drop_next")
    /\ \/ proc[p].todo = {} /\ Return(p) /\ UNCHANGED dlock
       \/ \E a \in Attempts :
            /\ First(a, proc[p].todo)
            /\ IF dlock[a] = Nobody
                 THEN Lock(p, a) /\ proc' = [proc EXCEPT ![p].pc = "drop", ![p].att = a]
                 ELSE proc' = [proc EXCEPT ![p].todo = @ \ {a}] /\ UNCHANGED dlock
    /\ UNCHANGED <<store, bound, stale, worker, prepared, dropped, crashes>>

-----------------------------------------------------------------------------
(* Outside events.                                                              *)

\* The process dies with its threads and its locks; another one takes its place.
Crash(p) ==
    /\ crashes < MaxCrashes
    /\ ~ At(p, "idle") \/ \E a \in Attempts : host[a] = p /\ work[a] = "running"
    /\ Return(p) /\ Release(p)
    /\ host' = [a \in Attempts |-> IF host[a] = p THEN Nobody ELSE host[a]]
    /\ exec' = [a \in Attempts |-> IF host[a] = p THEN "none" ELSE exec[a]]
    /\ dropped' = dropped \cup {a \in Attempts : dlock[a] = p}
    /\ crashes' = crashes + 1
    /\ UNCHANGED <<store, bound, stale, work, env, prepared>>

\* A failed run gets a new plan version with the same task (commit_plan_revision; module
\* Scheduler has its races).
Revise ==
    /\ run.status = "failed" /\ run.version < MaxVersions
    /\ MayRevise(FirstPlan)
    /\ CommitPlanRevision(run.version, tasks, FirstPlan)
    /\ UNCHANGED <<artifacts, bound, stale, worker, dlock, prepared, proc, dropped, crashes>>

\* The steps of a call once it has begun.
Step(p) ==
    \/ Reconcile(p) \/ SettleLost(p) \/ SettleCall(p) \/ Attach(p) \/ Select(p) \/ CheckBudget(p)
    \/ Claim(p) \/ Dispatch(p) \/ Bind(p) \/ Submit(p) \/ StartFails(p)
    \/ Wait(p) \/ Look(p) \/ Sleep(p) \/ Locked(p) \/ Reserve(p) \/ DiscardRows(p) \/ DiscardFiles(p)
    \/ Stage(p) \/ Evaluate(p) \/ PrepareOutput(p) \/ CopyOutput(p) \/ RecordOutput(p)
    \/ PromoteOutput(p) \/ Complete(p)
    \/ Failing(p) \/ Stop(p) \/ SettleDiscarded(p) \/ Finish(p) \/ FailureEnds(p)
    \/ CancelList(p) \/ DropNext(p)

Execution(a) == AdapterReturns(a) \/ ExecutionStops(a) \/ PersistResult(a) \/ SettleWorker(a)

Next ==
    \/ \E p \in Procs :
         \/ Step(p) \/ Call(p) \/ Cancel(p) \/ ObservationTimeout(p) \/ DispatcherRaises(p)
         \/ DeliveryRaises(p) \/ OverBudget(p) \/ Crash(p)
    \/ \E a \in Attempts : Execution(a) \/ LeaseExpires(a)

\* A process that is in a call goes on, adapters return, time passes, and a client that has no
\* answer asks again.
Fairness ==
    /\ \A p \in Procs : WF_vars(Step(p)) /\ WF_vars(Call(p))
    /\ \A a \in Attempts : WF_vars(Execution(a)) /\ WF_vars(LeaseExpires(a))

Spec     == Init /\ [][Next]_vars
FairSpec == Spec /\ Fairness

\* The same with plan revisions.
RevisedSpec == Init /\ [][Next \/ Revise]_vars

-----------------------------------------------------------------------------
(* Properties.                                                                  *)

\* "The live delivery owner will discard before releasing its lock": evidence of an attempt whose
\* binding was discarded or lost exists only while somebody holds the delivery lock, or when the
\* holder was killed.
LateEvidenceIsOwned ==
    \A a \in Attempts :
      /\ bound[a] \in {"none", "active", "discarded", "lost"}
      /\ a \in results \cup outputs \/ file[task] = a
      => dlock[a] # Nobody \/ a \in dropped

Evidence(a) == <<a \in results, a \in outputs, file[task] = a>>

\* A delivery is committed with its evidence complete (the result, for a success also the output's
\* row and its bytes at the run-level path), and nobody removes it: no deliverer that takes over,
\* no attached observer, no cancel.  The one exception the code has is the handler of the
\* dispatching call, when that call failed without the lock.
SettledEvidenceStays ==
    [][\A a \in Attempts :
         /\ bound[a] # "settled" /\ bound'[a] = "settled" =>
              a \in results /\ (atts'[a].status = "succeeded" => a \in outputs /\ file[task] = a)
         /\ bound[a] = "settled" /\ Evidence(a)' # Evidence(a) =>
              \E p \in Procs : /\ proc[p].att = a /\ proc[p].pc \in {"late", "late_file"}
                               /\ ~ proc[p].attached /\ dlock[a] # p]_vars

\* Nobody stages for a binding that another observer could reserve or has committed.
StagerOwnsBinding ==
    \A p \in Procs :
      proc[p].pc \in Staging =>
        /\ bound[proc[p].att] \in {"delivering", "discarded"}
        /\ \A q \in Procs : q # p /\ proc[q].pc \in Staging => proc[q].att # proc[p].att

\* Evidence under staging or left behind always has one owner who answers for it.
EvidenceIsOwned == TypeOK /\ LateEvidenceIsOwned /\ StagerOwnsBinding

\* Half of the assertion of run_worker_agent, "active worker binding is not paired with a running
\* attempt": while the attempt of an open binding runs, its task runs too.
BindingIsPaired ==
    \A a \in OpenBindings : atts[a].status = "running" => Running(task)

\* The open binding of a running attempt gets an outcome: through a crash of the deliverer or of
\* the worker's host, observation timeouts and failures of single calls, somebody delivers it,
\* declares it lost or gives it up, or the run ends and the attempt with it.
BindingIsDecided ==
    \A a \in Attempts :
      (bound[a] \in Open /\ atts[a].status = "running")
        ~> (bound[a] \notin Open \/ atts[a].status # "running")
=============================================================================
