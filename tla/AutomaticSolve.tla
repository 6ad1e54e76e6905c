--------------------------- MODULE AutomaticSolve ---------------------------
(***************************************************************************)
(* An automatic solve: intake, preparation of its evaluator, one evolution *)
(* child and delivery to the parent, coordinated by one process at a time. *)
(* A call of the command line coordinates in the foreground, or launches a *)
(* detached worker that inherits its workspace lock and waits at a gate.   *)
(* Everyone may be killed anywhere; a user may cancel; the wall time of    *)
(* the solve may run out.                                                  *)
(***************************************************************************)
EXTENDS Integers, Sequences

CONSTANTS
    Invocations,           \* calls of the command line
    MaxStarts,       \* bound on preparations that are started
    Crashes          \* whether processes are killed from outside

VARIABLES
    pc,              \* where each process is
    gate,            \* launches that gave permission
    solve,           \* the ledger: parent run, child run, and events
    work,            \* the local process of a candidate, and its registration
    stop             \* a user's cancel

solveVars == <<pc, gate, solve, work, stop>>

Nobody == "nobody"
ASSUME SolveAssumption == Nobody \notin Invocations
Caller(c) == <<c, "caller">>
Worker(c) == <<c, "worker">>
Processes == Invocations \X {"caller", "worker"}

NoWork == [live |-> FALSE, row |-> FALSE]
Alive(p) == pc[p] \notin {"idle", "over"}

Holds(p) == Alive(p) /\ pc[p] # "leaving"

\* Fault: the lock is the caller's alone.
LockedByCaller(c) == \E d \in Invocations \ {c} : Holds(Caller(d))

\* flock on the description that a call opened; its worker inherits it.
Locked(c) == \E d \in Invocations \ {c} : Holds(Caller(d)) \/ Holds(Worker(d))

AtStep(p, step) == pc[p] = step
GoTo(p, step) == pc' = [pc EXCEPT ![p] = step]
Stay == UNCHANGED <<gate, work, stop>>

Terminal(status) == status \in {"succeeded", "failed", "cancelled"}
Stopped == Terminal(solve.status) \/ solve.status = "awaiting"

---------------------------------------------------------------------------
(* The ledger                                                              *)

\* finish_task
Finished(state, ok) == IF state # "running" THEN state ELSE IF ok THEN "succeeded" ELSE "failed"

\* settle_run
Settled(tasks) ==
    LET states == {tasks[k] : k \in DOMAIN tasks} \ {"none"} IN
    IF solve.status = "cancelled" \/ (solve.status = "failed" /\ solve.budget) THEN solve.status
    ELSE IF states \cap {"failed", "blocked"} # {} THEN "failed"
    ELSE IF states \subseteq {"succeeded", "superseded"} /\ "succeeded" \in states THEN "succeeded"
    ELSE IF "waiting" \in states THEN "awaiting"
    ELSE IF "cancelled" \in states THEN "cancelled" ELSE "running"

WithTasks(tasks) == [solve EXCEPT !.tasks = tasks, !.status = Settled(tasks)]
WithOrchestration(ok) == WithTasks([solve.tasks EXCEPT !.orchestration = Finished(@, ok)])

\* recover_running
Recovered(tasks) == [k \in DOMAIN tasks |-> IF tasks[k] = "running" THEN "uncertain" ELSE tasks[k]]

\* cancel_run of the parent
Cancelled ==
    IF Terminal(solve.status) THEN solve
    ELSE [solve EXCEPT !.status = "cancelled",
                       !.tasks = [k \in DOMAIN @ |-> IF @[k] \in {"none", "succeeded", "failed", "superseded"} THEN @[k] ELSE "cancelled"]]

\* fail_budget of the parent: the wall time
OutOfTime ==
    IF Terminal(solve.status) THEN solve
    ELSE [solve EXCEPT !.status = "failed", !.budget = TRUE,
                       !.tasks = [k \in DOMAIN @ |->
                           IF @[k] \in {"none", "succeeded", "failed", "superseded"} THEN @[k]
                           ELSE IF k = "orchestration" THEN "failed" ELSE IF @[k] = "uncertain" THEN @[k] ELSE "blocked"]]

\* cancel_run and fail_budget of the child
ChildEnds(ledger, status) == IF Terminal(ledger.child) THEN ledger ELSE [ledger EXCEPT !.child = status]

\* _automatic_cancel_targets: the links of parent and child agree.
Verified == solve.link # "up"

\* claim_runner_process
ClaimsRunner(c) == solve.runner = Nobody /\ solve.status = "running"

\* clear_runner_process with the worker's identity
Cleared(ledger, c) == IF ledger.runner = c THEN [ledger EXCEPT !.runner = Nobody] ELSE ledger

\* validate_automatic_preparation_recovery: one interrupted start, or a failure that allows it.
MayPrepare ==
    \/ solve.prepared \/ solve.log = << >>
    \/ solve.log = <<"started">>
    \/ solve.log # << >> /\ solve.log[Len(solve.log)] = "recoverable"

---------------------------------------------------------------------------
(* Ownership and continuation                                              *)

\* _continue_automatic_solve, own_automatic_solve
Own(c) ==
    /\ AtStep(Caller(c), "idle") /\ GoTo(Caller(c), IF Stopped \/ Locked(c) THEN "over" ELSE "owned")
    /\ UNCHANGED solve /\ Stay

\* Other coordinators have exited.
OthersExited(p) == \A c \in Invocations : solve.runner = c /\ p # Worker(c) => ~Alive(Worker(c))

\* prepare_automatic_continuation: what the last owner left is stopped and cleared, or nothing is done.
Admit(p) ==
    /\ AtStep(p, "owned")
    /\ \/ /\ ~Stopped /\ MayPrepare /\ Verified /\ OthersExited(p)
          /\ GoTo(p, "cleaned") /\ work' = IF work.row THEN NoWork ELSE work
          /\ solve' = [solve EXCEPT !.runner = IF @ # Nobody /\ p = Worker(@) THEN @ ELSE Nobody]
       \/ /\ Stopped \/ ~MayPrepare \/ ~Verified \/ ~OthersExited(p) \/ work.row
          /\ GoTo(p, "ending") /\ UNCHANGED <<solve, work>>
    /\ UNCHANGED <<gate, stop>>

Recover(p) ==
    /\ AtStep(p, "cleaned")
    /\ IF Stopped THEN GoTo(p, "ending") /\ UNCHANGED solve
       ELSE GoTo(p, "admitted") /\ solve' = [solve EXCEPT !.tasks = Recovered(@)]
    /\ Stay

\* _answer, under the same ownership
Answer(c) ==
    /\ AtStep(Caller(c), "idle") /\ solve.status = "awaiting" /\ ~Locked(c)
    /\ MayPrepare /\ Verified /\ OthersExited(Caller(c))
    /\ GoTo(Caller(c), "admitted")
    /\ solve' = [solve EXCEPT !.status = "running", !.tasks.intake = "ready", !.runner = Nobody]
    /\ work' = (IF work.row THEN NoWork ELSE work) /\ UNCHANGED <<gate, stop>>

\* launch_automatic_solve: spawn, register, then open the gate.
LaunchWorker(c) ==
    /\ AtStep(Caller(c), "admitted")
    /\ pc' = [pc EXCEPT ![Caller(c)] = "spawned", ![Worker(c)] = "waiting"]
    /\ UNCHANGED solve /\ Stay

Claim(c) ==
    /\ AtStep(Caller(c), "spawned")
    /\ IF ClaimsRunner(c) THEN GoTo(Caller(c), "claimed") /\ solve' = [solve EXCEPT !.runner = c]
       ELSE GoTo(Caller(c), "failing") /\ UNCHANGED solve
    /\ Stay

OpenGate(c) ==
    /\ AtStep(Caller(c), "claimed")
    /\ IF Stopped \/ ~Alive(Worker(c)) THEN GoTo(Caller(c), "failing") /\ UNCHANGED gate
       ELSE GoTo(Caller(c), "over") /\ gate' = gate \cup {c}
    /\ UNCHANGED <<solve, work, stop>>

\* The launcher reaps its own child and clears only that child's registration.
LaunchFails(c) ==
    /\ AtStep(Caller(c), "failing")
    /\ pc' = [pc EXCEPT ![Caller(c)] = "over", ![Worker(c)] = "over"] /\ solve' = Cleared(solve, c)
    /\ Stay

\* Fault: the worker holds the gate's other end too.
GateDeaf(c) ==
    /\ AtStep(Worker(c), "waiting") /\ c \in gate
    /\ GoTo(Worker(c), IF ~Stopped /\ solve.runner = c THEN "owned" ELSE "leaving")
    /\ UNCHANGED solve /\ Stay

\* The worker reads the gate, or the end of it, then checks that it is still wanted.
Gate(c) ==
    /\ AtStep(Worker(c), "waiting") /\ (c \in gate \/ ~Alive(Caller(c)))
    /\ GoTo(Worker(c), IF c \in gate /\ ~Stopped /\ solve.runner = c THEN "owned" ELSE "leaving")
    /\ UNCHANGED solve /\ Stay

Coordinate(p) == AtStep(p, "admitted") /\ GoTo(p, "intake") /\ UNCHANGED solve /\ Stay

\* The end of a coordinator: a worker stops what it registered, while it is the runner.
Ending(p) ==
    /\ AtStep(p, "ending") /\ GoTo(p, IF p[2] = "worker" THEN "leaving" ELSE "over")
    /\ work' = IF p = Worker(solve.runner) /\ Verified /\ work.row THEN NoWork ELSE work
    /\ UNCHANGED <<gate, solve, stop>>

\* The worker's last write, after it gave up the lock.
LeaveWorker(c) == AtStep(Worker(c), "leaving") /\ GoTo(Worker(c), "over") /\ solve' = Cleared(solve, c) /\ Stay

---------------------------------------------------------------------------
(* Intake and preparation                                                  *)

\* _compile_conversational_run
Intake(p) ==
    /\ AtStep(p, "intake")
    /\ IF solve.tasks.plan # "none" THEN GoTo(p, "orchestrate") /\ UNCHANGED solve
       ELSE IF solve.tasks.intake \in {"ready", "uncertain"}
       THEN GoTo(p, "compiling") /\ solve' = [solve EXCEPT !.tasks.intake = "running"]
       ELSE GoTo(p, "ending") /\ UNCHANGED solve
    /\ Stay

\* _parse_response: what the model's answer can be read as
Compiled == {"contract", "question", "error"}

\* await_input
Awaits == [solve EXCEPT !.tasks.intake = "waiting", !.status = "awaiting"]

\* attach_plan_to_run
Attached == [solve EXCEPT !.tasks.plan = "ready"]

\* A result after a stop is discarded.
Compile(p) ==
    /\ AtStep(p, "compiling")
    /\ IF solve.tasks.intake # "running" THEN GoTo(p, "ending") /\ UNCHANGED solve
       ELSE \E result \in Compiled :
              /\ GoTo(p, IF result = "contract" THEN "attached" ELSE "ending")
              /\ solve' = CASE result = "question" -> Awaits
                            [] result = "contract" -> Attached
                            [] OTHER -> WithTasks([solve.tasks EXCEPT !.intake = "failed"])
    /\ Stay

\* The intake task is finished after the plan is attached.
FinishIntake(p) ==
    /\ AtStep(p, "attached") /\ GoTo(p, "orchestrate")
    /\ solve' = WithTasks([solve.tasks EXCEPT !.intake = Finished(@, TRUE)])
    /\ Stay

\* ensure_orchestration_task, claim_orchestration_task, supersede_pending_tasks
Orchestrate(p) ==
    /\ AtStep(p, "orchestrate")
    /\ IF Terminal(solve.status) \/ Terminal(solve.tasks.orchestration) THEN GoTo(p, "ending") /\ UNCHANGED solve
       ELSE GoTo(p, "prepare") /\ solve' = [solve EXCEPT !.tasks.orchestration = "running", !.tasks.plan = "superseded"]
    /\ Stay

\* prepare_automatic_solve_bundle
StartPreparation(p) ==
    /\ AtStep(p, "prepare")
    /\ \/ solve.prepared /\ GoTo(p, "child") /\ UNCHANGED solve
       \/ /\ ~solve.prepared /\ (Terminal(solve.status) \/ ~MayPrepare) /\ GoTo(p, "raised") /\ UNCHANGED solve
       \/ /\ ~solve.prepared /\ ~Terminal(solve.status) /\ MayPrepare /\ Len(solve.log) < MaxStarts
          /\ GoTo(p, "preparing") /\ solve' = [solve EXCEPT !.log = Append(@, "started")]
    /\ Stay

\* A failure is recorded; the parent stays as it is.
PreparationFails(p) ==
    /\ pc[p] \in {"preparing", "profiled", "registered"} /\ GoTo(p, "ending")
    /\ \E kind \in IF Terminal(solve.status) THEN {"final"} ELSE {"recoverable", "final"} :
         solve' = [solve EXCEPT !.log = Append(@, kind)]
    /\ Stay

\* publication_guard, _write_profile, _artifact_rows, and last the event that authorises them
PrepareBundle(p) ==
    /\ ~Terminal(solve.status)
    /\ \/ AtStep(p, "preparing") /\ GoTo(p, "profiled") /\ solve' = [solve EXCEPT !.profile = TRUE]
       \/ AtStep(p, "profiled") /\ GoTo(p, "registered") /\ solve' = [solve EXCEPT !.rows = TRUE]
       \/ AtStep(p, "registered") /\ GoTo(p, "child") /\ solve' = [solve EXCEPT !.prepared = TRUE]
    /\ Stay

---------------------------------------------------------------------------
(* The child and its work                                                  *)

\* create_evolution_run: the row of the child, then its contract; a row without one is refused later
MakeChild(p) ==
    /\ \/ AtStep(p, "child") /\ solve.link = "none" /\ GoTo(p, "rowed") /\ solve' = [solve EXCEPT !.link = "row"]
       \/ AtStep(p, "child") /\ solve.link = "row" /\ GoTo(p, "raised") /\ UNCHANGED solve
       \/ AtStep(p, "rowed") /\ GoTo(p, "made") /\ solve' = [solve EXCEPT !.link = "made"]
    /\ Stay

\* copy_staged_inputs, at every continuation: the same bytes again, or other bytes that are refused
CopyInputs(p) ==
    /\ AtStep(p, "made") \/ (AtStep(p, "child") /\ solve.link \in {"made", "linked"})
    /\ \/ GoTo(p, IF solve.link = "linked" THEN "evolve" ELSE "inputs") /\ solve' = [solve EXCEPT !.inputs = TRUE]
       \/ GoTo(p, "raised") /\ UNCHANGED solve
    /\ Stay

\* The link on the parent, then the one on the child
Link(p) ==
    /\ \/ AtStep(p, "inputs") /\ GoTo(p, "up") /\ solve' = [solve EXCEPT !.link = "up"]
       \/ AtStep(p, "up") /\ GoTo(p, "evolve") /\ solve' = [solve EXCEPT !.link = "linked"]
    /\ Stay

\* run_evolution: claim, or a child that has ended; one that did not end in its own evidence is refused.
Evolve(p) ==
    /\ AtStep(p, "evolve")
    /\ \E step \in IF ~Terminal(solve.child) THEN {"evolving"}
                   ELSE {"evolved"} \cup (IF solve.child = "succeeded" THEN {} ELSE {"raised"}) : GoTo(p, step)
    /\ UNCHANGED solve /\ Stay

\* continuation_guard
Continues == solve.status \notin {"failed", "cancelled"} /\ solve.child # "cancelled"

\* A candidate's process is admitted, starts, is registered, and only then is the stop looked at.
Guard(p) == AtStep(p, "evolving") /\ GoTo(p, IF Continues THEN "spawn" ELSE "cancel") /\ UNCHANGED solve /\ Stay

Spawn(p) ==
    /\ AtStep(p, "spawn") /\ GoTo(p, "register") /\ work' = [live |-> TRUE, row |-> FALSE]
    /\ UNCHANGED <<gate, solve, stop>>

Register(p) ==
    /\ AtStep(p, "register") /\ GoTo(p, "check") /\ work' = [work EXCEPT !.row = TRUE]
    /\ UNCHANGED <<gate, solve, stop>>

CheckStop(p) ==
    /\ AtStep(p, "check") /\ GoTo(p, "working")
    /\ work' = IF Terminal(solve.status) \/ Terminal(solve.child) THEN NoWork ELSE work
    /\ UNCHANGED <<gate, solve, stop>>

\* The work ends, or its cleanup fails: then both runs do, and the registration stays.
Release(p) ==
    /\ AtStep(p, "working")
    /\ \/ GoTo(p, "evolving") /\ work' = NoWork /\ UNCHANGED solve
       \/ work.row /\ GoTo(p, "cancel") /\ solve' = ChildEnds(OutOfTime, "failed") /\ UNCHANGED work
    /\ UNCHANGED <<gate, stop>>

\* The strategy's result is stored, unless the child was cancelled; an error is an end too.
FinishChild(p) ==
    /\ AtStep(p, "evolving")
    /\ IF ~Continues THEN GoTo(p, "cancel") /\ UNCHANGED solve
       ELSE \/ GoTo(p, "evolved") /\ \E status \in {"succeeded", "failed"} : solve' = ChildEnds(solve, status)
            \/ GoTo(p, "raised") /\ solve' = ChildEnds(solve, "failed")
    /\ Stay

---------------------------------------------------------------------------
(* Delivery and the end                                                    *)

\* _validated: the runs, their links and the preparation still authorise a delivery.
DeliveryReady ==
    /\ solve.status = "running" /\ solve.tasks.orchestration = "running" /\ solve.child = "succeeded"
    /\ solve.prepared /\ solve.link = "linked"

\* _inspect_terminal: the delivery was decided before.
DeliveryDecided == solve.delivery \in {"delivered", "undelivered"}

\* finish_bundle_parent_delivery: a copy that is pinned, the outputs, then the event; delivery_guard before each.
DeliverToParent(p) ==
    /\ pc[p] \in {"evolved", "copied", "published"}
    /\ IF solve.status \in {"failed", "cancelled"} THEN GoTo(p, "cancel") /\ UNCHANGED solve
       ELSE IF solve.child = "cancelled" THEN GoTo(p, "ending") /\ solve' = Cancelled
       ELSE IF solve.child = "failed" THEN GoTo(p, "ending") /\ solve' = WithOrchestration(FALSE)
       ELSE \/ /\ AtStep(p, "evolved") /\ DeliveryReady /\ solve' = [solve EXCEPT !.delivery = IF @ = "none" THEN "copied" ELSE @]
               /\ GoTo(p, IF DeliveryDecided THEN "delivered" ELSE "copied")
            \/ /\ AtStep(p, "copied") /\ DeliveryReady /\ GoTo(p, "published")
               /\ \E outputs \in IF solve.delivery = "copied" THEN {"published", "rolled back"} ELSE {solve.delivery} :
                    solve' = [solve EXCEPT !.delivery = outputs]
            \/ /\ AtStep(p, "published") /\ DeliveryReady /\ GoTo(p, "delivered")
               /\ solve' = [solve EXCEPT !.delivery = IF @ = "published" THEN "delivered" ELSE "undelivered"]
            \/ GoTo(p, "raised") /\ UNCHANGED solve
    /\ Stay

\* finish_child_orchestration
FinishParent(p) ==
    /\ AtStep(p, "delivered")
    /\ IF solve.status \in {"failed", "cancelled"} THEN GoTo(p, "cancel") /\ UNCHANGED solve
       ELSE GoTo(p, "ending") /\ solve' = WithOrchestration(solve.delivery = "delivered")
    /\ Stay

\* Any other error ends the orchestration task.
Raised(p) == AtStep(p, "raised") /\ GoTo(p, "ending") /\ solve' = WithOrchestration(FALSE) /\ Stay

\* SolveExecutionControl.check: the parent fails, and another write fails the child.
Timeout(p) ==
    /\ \/ /\ pc[p] \in {"intake", "compiling", "attached", "prepare", "preparing", "profiled", "registered", "child",
                        "evolve", "evolving", "working", "evolved", "copied", "published", "delivered"}
          /\ GoTo(p, "timeout") /\ solve' = OutOfTime
       \/ /\ AtStep(p, "timeout") /\ GoTo(p, "cleanup")
          /\ solve' = IF solve.link = "linked" THEN ChildEnds(solve, IF solve.status = "cancelled" THEN "cancelled" ELSE "failed") ELSE solve
    /\ Stay

\* SolveExecutionCancelled: the coordinator cancels its own run.
CancelOwn(p) ==
    /\ AtStep(p, "cancel") /\ GoTo(p, "cleanup")
    /\ solve' = IF Cancelled.status = "cancelled" /\ solve.link = "linked" THEN ChildEnds(Cancelled, "cancelled") ELSE Cancelled
    /\ Stay

\* cleanup_automatic_solve by the coordinator
Cleanup(p) ==
    /\ AtStep(p, "cleanup") /\ GoTo(p, "ending") /\ work' = IF Verified /\ work.row THEN NoWork ELSE work
    /\ UNCHANGED <<gate, solve, stop>>

\* A user's cancel: the runs, then one look at what is registered, then the work, and the runner last.
Cancel ==
    /\ \/ /\ stop.step = "none" /\ ~Terminal(solve.status)
          /\ solve' = Cancelled /\ stop' = [stop EXCEPT !.step = "asked"] /\ UNCHANGED <<pc, work>>
       \/ /\ stop.step = "asked" /\ stop' = [stop EXCEPT !.step = IF Verified THEN "both" ELSE "over"]
          /\ solve' = (IF solve.link = "linked" THEN ChildEnds(solve, "cancelled") ELSE solve) /\ UNCHANGED <<pc, work>>
       \/ /\ stop.step = "both" /\ UNCHANGED <<pc, work, solve>>
          /\ stop' = IF Verified THEN [step |-> "scoped", row |-> work.row, runner |-> solve.runner]
                                 ELSE [stop EXCEPT !.step = "over"]
       \/ /\ stop.step = "scoped" /\ stop' = [stop EXCEPT !.step = "killing"]
          /\ work' = (IF stop.row /\ work.row THEN NoWork ELSE work) /\ UNCHANGED <<pc, solve>>
       \/ /\ stop.step = "killing" /\ stop' = [stop EXCEPT !.step = "over"]
          /\ IF stop.runner # Nobody /\ stop.runner = solve.runner
             THEN GoTo(Worker(stop.runner), "over") /\ solve' = Cleared(solve, stop.runner)
             ELSE UNCHANGED <<pc, solve>>
          /\ UNCHANGED work
    /\ UNCHANGED gate

\* A user's cancel of the child itself: its coordinator finds out.
CancelChild ==
    /\ solve.link # "none" /\ ~Terminal(solve.child) /\ solve' = ChildEnds(solve, "cancelled")
    /\ UNCHANGED pc /\ Stay

KillProcess(p) == Crashes /\ Alive(p) /\ GoTo(p, "over") /\ UNCHANGED solve /\ Stay

---------------------------------------------------------------------------

SolveInit ==
    /\ pc = [p \in Processes |-> IF p[2] = "caller" THEN "idle" ELSE "over"]
    /\ gate = {} /\ work = NoWork /\ stop = [step |-> "none", row |-> FALSE, runner |-> Nobody]
    /\ solve = [status |-> "running", budget |-> FALSE, runner |-> Nobody,
                tasks |-> [intake |-> "ready", plan |-> "none", orchestration |-> "none"],
                log |-> << >>, profile |-> FALSE, rows |-> FALSE, prepared |-> FALSE,
                link |-> "none", inputs |-> FALSE, child |-> "running", delivery |-> "none"]

CoordinatorStep(p) ==
    \/ Admit(p) \/ Recover(p) \/ Coordinate(p) \/ Ending(p)
    \/ Intake(p) \/ Compile(p) \/ FinishIntake(p) \/ Orchestrate(p)
    \/ StartPreparation(p) \/ PreparationFails(p) \/ PrepareBundle(p) \/ MakeChild(p) \/ CopyInputs(p) \/ Link(p)
    \/ Evolve(p) \/ Guard(p) \/ Spawn(p) \/ Register(p) \/ CheckStop(p) \/ Release(p) \/ FinishChild(p)
    \/ DeliverToParent(p) \/ FinishParent(p) \/ Raised(p) \/ Timeout(p) \/ CancelOwn(p) \/ Cleanup(p)

SolveNext ==
    \/ \E p \in Processes : CoordinatorStep(p) \/ KillProcess(p)
    \/ \E c \in Invocations : Own(c) \/ Answer(c) \/ LaunchWorker(c) \/ Claim(c) \/ OpenGate(c) \/ LaunchFails(c) \/ Gate(c) \/ LeaveWorker(c)
    \/ Cancel \/ CancelChild

SolveSpec == SolveInit /\ [][SolveNext]_solveVars

---------------------------------------------------------------------------

Coordinates(p) == Alive(p) /\ pc[p] \notin {"owned", "waiting", "spawned", "claimed", "failing", "leaving"}

\* A solve has one coordinator, although callers, workers that wait for their gate, workers that were
\* replaced and late launchers run at the same time.
OneCoordinator == \A p, q \in Processes : Coordinates(p) /\ Coordinates(q) => p = q

\* The parent succeeds only with a delivery that its child's success allows.
SucceededIsDelivered == solve.status = "succeeded" => solve.delivery = "delivered" /\ solve.child = "succeeded"

\* Preparation is announced only when its profile and its artifact rows are there, wherever it is
\* killed; a child is made only after that, and evolves only with its inputs.
PreparedIsWhole ==
    /\ solve.prepared => solve.profile /\ solve.rows
    /\ solve.link # "none" => solve.prepared
    /\ solve.link = "linked" => solve.inputs

\* One coordinator at a time takes a solve from its preparation to its delivery, and skips nothing.
CoordinatedSolve == OneCoordinator /\ PreparedIsWhole /\ SucceededIsDelivered

\* A worker never waits for a gate that nobody will open, although its launcher may be killed first.
GatesResolve == \A c \in Invocations : pc[Worker(c)] = "waiting" ~> pc[Worker(c)] # "waiting"

\* attempt_process_observers: "cancellation either observes this row, or the registering thread
\* observes cancellation and cleans this exact process itself".
CancelReachesWork == stop.step = "over" /\ Verified /\ (\A p \in Processes : ~Alive(p)) => ~work.live

\* attach_plan_to_run installs the plan "alongside the completed intake task", and a delivered solve succeeds.
DeliveredSettles ==
    solve.tasks.orchestration = "succeeded" /\ (\A p \in Processes : ~Coordinates(p)) => Terminal(solve.status)
=============================================================================
