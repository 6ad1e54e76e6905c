----------------------------- MODULE Scheduler -----------------------------
(***************************************************************************)
(* LocalController.resume and _execute_task over the ledger of Store: any   *)
(* number of controller processes drain the same run.  Nothing in the code  *)
(* keeps a second process out: `resume`, `answer` and a detached child each *)
(* build a controller and call resume on a run that is not terminal.        *)
(*                                                                          *)
(* Each controller has a main thread (pc) and one job per attempt it has    *)
(* claimed; with max_workers = 1 the main thread simply waits for its only  *)
(* job, which is the inline call of the code.  A crash kills the process    *)
(* with all of its jobs and leaves the ledger as it is.                     *)
(***************************************************************************)
EXTENDS Store

CONSTANTS
    Controllers,    \* controller processes
    Nobody,         \* owner of an attempt row that does not exist yet
    MaxWorkers,     \* LocalController.max_workers
    MaxRetries,     \* Config.max_retries
    MaxAttempts,    \* BudgetSpec.max_attempts
    Revisions,      \* plans an owner may commit with patch/replan
    MaxRevisions,   \* bound: plan revisions
    MaxCrashes,     \* bound: controller processes killed
    Environment     \* outside events the instance explores

ASSUME SchedulerAssumption ==
    /\ MaxWorkers \in Nat \ {0} /\ MaxRetries \in Nat /\ MaxAttempts \in Nat \ {0}
    /\ Nobody \notin Controllers
    /\ MaxRevisions \in Nat /\ MaxCrashes \in Nat
    /\ \A p \in Revisions : /\ DOMAIN p \subseteq Tasks
                            /\ \A t \in DOMAIN p : p[t] \subseteq DOMAIN p
    /\ Environment \subseteq {"cancel", "ask", "deadline", "factory", "raise", "fail"}

VARIABLES
    pc,        \* main thread of a controller
    rows,      \* what recover_running's or next_task's SELECT returned to it
    picked,    \* the task next_task returned, and its attempts column
    claimed,   \* tasks claimed in this round
    late,      \* a budget other than max_attempts is spent for this resume
    job,       \* per attempt: where _execute_task is, for whom, task.attempts as read
    draft,     \* a plan revision between its checks and its writes
    crashes

control == <<pc, rows, picked, claimed, late>>
vars    == <<store, control, job, draft, crashes>>

NoRows  == [ready |-> {}, blocked |-> {}, running |-> {}]
NoTask  == [task |-> 1, seen |-> 0]
NoDraft == [parent |-> 0]

PcStates  == {"idle", "recover", "loop", "next", "check", "claim", "record", "wait", "drain",
              "settle"}
JobStates == {"none", "start", "run", "recorded", "accepted", "rejected", "rejecting",
              "copied", "indexed", "promoted", "failing", "nofactory", "over", "over_budget", "dead"}
Active    == JobStates \ {"none", "over", "over_budget", "dead"}

TypeOK ==
    /\ StoreTypeOK
    /\ pc \in [Controllers -> PcStates]
    /\ rows \in [Controllers -> [ready : SUBSET Tasks, blocked : SUBSET Tasks,
                                 running : SUBSET Tasks]]
    /\ picked \in [Controllers -> [task : Tasks, seen : Nat]]
    /\ claimed \in [Controllers -> Nat]
    /\ late \in [Controllers -> BOOLEAN]
    /\ job \in [Attempts -> [pc : JobStates, by : Controllers \cup {Nobody}, seen : Nat]]
    /\ draft \in {NoDraft} \cup [parent : Nat, existing : [Tasks -> TaskRow], plan : Revisions]
    /\ crashes \in Nat

JobsOf(c)   == {a \in Attempts : job[a].by = c /\ job[a].pc \in Active}
Late(a)     == late[job[a].by]
CanRetry(a) == job[a].seen + 1 < MaxRetries

Init ==
    /\ StoreInit
    /\ pc = [c \in Controllers |-> "idle"]
    /\ rows = [c \in Controllers |-> NoRows]
    /\ picked = [c \in Controllers |-> NoTask]
    /\ claimed = [c \in Controllers |-> 0]
    /\ late = [c \in Controllers |-> FALSE]
    /\ job = [a \in Attempts |-> [pc |-> "none", by |-> Nobody, seen |-> 0]]
    /\ draft = NoDraft
    /\ crashes = 0

Goto(c, label) == pc' = [pc EXCEPT ![c] = label]

-----------------------------------------------------------------------------
(* The main thread: LocalController.resume.                                   *)

\* A terminal run is returned as it is; otherwise recover_running looks for running tasks.
ResumeStart(c) ==
    /\ pc[c] = "idle"
    /\ run.status \notin Terminal
    /\ rows' = [rows EXCEPT ![c] = [NoRows EXCEPT !.running = InState({"running"})]]
    /\ claimed' = [claimed EXCEPT ![c] = 0]
    /\ late' = [late EXCEPT ![c] = FALSE]
    /\ Goto(c, "recover")
    /\ UNCHANGED <<store, picked, job, draft, crashes>>

Recover(c) ==
    /\ pc[c] = "recover"
    /\ RecoverRunning(rows[c].running)
    /\ rows' = [rows EXCEPT ![c] = NoRows]
    /\ Goto(c, "loop")
    /\ UNCHANGED <<artifacts, picked, claimed, late, job, draft, crashes>>

NextTaskRead(c) ==
    /\ pc[c] = "loop"
    /\ rows' = [rows EXCEPT ![c] = [NoRows EXCEPT !.ready = ReadyRows, !.blocked = BlockedRows]]
    /\ Goto(c, "next")
    /\ UNCHANGED <<store, picked, claimed, late, job, draft, crashes>>

\* The promotions, then the lookup.  With nothing to claim the round ends: the controller
\* waits for what it claimed, or leaves the loop when it claimed nothing.
NextTaskWrite(c) ==
    /\ pc[c] = "next"
    /\ PromoteRows(rows[c].ready, rows[c].blocked)
    /\ rows' = [rows EXCEPT ![c] = NoRows]
    /\ \/ /\ \E t \in Tasks :
               /\ First(t, Claimable(tasks'))
               /\ picked' = [picked EXCEPT ![c] = [task |-> t, seen |-> tasks[t].attempts]]
          /\ Goto(c, "check")
       \/ /\ Claimable(tasks') = {}
          /\ Goto(c, IF claimed[c] = 0 THEN "settle" ELSE "wait")
          /\ UNCHANGED picked
    /\ UNCHANGED <<run, atts, artifacts, claimed, late, job, draft, crashes>>

\* The sum of the attempts columns, counted as pairs of a task and one of its attempts.
ClaimsMade == UNION {{t} \X (1 .. tasks[t].attempts) : t \in Tasks}
TotalAttempts == Cardinality(ClaimsMade)

\* Fault: off by one in the attempts budget.
CheckBudgetOffByOne(c) ==
    /\ pc[c] = "check"
    /\ \/ TotalAttempts > MaxAttempts /\ FailBudget("max_attempts") /\ Goto(c, "drain")
       \/ TotalAttempts <= MaxAttempts /\ Goto(c, "claim") /\ UNCHANGED ledger
    /\ UNCHANGED <<artifacts, rows, picked, claimed, late, job, draft, crashes>>

\* _check_budget(before_claim=True): a spent budget fails the run and ends the loop.  The
\* limits on tasks, tool steps and artifact bytes are tested at the same places as the wall
\* clock and fail the same way; late stands for any of them.
CheckBudget(c) ==
    /\ pc[c] = "check"
    /\ \/ /\ TotalAttempts >= MaxAttempts
          /\ FailBudget("max_attempts")
          /\ Goto(c, "drain")
       \/ /\ TotalAttempts < MaxAttempts /\ late[c]
          /\ FailBudget("max_runtime_seconds")
          /\ Goto(c, "drain")
       \/ /\ TotalAttempts < MaxAttempts /\ ~ late[c]
          /\ Goto(c, "claim")
          /\ UNCHANGED ledger
    /\ UNCHANGED <<artifacts, rows, picked, claimed, late, job, draft, crashes>>

\* A claim that another controller won is skipped; _new_runtime may fail (only a thread pool
\* has a factory), and then the attempt is claimed to record the failure on the main thread.
Claim(c) ==
    LET t == picked[c].task IN
    /\ pc[c] = "claim"
    /\ \/ /\ tasks[t].state \notin {"pending", "ready", "uncertain"}
          /\ Goto(c, "loop")
          /\ UNCHANGED <<ledger, claimed, job>>
       \/ \E a \in Attempts :
            /\ First(a, Unused)
            /\ ClaimTask(t, a, FALSE)
            /\ claimed' = [claimed EXCEPT ![c] = @ + 1]
            /\ \/ /\ job' = [job EXCEPT ![a] = [pc |-> "start", by |-> c, seen |-> picked[c].seen]]
                  /\ Goto(c, IF claimed[c] + 1 < MaxWorkers THEN "loop" ELSE "wait")
               \/ /\ "factory" \in Environment /\ MaxWorkers > 1
                  /\ job' = [job EXCEPT ![a] = [pc |-> "nofactory", by |-> c, seen |-> picked[c].seen]]
                  /\ Goto(c, "record")
    /\ UNCHANGED <<artifacts, rows, picked, late, draft, crashes>>

\* _record_task_failure.
RecordTaskFailure(c) ==
    /\ pc[c] = "record"
    /\ \E a \in JobsOf(c) :
         /\ job[a].pc = "nofactory"
         /\ \/ ~ Running(atts[a].task) /\ UNCHANGED ledger
            \/ CanRetry(a) /\ RetryTask(atts[a].task, a)
            \/ ~ CanRetry(a) /\ FinishTask(atts[a].task, a, FALSE)
         /\ job' = [job EXCEPT ![a].pc = "over"]
    /\ Goto(c, IF claimed[c] < MaxWorkers THEN "loop" ELSE "wait")
    /\ UNCHANGED <<artifacts, rows, picked, claimed, late, draft, crashes>>

\* All futures of the round have returned; a BudgetExceeded among them ends the loop.
WaitRound(c) ==
    /\ pc[c] = "wait"
    /\ JobsOf(c) = {}
    /\ LET over == {a \in Attempts : job[a].by = c /\ job[a].pc = "over_budget"} IN
         /\ Goto(c, IF over # {} THEN "settle" ELSE "loop")
         /\ job' = [a \in Attempts |-> IF a \in over THEN [job[a] EXCEPT !.pc = "over"] ELSE job[a]]
    /\ claimed' = [claimed EXCEPT ![c] = 0]
    /\ UNCHANGED <<store, rows, picked, late, draft, crashes>>

\* executor.shutdown(wait=True, cancel_futures=True) after a BudgetExceeded of the main thread:
\* a future still in the pool's queue is cancelled, its job never starts.
Drain(c) ==
    /\ pc[c] = "drain"
    /\ \/ /\ \E a \in JobsOf(c) : job[a].pc = "start" /\ job' = [job EXCEPT ![a].pc = "over"]
          /\ UNCHANGED pc
       \/ /\ JobsOf(c) = {}
          /\ job' = [a \in Attempts |-> IF job[a].by = c /\ job[a].pc = "over_budget"
                                          THEN [job[a] EXCEPT !.pc = "over"] ELSE job[a]]
          /\ Goto(c, "settle")
    /\ UNCHANGED <<store, rows, picked, claimed, late, draft, crashes>>

Settle(c) ==
    /\ pc[c] = "settle"
    /\ SettleRun
    /\ late' = [late EXCEPT ![c] = FALSE]
    /\ claimed' = [claimed EXCEPT ![c] = 0]
    /\ Goto(c, "idle")
    /\ UNCHANGED <<artifacts, rows, picked, job, draft, crashes>>

-----------------------------------------------------------------------------
(* A job: _execute_task for attempt a.                                        *)

JobGoto(a, label) == job' = [job EXCEPT ![a].pc = label]

\* Common to every step of a job.
JobFrame == UNCHANGED <<control, draft, crashes>>

\* "If the task is no longer running, discard": the attempt itself is not looked at.
DiscardIfStopped(a) ==
    /\ ~ Running(atts[a].task)
    /\ DiscardLateResult(atts[a].task, a)
    /\ JobGoto(a, "over")
    /\ UNCHANGED ledger

\* A BudgetExceeded raised inside the job.
BudgetStops(a) ==
    /\ FailBudget("max_runtime_seconds")
    /\ JobGoto(a, "over_budget")
    /\ UNCHANGED artifacts

\* Before the runtime call: still running, and time left for the request.
StartJob(a) ==
    /\ job[a].pc = "start"
    /\ \/ DiscardIfStopped(a)
       \/ Running(atts[a].task) /\ Late(a) /\ BudgetStops(a)
       \/ Running(atts[a].task) /\ ~ Late(a) /\ JobGoto(a, "run") /\ UNCHANGED store
    /\ JobFrame

\* The runtime returned text: indexed unless the task stopped meanwhile.
RuntimeResult(a) ==
    /\ job[a].pc = "run"
    /\ \/ DiscardIfStopped(a)
       \/ /\ Running(atts[a].task)
          /\ results' = results \cup {a}
          /\ JobGoto(a, "recorded")
          /\ UNCHANGED <<ledger, passed, outputs, promoted, file>>
    /\ JobFrame

\* The runtime raised AgentInputRequired.
RuntimeAsks(a) ==
    /\ "ask" \in Environment
    /\ job[a].pc = "run"
    /\ \/ DiscardIfStopped(a)
       \/ AwaitInput(atts[a].task, a) /\ JobGoto(a, "over") /\ UNCHANGED artifacts
    /\ JobFrame

\* The generic exception handler, first half: the deadline, then the running test.
Handle(a) ==
    \/ DiscardIfStopped(a)
    \/ Running(atts[a].task) /\ Late(a) /\ BudgetStops(a)
    \/ Running(atts[a].task) /\ ~ Late(a) /\ JobGoto(a, "failing") /\ UNCHANGED store

RuntimeRaises(a) ==
    /\ "fail" \in Environment
    /\ job[a].pc = "run"
    /\ Handle(a)
    /\ JobFrame

\* Second half: retry or fail the task, without effect when it is no longer running.
RecordFailure(a) ==
    /\ job[a].pc = "failing"
    /\ \/ ~ Running(atts[a].task) /\ UNCHANGED ledger
       \/ CanRetry(a) /\ RetryTask(atts[a].task, a)
       \/ ~ CanRetry(a) /\ FinishTask(atts[a].task, a, FALSE)
    /\ JobGoto(a, "over")
    /\ UNCHANGED artifacts
    /\ JobFrame

\* Fault: the verdict is used but its event is not recorded.
EvaluateUnrecorded(a) ==
    /\ job[a].pc = "recorded"
    /\ JobGoto(a, "accepted")
    /\ UNCHANGED store
    /\ JobFrame

\* The budget, then the evaluator and its task_evaluated event.
Evaluate(a) ==
    /\ job[a].pc = "recorded"
    /\ \/ Late(a) /\ BudgetStops(a)
       \/ /\ ~ Late(a)
          /\ passed' = passed \cup {a}
          /\ JobGoto(a, "accepted")
          /\ UNCHANGED <<ledger, results, outputs, promoted, file>>
       \/ /\ ~ Late(a) /\ "fail" \in Environment
          /\ JobGoto(a, "rejected")
          /\ UNCHANGED store
       \/ "raise" \in Environment /\ ~ Late(a) /\ Handle(a)
    /\ JobFrame

\* Fault: an output file that already exists is kept.
CopyKeepsFile(a) ==
    /\ job[a].pc = "accepted"
    /\ \/ DiscardIfStopped(a)
       \/ /\ Running(atts[a].task)
          /\ file' = [file EXCEPT ![atts[a].task] = IF @ = NoAttempt THEN a ELSE @]
          /\ JobGoto(a, "copied")
          /\ UNCHANGED <<ledger, passed, results, outputs, promoted>>
    /\ JobFrame

\* Passed: unless the task stopped, the declared output is promoted.  First its bytes replace the file
\* at the run-level path, ...
CopyOutput(a) ==
    /\ job[a].pc = "accepted"
    /\ \/ DiscardIfStopped(a)
       \/ /\ Running(atts[a].task)
          /\ file' = [file EXCEPT ![atts[a].task] = a]
          /\ JobGoto(a, "copied")
          /\ UNCHANGED <<ledger, passed, results, outputs, promoted>>
       \/ "raise" \in Environment /\ Handle(a)
    /\ JobFrame

\* ... then it gets an index row, ...
IndexOutput(a) ==
    /\ job[a].pc = "copied"
    /\ \/ /\ outputs' = outputs \cup {a}
          /\ JobGoto(a, "indexed")
          /\ UNCHANGED <<ledger, passed, results, promoted, file>>
       \/ "raise" \in Environment /\ Handle(a)
    /\ JobFrame

\* ... and then the event that names it.  No step but the first looks whether the task still runs; a
\* failure in between leaves a file that no row names, or a row that no event names.
AnnounceOutput(a) ==
    /\ job[a].pc = "indexed"
    /\ \/ /\ promoted' = promoted \cup {a}
          /\ JobGoto(a, "promoted")
          /\ UNCHANGED <<ledger, passed, results, outputs, file>>
       \/ "raise" \in Environment /\ Handle(a)
    /\ JobFrame

\* finish_task(True); a result that lost the task is discarded with its outputs.
Complete(a) ==
    /\ job[a].pc = "promoted"
    /\ \/ DiscardIfStopped(a)
       \/ FinishTask(atts[a].task, a, TRUE) /\ JobGoto(a, "over") /\ UNCHANGED artifacts
    /\ JobFrame

\* Not passed: the same running test ...
Reject(a) ==
    /\ job[a].pc = "rejected"
    /\ \/ DiscardIfStopped(a)
       \/ Running(atts[a].task) /\ JobGoto(a, "rejecting") /\ UNCHANGED store
    /\ JobFrame

\* ... then retry_task, whose refusal is ignored, or finish_task(False), whose refusal discards.
RecordRejection(a) ==
    /\ job[a].pc = "rejecting"
    /\ \/ /\ CanRetry(a)
          /\ RetryTask(atts[a].task, a) \/ (~ Running(atts[a].task) /\ UNCHANGED ledger)
          /\ JobGoto(a, "over")
          /\ UNCHANGED artifacts
       \/ /\ ~ CanRetry(a)
          /\ \/ DiscardIfStopped(a)
             \/ FinishTask(atts[a].task, a, FALSE) /\ JobGoto(a, "over") /\ UNCHANGED artifacts
    /\ JobFrame

-----------------------------------------------------------------------------
(* Everything else: other commands, time and failures.                        *)

Cancel ==
    /\ "cancel" \in Environment
    /\ CancelRun
    /\ UNCHANGED <<artifacts, control, job, draft, crashes>>

Answer ==
    /\ AnswerInput
    /\ UNCHANGED <<artifacts, control, job, draft, crashes>>

DeadlinePasses(c) ==
    /\ "deadline" \in Environment
    /\ pc[c] # "idle" /\ ~ late[c]
    /\ late' = [late EXCEPT ![c] = TRUE]
    /\ UNCHANGED <<store, pc, rows, picked, claimed, job, draft, crashes>>

ReviseRead ==
    /\ draft = NoDraft /\ run.version <= MaxRevisions
    /\ \E plan \in Revisions :
         /\ MayRevise(plan)
         /\ draft' = [parent |-> run.version, existing |-> tasks, plan |-> plan]
    /\ UNCHANGED <<store, control, job, crashes>>

ReviseWrite ==
    /\ draft # NoDraft
    /\ CommitPlanRevision(draft.parent, draft.existing, draft.plan)
    /\ draft' = NoDraft
    /\ UNCHANGED <<artifacts, control, job, crashes>>

Crash(c) ==
    /\ crashes < MaxCrashes
    /\ pc[c] # "idle"
    /\ crashes' = crashes + 1
    /\ Goto(c, "idle")
    /\ rows' = [rows EXCEPT ![c] = NoRows]
    /\ claimed' = [claimed EXCEPT ![c] = 0]
    /\ late' = [late EXCEPT ![c] = FALSE]
    /\ job' = [a \in Attempts |-> IF job[a].by = c /\ job[a].pc \in Active \cup {"over_budget"}
                                    THEN [job[a] EXCEPT !.pc = "dead"] ELSE job[a]]
    /\ UNCHANGED <<store, picked, draft>>

MainStep(c) ==
    \/ Recover(c) \/ NextTaskRead(c) \/ NextTaskWrite(c) \/ CheckBudget(c) \/ Claim(c)
    \/ RecordTaskFailure(c) \/ WaitRound(c) \/ Drain(c) \/ Settle(c)

JobStep(a) ==
    \/ StartJob(a) \/ RuntimeResult(a) \/ RuntimeAsks(a) \/ RuntimeRaises(a) \/ RecordFailure(a)
    \/ Evaluate(a) \/ CopyOutput(a) \/ IndexOutput(a) \/ AnnounceOutput(a) \/ Complete(a)
    \/ Reject(a) \/ RecordRejection(a)

Next ==
    \/ \E c \in Controllers : ResumeStart(c) \/ MainStep(c) \/ DeadlinePasses(c) \/ Crash(c)
    \/ \E a \in Attempts : JobStep(a)
    \/ Cancel \/ Answer \/ ReviseRead \/ ReviseWrite

Spec == Init /\ [][Next]_vars
FairSpec ==
    /\ Spec
    /\ \A c \in Controllers : WF_vars(MainStep(c)) /\ WF_vars(ResumeStart(c))
    /\ \A a \in Attempts : WF_vars(JobStep(a))
    /\ WF_vars(Answer)

-----------------------------------------------------------------------------
(* What holds however many controllers drain the run.                          *)

\* Cancellation, budget failure and recovery find the attempts to end by their status: a
\* running task always has an attempt row that is running, so none escapes them.
RunningHasAttempt ==
    \A t \in Tasks : Running(t) => \E a \in AttemptsOf(t) : atts[a].status = "running"

\* A task is only ever succeeded through an attempt of its own whose evaluation passed
\* (deliver relies on it), also when a superseded attempt wins the race to finish_task.
SucceededIsVerified ==
    \A t \in InState({"succeeded"}) :
       \E a \in AttemptsOf(t) \cap passed : atts[a].status = "succeeded"

\* A job works on an attempt row that exists, has its passing evaluation on record before it
\* promotes, and is over once its attempt is succeeded: no step of a job can rewrite the row
\* that verified a task.
JobsMatchAttempts ==
    \A a \in Attempts :
       /\ job[a].pc # "none" => atts[a].status # "none"
       /\ job[a].pc \in {"accepted", "copied", "indexed", "promoted"} => a \in passed
       /\ atts[a].status = "succeeded" => job[a].pc \notin Active

\* No attempt of a task exists before every task it depends on has been verified.
StartedAfterDependencies ==
    \A t \in Tasks : AttemptsOf(t) # {} =>
       \A d \in tasks[t].deps : \E a \in AttemptsOf(d) \cap passed : atts[a].status = "succeeded"

\* Whatever settles, asks, claims or recovers afterwards, a cancelled run stays cancelled.
CancelledIsFinal ==
    [][run.status = "cancelled" => run'.status = "cancelled"]_vars

-----------------------------------------------------------------------------
(* What holds while only one controller at a time drains the run.              *)

\* At most one attempt row of a task is running, and only while the task is.
OneLiveAttempt ==
    \A a \in Attempts : atts[a].status = "running" =>
       /\ Running(atts[a].task)
       /\ \A b \in AttemptsOf(atts[a].task) : atts[b].status = "running" => b = a

\* The attempts budget is checked before each claim and no claim overshoots it.
AttemptsWithinBudget == TotalAttempts <= MaxAttempts

\* deliver compares the latest indexed output of each path with the file: for a succeeded
\* task they are the same attempt's, through crashes, retries and discarded results.
OutputsDeliverable ==
    \A t \in InState({"succeeded"}) :
       LET written == outputs \cap AttemptsOf(t) IN written # {} /\ file[t] = Max(written)

\* Outputs announced by an attempt that a cancellation overtook are gone once its job is over.
LateOutputsDiscarded ==
    \A a \in promoted : job[a].pc = "over" /\ atts[a].status = "cancelled" => a \notin outputs

\* Two controllers that work on the same tasks start nothing too early and leave nothing behind.
RacesLeaveNothing == StartedAfterDependencies /\ LateOutputsDiscarded

\* A completed task is lost only to a revision whose checks were made before it completed.
CompletedSurvivesRevision ==
    [][\A t \in InState({"succeeded"}) :
          tasks'[t].state # "succeeded" =>
             draft # NoDraft /\ draft.existing[t].state # "succeeded"]_vars

\* A task waits for an answer only while the attempt that asked is its latest one.
QuestionIsLive ==
    \A t \in PendingInput : atts[Max(AttemptsOf(t))].status = "awaiting_input"

\* What the rows of the ledger say agrees through failures, questions, crashes and recoveries: one
\* live attempt per running task, and no question without the attempt that asks it.
RowsAgree == TypeOK /\ OneLiveAttempt /\ QuestionIsLive

\* A paused task becomes ready through `answer` and nothing else.
OnlyAnswerReleases ==
    [][(\E t \in PendingInput : tasks'[t].state = "ready") => Answer]_vars

\* A run that failed on a budget stays failed until its plan is revised.
BudgetFailureStays ==
    [][run.status = "failed" /\ run.exceeded # {} => run'.status = "failed"]_vars

\* The ledger keeps the promise of RunContract: a task is done when its row is succeeded,
\* the verdict is the run's status once that is terminal.
Promise == INSTANCE RunContract WITH
    Work    <- DOMAIN FirstPlan,
    Needs   <- FirstPlan,
    done    <- InState({"succeeded"}),
    verdict <- IF run.status \in Terminal THEN run.status ELSE "open"

KeepsContract == Promise!Contract

\* fail_budget leaves an uncertain task alone and settle_run reopens what it failed: while the budget
\* stays spent, no resume claims the task.
AttemptsHold == TotalAttempts >= MaxAttempts /\ InState({"uncertain"}) # {}
BudgetHolds  == run.exceeded # {} /\ InState({"uncertain"}) # {}

\* Resumed and answered whenever that is possible, a run ends for good, after the last crash, revision
\* and passing failure: its status stays terminal, or a spent budget holds an uncertain task.  Once the
\* clock stops running out on the resumes, the only such budget is that of the attempts.
RunEnds ==
    /\ <>[](run.status \in Terminal \/ BudgetHolds)
    /\ <>[](\A c \in Controllers : ~ late[c]) => <>[](run.status \in Terminal \/ AttemptsHold)
=============================================================================
