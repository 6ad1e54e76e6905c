------------------------------- MODULE Store -------------------------------
(***************************************************************************)
(* The SQLite ledger of one run (store.py).  Every operator below whose     *)
(* name is a method of Store is ONE database transaction: the guard is the  *)
(* WHERE clause of its first UPDATE (or, for the methods that issue BEGIN   *)
(* IMMEDIATE, everything they read).                                        *)
(*                                                                          *)
(* Python's sqlite3 opens a transaction at the first INSERT/UPDATE/DELETE,  *)
(* so a SELECT made before it is a separate, earlier step.  Three methods   *)
(* decide from such a SELECT and do not repeat the test in the UPDATE:      *)
(* next_task, recover_running and commit_plan_revision.  They are split in  *)
(* a read part (a state function, evaluated by the caller in its own step)  *)
(* and a write part (an action that takes what was read).                   *)
(***************************************************************************)
EXTENDS Integers, FiniteSets, FiniteSetsExt

CONSTANTS
    NumTasks,       \* task rows a run can ever have, over all plan revisions
    NumAttempts,    \* bound: attempt rows
    NoAttempt,      \* "no file", an output path that does not exist
    Orchestration,  \* the tasks created by ensure_orchestration_task
    FirstPlan       \* the plan of create_run: task -> the tasks it depends on

Tasks    == 1 .. NumTasks       \* numbered by (created_at, id), the scheduling order
Attempts == 1 .. NumAttempts    \* numbered by insertion order

ASSUME StoreAssumption ==
    /\ NumTasks \in Nat \ {0} /\ NumAttempts \in Nat \ {0}
    /\ NoAttempt \notin Attempts
    /\ Orchestration \subseteq Tasks
    /\ DOMAIN FirstPlan \subseteq Tasks
    /\ \A t \in DOMAIN FirstPlan : FirstPlan[t] \subseteq DOMAIN FirstPlan

RunStatus  == {"pending", "running", "awaiting_input", "succeeded", "failed", "cancelled"}
TaskStatus == {"absent", "pending", "ready", "running", "waiting", "blocked", "succeeded",
               "failed", "cancelled", "superseded", "uncertain"}
AttemptStatus == {"none", "running", "succeeded", "failed", "uncertain", "cancelled",
                  "awaiting_input"}
Limits     == {"max_attempts", "max_runtime_seconds", "solve_wall_timeout"}
Terminal   == {"succeeded", "failed", "cancelled"}

VARIABLES
    run,       \* the row of runs: status, current plan version, budget_exceeded events
    tasks,     \* the rows of tasks: state, dependencies, input_question set?, attempts
    atts,      \* the rows of attempts: task and status
    passed,    \* attempts with a task_evaluated event whose payload says passed
    results,   \* attempts whose result/runtime artifacts are indexed
    outputs,   \* attempts with an indexed artifact of kind output
    promoted,  \* attempts with an algorithm_outputs_promoted event
    file       \* per task, the attempt whose bytes are at the run-level output path

ledger    == <<run, tasks, atts>>
artifacts == <<passed, results, outputs, promoted, file>>
store     == <<ledger, artifacts>>

TaskRow == [state : TaskStatus, deps : SUBSET Tasks, asked : BOOLEAN, attempts : Nat]

StoreTypeOK ==
    /\ run \in [status : RunStatus, version : Nat, exceeded : SUBSET Limits]
    /\ tasks \in [Tasks -> TaskRow]
    /\ atts \in [Attempts -> [task : Tasks, status : AttemptStatus]]
    /\ passed \subseteq Attempts /\ results \subseteq Attempts
    /\ outputs \subseteq Attempts /\ promoted \subseteq Attempts
    /\ file \in [Tasks -> Attempts \cup {NoAttempt}]

Present       == {t \in Tasks : tasks[t].state # "absent"}
InState(S)    == {t \in Tasks : tasks[t].state \in S}
Running(t)    == tasks[t].state = "running"
AttemptsOf(t) == {a \in Attempts : atts[a].status # "none" /\ atts[a].task = t}
Unused        == {a \in Attempts : atts[a].status = "none"}
First(x, S)   == x \in S /\ \A y \in S : x <= y

\* Without dependencies a new task is ready, with some it waits.
FreshState(deps) == IF deps = {} THEN "ready" ELSE "waiting"

\* create_run, create_run_with_plan: the run, its tasks and plan version 1, one transaction.
StoreInit ==
    /\ run = [status |-> "pending", version |-> 1, exceeded |-> {}]
    /\ tasks = [t \in Tasks |->
                  IF t \in DOMAIN FirstPlan
                    THEN [state |-> FreshState(FirstPlan[t]), deps |-> FirstPlan[t],
                          asked |-> FALSE, attempts |-> 0]
                    ELSE [state |-> "absent", deps |-> {}, asked |-> FALSE, attempts |-> 0]]
    /\ atts = [a \in Attempts |-> [task |-> 1, status |-> "none"]]
    /\ passed = {} /\ results = {} /\ outputs = {} /\ promoted = {}
    /\ file = [t \in Tasks |-> NoAttempt]

-----------------------------------------------------------------------------
(* next_task: promote or block what the dependencies decide, then look up.   *)

\* Fault: a question does not keep a waiting task out of the promotion loop.
UndecidedWithQuestions == InState({"pending", "waiting"})

\* Tasks the first SELECT returns and the loop does not skip as paused by a question.
Undecided == {t \in InState({"pending", "waiting"}) :
                 ~ (tasks[t].state = "waiting" /\ tasks[t].asked)}

\* Fault: a dependency that has not failed yet is good enough.
ReadyRowsUnlessFailed ==
    {t \in Undecided : \A d \in tasks[t].deps : tasks[d].state \in {"ready", "running", "succeeded"}}

ReadyRows   == {t \in Undecided :
                  \A d \in tasks[t].deps : tasks[d].state = "succeeded"}
\* The rows are visited in order and each sees what the earlier UPDATEs of the loop wrote.
BlockedRows ==
    LET blocks[t \in Tasks] ==
          /\ t \in Undecided
          /\ \E d \in tasks[t].deps :
               \/ tasks[d].state \in {"failed", "blocked", "cancelled", "superseded"}
               \/ d < t /\ blocks[d]
    IN  {t \in Tasks : blocks[t]}

\* The UPDATEs, guarded by the task's state only, on what was read.
PromoteRows(ready, blocked) ==
    tasks' = [t \in Tasks |->
                CASE t \in blocked \cap InState({"pending", "waiting"}) ->
                        [tasks[t] EXCEPT !.state = "blocked"]
                  [] t \in ready \cap InState({"pending", "waiting"}) ->
                        [tasks[t] EXCEPT !.state = "ready"]
                  [] OTHER -> tasks[t]]

\* What the closing SELECT of next_task may return, in scheduling order.
Claimable(rows) == {t \in Tasks \ Orchestration : rows[t].state \in {"ready", "uncertain"}}

-----------------------------------------------------------------------------
(* The life of an attempt.                                                    *)

ClaimTask(t, a, allowOrchestration) ==
    /\ tasks[t].state \in {"pending", "ready", "uncertain"}
    /\ t \in Orchestration => allowOrchestration
    /\ atts[a].status = "none"
    /\ tasks' = [tasks EXCEPT ![t].state = "running", ![t].attempts = @ + 1]
    /\ run' = [run EXCEPT !.status = IF @ = "pending" THEN "running" ELSE @]
    /\ atts' = [atts EXCEPT ![a] = [task |-> t, status |-> "running"]]

\* The attempt row is written by id only: an attempt that recovery already marked
\* uncertain still settles the task, whoever claimed it since.
FinishTask(t, a, success) ==
    LET outcome == IF success THEN "succeeded" ELSE "failed" IN
    /\ Running(t)
    /\ tasks' = [tasks EXCEPT ![t].state = outcome]
    /\ atts' = [atts EXCEPT ![a].status = outcome]
    /\ UNCHANGED run

RetryTask(t, a) ==
    /\ Running(t)
    /\ tasks' = [tasks EXCEPT ![t].state = "ready"]
    /\ atts' = [atts EXCEPT ![a].status = "failed"]
    /\ UNCHANGED run

\* Fault: the run is paused even when it was cancelled.
AwaitInputAlways(t, a) ==
    /\ Running(t) \/ tasks[t].state = "cancelled"
    /\ tasks' = [tasks EXCEPT ![t].state = "waiting", ![t].asked = TRUE]
    /\ atts' = [atts EXCEPT ![a].status = IF @ = "running" THEN "awaiting_input" ELSE @]
    /\ run' = [run EXCEPT !.status = "awaiting_input"]

AwaitInput(t, a) ==
    /\ Running(t)
    /\ tasks' = [tasks EXCEPT ![t].state = "waiting", ![t].asked = TRUE]
    /\ atts' = [atts EXCEPT ![a].status = IF @ = "running" THEN "awaiting_input" ELSE @]
    /\ run' = [run EXCEPT !.status = IF @ = "cancelled" THEN @ ELSE "awaiting_input"]

\* _pending_input_row: waiting tasks that hold a question; the first one is answered.
PendingInput == {t \in InState({"waiting"}) : tasks[t].asked}

\* The question text stays in the row after the answer.
AnswerInput ==
    /\ \E t \in Tasks : /\ First(t, PendingInput)
                        /\ tasks' = [tasks EXCEPT ![t].state = "ready"]
    /\ run' = [run EXCEPT !.status = IF @ = "awaiting_input" THEN "pending" ELSE @]
    /\ UNCHANGED atts

\* Fault: the interrupted attempts stay open.
RecoverRunningTasksOnly(rows) ==
    /\ tasks' = [t \in Tasks |-> IF t \in rows THEN [tasks[t] EXCEPT !.state = "uncertain"]
                                              ELSE tasks[t]]
    /\ UNCHANGED <<run, atts>>

\* recover_running, its writes: rows holds the tasks that were running when it looked.
RecoverRunning(rows) ==
    /\ tasks' = [t \in Tasks |-> IF t \in rows THEN [tasks[t] EXCEPT !.state = "uncertain"]
                                              ELSE tasks[t]]
    /\ atts' = [a \in Attempts |->
                  IF atts[a].status = "running" /\ atts[a].task \in rows
                    THEN [atts[a] EXCEPT !.status = "uncertain"] ELSE atts[a]]
    /\ UNCHANGED run

\* Fault: only result and runtime artifacts are dropped.
DiscardResultsOnly(t, a) ==
    /\ results' = results \ {a}
    /\ UNCHANGED <<passed, outputs, promoted, file>>

\* discard_attempt_outputs and the unlinking around it (_discard_late_result).  Only output
\* rows named by an algorithm_outputs_promoted event are found.
DiscardLateResult(t, a) ==
    /\ results' = results \ {a}
    /\ outputs' = outputs \ (promoted \cap {a})
    /\ file' = IF a \in outputs \cap promoted THEN [file EXCEPT ![t] = NoAttempt] ELSE file
    /\ UNCHANGED <<passed, promoted>>

-----------------------------------------------------------------------------
(* Transitions of the whole run.                                              *)

EndRunningAttempts(outcome) ==
    atts' = [a \in Attempts |->
               IF atts[a].status = "running" THEN [atts[a] EXCEPT !.status = outcome]
                                             ELSE atts[a]]

CancelRun ==
    /\ run.status \notin Terminal
    /\ run' = [run EXCEPT !.status = "cancelled"]
    /\ tasks' = [t \in Tasks |->
                   IF tasks[t].state \in {"absent", "succeeded", "failed", "cancelled", "superseded"}
                     THEN tasks[t] ELSE [tasks[t] EXCEPT !.state = "cancelled"]]
    /\ EndRunningAttempts("cancelled")

\* The state a budget failure leaves a task in.  An uncertain task is not in the first
\* UPDATE's list; the wall timeout also fails the orchestration task.
BudgetFailed(t, limit) ==
    LET s == tasks[t].state IN
    IF limit = "solve_wall_timeout" /\ t \in Orchestration
         /\ s \in {"blocked", "pending", "ready", "waiting", "running", "uncertain"}
      THEN "failed"
      ELSE IF s \in {"pending", "ready", "waiting", "running"} THEN "blocked" ELSE s

\* fail_budget returns False: the run has its outcome already.
BudgetIgnored(limit) ==
    \/ run.status \in {"succeeded", "cancelled"}
    \/ limit = "solve_wall_timeout" /\ run.status = "failed"

FailBudget(limit) ==
    IF BudgetIgnored(limit)
      THEN UNCHANGED ledger
      ELSE /\ run' = [run EXCEPT !.status = "failed", !.exceeded = @ \cup {limit}]
           /\ tasks' = [t \in Tasks |-> [tasks[t] EXCEPT !.state = BudgetFailed(t, limit)]]
           /\ EndRunningAttempts("failed")

\* Fault: one succeeded task is enough, and a failed one is overlooked.
DerivedStatusAnySuccess ==
    LET states == {tasks[t].state : t \in Present} IN
    CASE "succeeded" \in states -> "succeeded"
      [] PendingInput # {}      -> "awaiting_input"
      [] OTHER                  -> "running"

\* The status settle_run derives from the task rows.
DerivedStatus ==
    LET states == {tasks[t].state : t \in Present} IN
    CASE states \cap {"failed", "blocked"} # {}                 -> "failed"
      [] states \subseteq {"succeeded", "superseded"} /\ "succeeded" \in states -> "succeeded"
      [] PendingInput # {}                                      -> "awaiting_input"
      [] "cancelled" \in states                                 -> "cancelled"
      [] OTHER                                                  -> "running"

SettleRun ==
    /\ run' = IF \/ run.status = "failed" /\ "solve_wall_timeout" \in run.exceeded
                 \/ Present = {}
                 \/ run.status = "cancelled"
                THEN run ELSE [run EXCEPT !.status = DerivedStatus]
    /\ UNCHANGED <<tasks, atts>>

-----------------------------------------------------------------------------
(* commit_plan_revision: the checks it reads first, then what it writes.       *)

\* existing is the task table the checks were made on.  A completed task stays, unchanged.
MayRevise(plan) ==
    /\ run.status \notin {"running", "awaiting_input", "cancelled"}
    /\ \A t \in InState({"succeeded"}) : t \in DOMAIN plan /\ plan[t] = tasks[t].deps

\* Fault: a kept task is reset whatever it had reached.
RevisedAll(existing, plan) ==
    [t \in Tasks |->
       IF t \in DOMAIN plan
         THEN [tasks[t] EXCEPT !.state = FreshState(plan[t]), !.deps = plan[t], !.attempts = 0]
         ELSE tasks[t]]

Revised(existing, plan) ==
    [t \in Tasks |->
       LET old == existing[t].state IN
       CASE old = "succeeded"  -> tasks[t]
         [] t \in DOMAIN plan /\ old # "succeeded" ->
              [tasks[t] EXCEPT !.state = FreshState(plan[t]), !.deps = plan[t], !.attempts = 0]
         [] t \notin DOMAIN plan /\ old \notin {"absent", "succeeded", "superseded", "cancelled"} ->
              [tasks[t] EXCEPT !.state = "superseded"]
         [] OTHER -> tasks[t]]

\* The primary key (run_id, version) of plan_revisions rejects a second revision of the
\* same parent, and the whole transaction with it.
CommitPlanRevision(parent, existing, plan) ==
    /\ run.version = parent
    /\ tasks' = Revised(existing, plan)
    /\ run' = [run EXCEPT !.status = "pending", !.version = parent + 1]
    /\ UNCHANGED atts
=============================================================================
