---------------------------- MODULE StoreProofs ----------------------------
(***************************************************************************)
(* Each operation of the ledger keeps the types of its rows: the lemmas that *)
(* the proofs about Scheduler and Delegate share.                            *)
(***************************************************************************)
EXTENDS Store, TLAPS

RunRow     == [status : RunStatus, version : Nat, exceeded : SUBSET Limits]
AttemptRow == [task : Tasks, status : AttemptStatus]

LedgerTypeOK ==
    /\ run \in RunRow
    /\ tasks \in [Tasks -> TaskRow]
    /\ atts \in [Attempts -> AttemptRow]

ArtifactsTypeOK ==
    /\ passed \subseteq Attempts /\ results \subseteq Attempts
    /\ outputs \subseteq Attempts /\ promoted \subseteq Attempts
    /\ file \in [Tasks -> Attempts \cup {NoAttempt}]

\* The ledger starts with its types.
LEMMA StoreInitType ==
  ASSUME StoreInit
  PROVE  LedgerTypeOK /\ ArtifactsTypeOK
  <1>1. run \in RunRow
    BY DEF StoreInit, RunStatus, RunRow
  <1>2. tasks \in [Tasks -> TaskRow]
    BY StoreAssumption DEF StoreInit, TaskRow, TaskStatus, FreshState
  <1>3. atts \in [Attempts -> AttemptRow]
    BY StoreAssumption DEF StoreInit, AttemptStatus, Tasks, AttemptRow
  <1>4. file \in [Tasks -> Attempts \cup {NoAttempt}]
    BY DEF StoreInit
  <1> QED
    BY <1>1, <1>2, <1>3, <1>4 DEF StoreInit, LedgerTypeOK, ArtifactsTypeOK

\* The states the ledger operations write.
LEMMA Constants ==
  /\ {"ready", "running", "waiting", "blocked", "succeeded", "failed", "cancelled",
      "superseded", "uncertain"} \subseteq TaskStatus
  /\ {"running", "succeeded", "failed", "uncertain", "cancelled", "awaiting_input"}
        \subseteq AttemptStatus
  /\ {"pending", "running", "awaiting_input", "succeeded", "failed", "cancelled"} \subseteq RunStatus
  BY DEF TaskStatus, AttemptStatus, RunStatus

\* Rewriting columns of a row gives a row.
LEMMA RowUpdates ==
  /\ \A r \in TaskRow, s \in TaskStatus : [r EXCEPT !.state = s] \in TaskRow
  /\ \A r \in TaskRow, s \in TaskStatus : [r EXCEPT !.state = s, !.attempts = @ + 1] \in TaskRow
  /\ \A r \in TaskRow, s \in TaskStatus, b \in BOOLEAN :
        [r EXCEPT !.state = s, !.asked = b] \in TaskRow
  /\ \A r \in AttemptRow, s \in AttemptStatus : [r EXCEPT !.status = s] \in AttemptRow
  <1>1. \A r \in TaskRow, s \in TaskStatus : [r EXCEPT !.state = s] \in TaskRow
    BY DEF TaskRow
  <1>2. \A r \in TaskRow, s \in TaskStatus : [r EXCEPT !.state = s, !.attempts = @ + 1] \in TaskRow
    <2> TAKE r \in TaskRow, s \in TaskStatus
    <2> DEFINE n == r.attempts + 1
    <2>1. n \in Nat
      BY DEF TaskRow
    <2> HIDE DEF n
    <2>2. [r EXCEPT !.state = s, !.attempts = n] \in TaskRow
      BY <2>1 DEF TaskRow
    <2> QED
      BY <2>2 DEF n
  <1>3. \A r \in TaskRow, s \in TaskStatus, b \in BOOLEAN :
          [r EXCEPT !.state = s, !.asked = b] \in TaskRow
    BY DEF TaskRow
  <1>4. \A r \in AttemptRow, s \in AttemptStatus : [r EXCEPT !.status = s] \in AttemptRow
    BY DEF AttemptRow
  <1> QED
    BY <1>1, <1>2, <1>3, <1>4

LEMMA RunUpdates ==
  /\ \A r \in RunRow, s \in RunStatus : [r EXCEPT !.status = s] \in RunRow
  /\ \A r \in RunRow, s \in RunStatus, l \in Limits :
        [r EXCEPT !.status = s, !.exceeded = @ \cup {l}] \in RunRow
  /\ \A r \in RunRow, s \in RunStatus, v \in Nat :
        [r EXCEPT !.status = s, !.version = v] \in RunRow
  BY DEF RunRow

LEMMA PromoteRowsType ==
  ASSUME LedgerTypeOK, NEW R, NEW B, PromoteRows(R, B)
  PROVE  tasks' \in [Tasks -> TaskRow]
  BY RowUpdates, Constants DEF LedgerTypeOK, PromoteRows

LEMMA ClaimTaskType ==
  ASSUME LedgerTypeOK, NEW t \in Tasks, NEW a \in Attempts, ClaimTask(t, a, FALSE)
  PROVE  LedgerTypeOK'
  <1>1. tasks' \in [Tasks -> TaskRow]
    BY RowUpdates, Constants DEF LedgerTypeOK, ClaimTask
  <1>2. atts' \in [Attempts -> AttemptRow]
    BY Constants DEF LedgerTypeOK, ClaimTask, AttemptRow
  <1>3. run' \in RunRow
    <2> DEFINE status == IF run.status = "pending" THEN "running" ELSE run.status
    <2>1. status \in RunStatus
      BY Constants DEF LedgerTypeOK, RunRow
    <2>2. run' = [run EXCEPT !.status = status]
      BY DEF ClaimTask
    <2> HIDE DEF status
    <2> QED
      BY <2>1, <2>2, RunUpdates DEF LedgerTypeOK
  <1> QED
    BY <1>1, <1>2, <1>3 DEF LedgerTypeOK

LEMMA FinishTaskType ==
  ASSUME LedgerTypeOK, NEW t \in Tasks, NEW a \in Attempts, NEW b \in BOOLEAN, FinishTask(t, a, b)
  PROVE  LedgerTypeOK'
  BY RowUpdates, Constants DEF LedgerTypeOK, FinishTask

LEMMA RetryTaskType ==
  ASSUME LedgerTypeOK, NEW t \in Tasks, NEW a \in Attempts, RetryTask(t, a)
  PROVE  LedgerTypeOK'
  BY RowUpdates, Constants DEF LedgerTypeOK, RetryTask

LEMMA AwaitInputType ==
  ASSUME LedgerTypeOK, NEW t \in Tasks, NEW a \in Attempts, AwaitInput(t, a)
  PROVE  LedgerTypeOK'
  <1>1. tasks' \in [Tasks -> TaskRow]
    BY RowUpdates, Constants DEF LedgerTypeOK, AwaitInput
  <1>2. IF atts[a].status = "running" THEN "awaiting_input" \in AttemptStatus
                                      ELSE atts[a].status \in AttemptStatus
    BY Constants DEF LedgerTypeOK, AttemptRow
  <1>3. atts' \in [Attempts -> AttemptRow]
    BY <1>2, RowUpdates DEF LedgerTypeOK, AwaitInput
  <1>4. run' \in RunRow
    BY RunUpdates, Constants DEF LedgerTypeOK, AwaitInput
  <1> QED
    BY <1>1, <1>3, <1>4 DEF LedgerTypeOK

LEMMA AnswerInputType ==
  ASSUME LedgerTypeOK, AnswerInput
  PROVE  LedgerTypeOK'
  <1>1. run' \in RunRow
    <2> DEFINE status == IF run.status = "awaiting_input" THEN "pending" ELSE run.status
    <2>1. status \in RunStatus
      BY Constants DEF LedgerTypeOK, RunRow
    <2>2. run' = [run EXCEPT !.status = status]
      BY DEF AnswerInput
    <2> HIDE DEF status
    <2> QED
      BY <2>1, <2>2, RunUpdates DEF LedgerTypeOK
  <1>2. tasks' \in [Tasks -> TaskRow]
    <2>1. PICK t \in Tasks : tasks' = [tasks EXCEPT ![t].state = "ready"]
      BY DEF AnswerInput
    <2> QED
      BY <2>1, RowUpdates, Constants DEF LedgerTypeOK
  <1> QED
    BY <1>1, <1>2 DEF LedgerTypeOK, AnswerInput

LEMMA RecoverRunningType ==
  ASSUME LedgerTypeOK, NEW R, RecoverRunning(R)
  PROVE  LedgerTypeOK'
  BY RowUpdates, Constants DEF LedgerTypeOK, RecoverRunning

LEMMA EndRunningAttemptsType ==
  ASSUME LedgerTypeOK, NEW outcome \in AttemptStatus, EndRunningAttempts(outcome)
  PROVE  atts' \in [Attempts -> AttemptRow]
  BY RowUpdates DEF LedgerTypeOK, EndRunningAttempts

LEMMA CancelRunType ==
  ASSUME LedgerTypeOK, CancelRun
  PROVE  LedgerTypeOK'
  <1>1. tasks' \in [Tasks -> TaskRow]
    BY RowUpdates, Constants DEF LedgerTypeOK, CancelRun
  <1>2. run' \in RunRow
    BY RunUpdates, Constants DEF LedgerTypeOK, CancelRun
  <1> QED
    BY <1>1, <1>2, EndRunningAttemptsType, Constants DEF LedgerTypeOK, CancelRun

LEMMA FailBudgetType ==
  ASSUME LedgerTypeOK, NEW limit \in Limits, FailBudget(limit)
  PROVE  LedgerTypeOK'
  <1>1. CASE BudgetIgnored(limit)
    BY <1>1 DEF LedgerTypeOK, FailBudget, ledger
  <1>2. CASE ~ BudgetIgnored(limit)
    <2>1. \A t \in Tasks : BudgetFailed(t, limit) \in TaskStatus
      BY Constants DEF LedgerTypeOK, BudgetFailed, TaskRow
    <2>2. tasks' = [t \in Tasks |-> [tasks[t] EXCEPT !.state = BudgetFailed(t, limit)]]
      BY <1>2 DEF FailBudget
    <2>3. tasks' \in [Tasks -> TaskRow]
      BY <2>1, <2>2, RowUpdates DEF LedgerTypeOK
    <2>4. run' = [run EXCEPT !.status = "failed", !.exceeded = @ \cup {limit}]
      BY <1>2 DEF FailBudget
    <2>5. run' \in RunRow
      BY <2>4, RunUpdates, Constants DEF LedgerTypeOK
    <2>6. EndRunningAttempts("failed")
      BY <1>2 DEF FailBudget
    <2>7. atts' \in [Attempts -> AttemptRow]
      BY <2>6, EndRunningAttemptsType, Constants
    <2> QED
      BY <2>3, <2>5, <2>7 DEF LedgerTypeOK
  <1> QED
    BY <1>1, <1>2

LEMMA SettleRunType ==
  ASSUME LedgerTypeOK, SettleRun
  PROVE  LedgerTypeOK'
  <1>1. DerivedStatus \in RunStatus
    BY DEF DerivedStatus, RunStatus
  <1> QED
    BY <1>1, RunUpdates DEF LedgerTypeOK, SettleRun

LEMMA CommitPlanRevisionType ==
  ASSUME LedgerTypeOK, NEW parent \in Nat, NEW existing \in [Tasks -> TaskRow],
         NEW plan, \A t \in DOMAIN plan : plan[t] \subseteq Tasks, CommitPlanRevision(parent, existing, plan)
  PROVE  LedgerTypeOK'
  <1>2. \A t \in DOMAIN plan, r \in TaskRow :
          [r EXCEPT !.state = FreshState(plan[t]), !.deps = plan[t], !.attempts = 0] \in TaskRow
    BY Constants DEF FreshState, TaskRow
  <1>3. \A t \in Tasks : Revised(existing, plan)[t] \in TaskRow
    BY <1>2, RowUpdates, Constants DEF LedgerTypeOK, Revised
  <1>4. Revised(existing, plan) \in [Tasks -> TaskRow]
    BY <1>3 DEF Revised
  <1>5. run' = [run EXCEPT !.status = "pending", !.version = parent + 1] /\ parent + 1 \in Nat
    BY DEF CommitPlanRevision
  <1>6. run' \in RunRow
    BY <1>5, RunUpdates, Constants DEF LedgerTypeOK
  <1> QED
    BY <1>4, <1>6 DEF LedgerTypeOK, CommitPlanRevision
=============================================================================
