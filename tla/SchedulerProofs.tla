-------------------------- MODULE SchedulerProofs --------------------------
(***************************************************************************)
(* Proofs about Scheduler for any number of tasks, attempts, controllers,   *)
(* worker threads, crashes and plan revisions.                              *)
(***************************************************************************)
EXTENDS Scheduler, StoreProofs, TLAPS, FiniteSetTheorems

\* The promotion loop only returns task rows.
LEMMA RowsAreTasks == ReadyRows \subseteq Tasks /\ BlockedRows \subseteq Tasks
  BY DEF ReadyRows, BlockedRows, Undecided, InState

\* The initial ledger and the initial processes have their types.
LEMMA TypeInit == Init => TypeOK
  <1> SUFFICES ASSUME Init PROVE TypeOK
    OBVIOUS
  <1>1. LedgerTypeOK /\ ArtifactsTypeOK
    BY StoreInitType DEF Init
  <1>5. pc \in [Controllers -> PcStates]
    BY DEF Init, PcStates
  <1>6. rows \in [Controllers -> [ready : SUBSET Tasks, blocked : SUBSET Tasks,
                                  running : SUBSET Tasks]]
    BY DEF Init, NoRows
  <1>7. picked \in [Controllers -> [task : Tasks, seen : Nat]]
    BY StoreAssumption DEF Init, NoTask, Tasks
  <1>8. job \in [Attempts -> [pc : JobStates, by : Controllers \cup {Nobody}, seen : Nat]]
    BY DEF Init, JobStates
  <1> QED
    BY <1>1, <1>5, <1>6, <1>7, <1>8 DEF Init, TypeOK, StoreTypeOK, LedgerTypeOK, ArtifactsTypeOK, RunRow, AttemptRow

-----------------------------------------------------------------------------
(* Type correctness of the processes around the ledger.                        *)

JobRow   == [pc : JobStates, by : Controllers \cup {Nobody}, seen : Nat]
ReadRow  == [ready : SUBSET Tasks, blocked : SUBSET Tasks, running : SUBSET Tasks]
DraftRow == {NoDraft} \cup [parent : Nat, existing : [Tasks -> TaskRow], plan : Revisions]

ControlTypeOK ==
    /\ pc \in [Controllers -> PcStates]
    /\ rows \in [Controllers -> ReadRow]
    /\ picked \in [Controllers -> [task : Tasks, seen : Nat]]
    /\ claimed \in [Controllers -> Nat]
    /\ late \in [Controllers -> BOOLEAN]

JobsTypeOK == job \in [Attempts -> JobRow]
RestTypeOK == draft \in DraftRow /\ crashes \in Nat

LEMMA TypeParts ==
  TypeOK <=> LedgerTypeOK /\ ArtifactsTypeOK /\ ControlTypeOK /\ JobsTypeOK /\ RestTypeOK
  BY DEF TypeOK, StoreTypeOK, LedgerTypeOK, ArtifactsTypeOK, ControlTypeOK, JobsTypeOK,
         RestTypeOK, RunRow, AttemptRow, JobRow, ReadRow, DraftRow

\* The same split after a step.
LEMMA TypePartsNext ==
  TypeOK' <=> LedgerTypeOK' /\ ArtifactsTypeOK' /\ ControlTypeOK' /\ JobsTypeOK' /\ RestTypeOK'
  BY DEF TypeOK, StoreTypeOK, LedgerTypeOK, ArtifactsTypeOK, ControlTypeOK, JobsTypeOK,
         RestTypeOK, RunRow, AttemptRow, JobRow, ReadRow, DraftRow

\* Moving a job or a main thread keeps its type.
LEMMA GotoType ==
  ASSUME ControlTypeOK, NEW c \in Controllers, NEW l \in PcStates, Goto(c, l)
  PROVE  pc' \in [Controllers -> PcStates]
  BY DEF ControlTypeOK, Goto

LEMMA JobGotoType ==
  ASSUME JobsTypeOK, NEW a \in Attempts, NEW l \in JobStates, JobGoto(a, l)
  PROVE  JobsTypeOK'
  BY DEF JobsTypeOK, JobGoto, JobRow

\* What recover_running or next_task read, and the cleared cursor, are cursor values.
LEMMA ReadRows ==
  /\ NoRows \in ReadRow
  /\ [NoRows EXCEPT !.running = InState({"running"})] \in ReadRow
  /\ [NoRows EXCEPT !.ready = ReadyRows, !.blocked = BlockedRows] \in ReadRow
  <1>1. InState({"running"}) \subseteq Tasks
    BY DEF InState
  <1> HIDE DEF InState
  <1> QED
    BY <1>1, RowsAreTasks DEF NoRows, ReadRow

\* The unchanged parts of the state keep their types.
LEMMA UnchangedTypes ==
  /\ LedgerTypeOK /\ UNCHANGED ledger => LedgerTypeOK'
  /\ ArtifactsTypeOK /\ UNCHANGED artifacts => ArtifactsTypeOK'
  /\ ControlTypeOK /\ UNCHANGED control => ControlTypeOK'
  /\ JobsTypeOK /\ UNCHANGED job => JobsTypeOK'
  /\ RestTypeOK /\ UNCHANGED <<draft, crashes>> => RestTypeOK'
  BY DEF ledger, artifacts, control, LedgerTypeOK, ArtifactsTypeOK, ControlTypeOK, JobsTypeOK,
         RestTypeOK

\* A late result is dropped without leaving the types of the artifact index.
LEMMA DiscardType ==
  ASSUME ArtifactsTypeOK, NEW t \in Tasks, NEW a \in Attempts, DiscardLateResult(t, a)
  PROVE  ArtifactsTypeOK'
  BY DEF ArtifactsTypeOK, DiscardLateResult

LEMMA DiscardIfStoppedType ==
  ASSUME LedgerTypeOK, ArtifactsTypeOK, JobsTypeOK, NEW a \in Attempts, DiscardIfStopped(a)
  PROVE  LedgerTypeOK' /\ ArtifactsTypeOK' /\ JobsTypeOK'
  <1>1. atts[a].task \in Tasks
    BY DEF LedgerTypeOK, AttemptRow
  <1>2. ArtifactsTypeOK'
    BY <1>1, DiscardType DEF DiscardIfStopped
  <1>3. JobsTypeOK'
    BY JobGotoType DEF DiscardIfStopped, JobStates
  <1> QED
    BY <1>2, <1>3, UnchangedTypes DEF DiscardIfStopped

LEMMA BudgetStopsType ==
  ASSUME LedgerTypeOK, ArtifactsTypeOK, JobsTypeOK, NEW a \in Attempts, BudgetStops(a)
  PROVE  LedgerTypeOK' /\ ArtifactsTypeOK' /\ JobsTypeOK'
  <1>1. LedgerTypeOK'
    BY FailBudgetType DEF BudgetStops, Limits
  <1>2. JobsTypeOK'
    BY JobGotoType DEF BudgetStops, JobStates
  <1> QED
    BY <1>1, <1>2, UnchangedTypes DEF BudgetStops

LEMMA HandleType ==
  ASSUME LedgerTypeOK, ArtifactsTypeOK, JobsTypeOK, NEW a \in Attempts, Handle(a)
  PROVE  LedgerTypeOK' /\ ArtifactsTypeOK' /\ JobsTypeOK'
  <1>1. CASE DiscardIfStopped(a)
    BY <1>1, DiscardIfStoppedType
  <1>2. CASE BudgetStops(a)
    BY <1>2, BudgetStopsType
  <1>3. CASE JobGoto(a, "failing") /\ UNCHANGED store
    BY <1>3, JobGotoType, UnchangedTypes DEF store, JobStates
  <1> QED
    BY <1>1, <1>2, <1>3 DEF Handle

\* Steps of a main thread.
LEMMA MainTypes ==
  ASSUME TypeOK, NEW c \in Controllers, ResumeStart(c) \/ MainStep(c)
  PROVE  TypeOK'
  <1> USE TypeParts, TypePartsNext
  <1>1. CASE ResumeStart(c)
    <2>1. ControlTypeOK'
      BY <1>1, ReadRows, GotoType DEF ResumeStart, ControlTypeOK, PcStates
    <2> QED
      BY <1>1, <2>1, UnchangedTypes DEF ResumeStart, store
  <1>2. CASE Recover(c)
    <2>1. ControlTypeOK'
      BY <1>2, ReadRows, GotoType DEF Recover, ControlTypeOK, PcStates
    <2>2. LedgerTypeOK'
      BY <1>2, RecoverRunningType DEF Recover
    <2> QED
      BY <1>2, <2>1, <2>2, UnchangedTypes DEF Recover
  <1>3. CASE NextTaskRead(c)
    <2>1. ControlTypeOK'
      BY <1>3, ReadRows, GotoType DEF NextTaskRead, ControlTypeOK, PcStates
    <2> QED
      BY <1>3, <2>1, UnchangedTypes DEF NextTaskRead, store
  <1>4. CASE NextTaskWrite(c)
    <2>1. tasks' \in [Tasks -> TaskRow]
      BY <1>4, PromoteRowsType DEF NextTaskWrite
    <2>2. LedgerTypeOK'
      BY <1>4, <2>1 DEF NextTaskWrite, LedgerTypeOK
    <2>3. \A t \in Tasks : [task |-> t, seen |-> tasks[t].attempts] \in [task : Tasks, seen : Nat]
      BY DEF LedgerTypeOK, TaskRow
    <2>4. picked' \in [Controllers -> [task : Tasks, seen : Nat]]
      BY <1>4, <2>3 DEF NextTaskWrite, ControlTypeOK
    <2>5. pc' \in [Controllers -> PcStates]
      BY <1>4, GotoType DEF NextTaskWrite, PcStates
    <2>6. ControlTypeOK'
      BY <1>4, <2>4, <2>5, ReadRows DEF NextTaskWrite, ControlTypeOK
    <2> QED
      BY <1>4, <2>2, <2>6, UnchangedTypes DEF NextTaskWrite
  <1>5. CASE CheckBudget(c)
    <2>1. LedgerTypeOK'
      BY <1>5, FailBudgetType, UnchangedTypes DEF CheckBudget, Limits
    <2>2. ControlTypeOK'
      BY <1>5, GotoType DEF CheckBudget, ControlTypeOK, PcStates
    <2> QED
      BY <1>5, <2>1, <2>2, UnchangedTypes DEF CheckBudget
  <1>6. CASE Claim(c)
    <2> DEFINE t == picked[c].task
    <2>1. t \in Tasks /\ picked[c].seen \in Nat
      BY DEF ControlTypeOK
    <2>2. LedgerTypeOK'
      BY <1>6, <2>1, ClaimTaskType, UnchangedTypes DEF Claim
    <2>3. \A l \in {"start", "nofactory"} : [pc |-> l, by |-> c, seen |-> picked[c].seen] \in JobRow
      BY <2>1 DEF JobRow, JobStates
    <2>4. JobsTypeOK'
      BY <1>6, <2>3 DEF Claim, JobsTypeOK
    <2>5. \E l \in PcStates : Goto(c, l)
      BY <1>6 DEF Claim, PcStates
    <2>6. pc' \in [Controllers -> PcStates]
      BY <2>5, GotoType
    <2>7. claimed' = claimed \/ claimed' = [claimed EXCEPT ![c] = @ + 1]
      BY <1>6 DEF Claim
    <2>8. claimed' \in [Controllers -> Nat]
      BY <2>7 DEF ControlTypeOK
    <2> QED
      BY <1>6, <2>2, <2>4, <2>6, <2>8, UnchangedTypes DEF Claim, ControlTypeOK
  <1>7. CASE RecordTaskFailure(c)
    <2>1. PICK a \in Attempts :
            /\ \/ UNCHANGED ledger
               \/ RetryTask(atts[a].task, a)
               \/ FinishTask(atts[a].task, a, FALSE)
            /\ job' = [job EXCEPT ![a].pc = "over"]
      BY <1>7 DEF RecordTaskFailure, JobsOf
    <2>2. atts[a].task \in Tasks
      BY DEF LedgerTypeOK, AttemptRow
    <2>3. LedgerTypeOK'
      BY <2>1, <2>2, RetryTaskType, FinishTaskType, UnchangedTypes
    <2>4. JobsTypeOK'
      BY <2>1 DEF JobsTypeOK, JobRow, JobStates
    <2>5. ControlTypeOK'
      BY <1>7, GotoType DEF RecordTaskFailure, ControlTypeOK, PcStates
    <2> QED
      BY <1>7, <2>3, <2>4, <2>5, UnchangedTypes DEF RecordTaskFailure
  <1>8. CASE WaitRound(c)
    <2>1. ControlTypeOK'
      BY <1>8, GotoType DEF WaitRound, ControlTypeOK, PcStates
    <2>2. JobsTypeOK'
      BY <1>8 DEF WaitRound, JobsTypeOK, JobRow, JobStates
    <2> QED
      BY <1>8, <2>1, <2>2, UnchangedTypes DEF WaitRound, store
  <1>9. CASE Drain(c)
    <2>1. ControlTypeOK'
      BY <1>9, GotoType DEF Drain, ControlTypeOK, PcStates
    <2>2. JobsTypeOK'
      BY <1>9 DEF Drain, JobsOf, JobsTypeOK, JobRow, JobStates
    <2> QED
      BY <1>9, <2>1, <2>2, UnchangedTypes DEF Drain, store
  <1>10. CASE Settle(c)
    <2>1. ControlTypeOK'
      BY <1>10, GotoType DEF Settle, ControlTypeOK, PcStates
    <2>2. LedgerTypeOK'
      BY <1>10, SettleRunType DEF Settle
    <2> QED
      BY <1>10, <2>1, <2>2, UnchangedTypes DEF Settle
  <1> QED
    BY <1>1, <1>2, <1>3, <1>4, <1>5, <1>6, <1>7, <1>8, <1>9, <1>10 DEF MainStep

\* Steps of a job: each leaves the ledger, the artifacts and the jobs well typed.
LEMMA JobTypes ==
  ASSUME TypeOK, NEW a \in Attempts, JobStep(a)
  PROVE  TypeOK'
  <1> USE TypeParts, TypePartsNext
  <1> DEFINE Good == LedgerTypeOK' /\ ArtifactsTypeOK' /\ JobsTypeOK'
  <1>0. atts[a].task \in Tasks
    BY DEF LedgerTypeOK, AttemptRow
  <1>a. \A l \in JobStates : JobGoto(a, l) => JobsTypeOK'
    BY JobGotoType
  <1>b. DiscardIfStopped(a) => Good
    BY DiscardIfStoppedType
  <1>c. BudgetStops(a) => Good
    BY BudgetStopsType
  <1>d. Handle(a) => Good
    BY HandleType
  <1>e. \A l \in JobStates : JobGoto(a, l) /\ UNCHANGED store => Good
    BY <1>a, UnchangedTypes DEF store
  <1>f. RetryTask(atts[a].task, a) \/ FinishTask(atts[a].task, a, TRUE)
          \/ FinishTask(atts[a].task, a, FALSE) \/ AwaitInput(atts[a].task, a) => LedgerTypeOK'
    BY <1>0, RetryTaskType, FinishTaskType, AwaitInputType
  <1>g. FailBudget("max_runtime_seconds") => LedgerTypeOK'
    BY FailBudgetType DEF Limits
  <1>1. ASSUME StartJob(a) PROVE Good /\ JobFrame
    BY <1>1, <1>b, <1>c, <1>e DEF StartJob, JobStates
  <1>2. ASSUME RuntimeResult(a) PROVE Good /\ JobFrame
    <2>1. CASE DiscardIfStopped(a)
      BY <1>2, <2>1, <1>b DEF RuntimeResult
    <2>2. CASE ~ DiscardIfStopped(a)
      BY <1>2, <2>2, <1>a, UnchangedTypes DEF RuntimeResult, ArtifactsTypeOK, JobStates
    <2> QED
      BY <2>1, <2>2
  <1>3. ASSUME RuntimeAsks(a) PROVE Good /\ JobFrame
    BY <1>3, <1>a, <1>b, <1>f, UnchangedTypes DEF RuntimeAsks, JobStates
  <1>4. ASSUME RuntimeRaises(a) PROVE Good /\ JobFrame
    BY <1>4, <1>d DEF RuntimeRaises
  <1>5. ASSUME RecordFailure(a) PROVE Good /\ JobFrame
    BY <1>5, <1>a, <1>f, UnchangedTypes DEF RecordFailure, JobStates
  <1>6. ASSUME Evaluate(a) PROVE Good /\ JobFrame
    <2>1. CASE BudgetStops(a) \/ Handle(a)
      BY <1>6, <2>1, <1>c, <1>d DEF Evaluate
    <2>2. CASE JobGoto(a, "rejected") /\ UNCHANGED store
      BY <1>6, <2>2, <1>e DEF Evaluate, JobStates
    <2>3. CASE /\ passed' = passed \cup {a} /\ JobGoto(a, "accepted")
               /\ UNCHANGED <<ledger, results, outputs, promoted, file>>
      BY <1>6, <2>3, <1>a, UnchangedTypes DEF Evaluate, ArtifactsTypeOK, JobStates
    <2> QED
      BY <1>6, <2>1, <2>2, <2>3 DEF Evaluate
  <1>7. ASSUME CopyOutput(a) \/ IndexOutput(a) \/ AnnounceOutput(a) PROVE Good /\ JobFrame
    <2>1. CASE DiscardIfStopped(a) \/ Handle(a)
      BY <1>7, <2>1, <1>b, <1>d DEF CopyOutput, IndexOutput, AnnounceOutput
    <2>2. CASE ~ (DiscardIfStopped(a) \/ Handle(a))
      <3>1. ArtifactsTypeOK'
        BY <1>0, <1>7, <2>2 DEF CopyOutput, IndexOutput, AnnounceOutput, ArtifactsTypeOK
      <3>2. LedgerTypeOK' /\ JobsTypeOK' /\ JobFrame
        BY <1>7, <2>2, <1>a, UnchangedTypes DEF CopyOutput, IndexOutput, AnnounceOutput, JobStates
      <3> QED
        BY <3>1, <3>2
    <2> QED
      BY <2>1, <2>2
  <1>8. ASSUME Complete(a) PROVE Good /\ JobFrame
    BY <1>8, <1>a, <1>b, <1>f, UnchangedTypes DEF Complete, JobStates
  <1>9. ASSUME Reject(a) PROVE Good /\ JobFrame
    BY <1>9, <1>b, <1>e DEF Reject, JobStates
  <1>10. ASSUME RecordRejection(a) PROVE Good /\ JobFrame
    BY <1>10, <1>a, <1>b, <1>f, UnchangedTypes DEF RecordRejection, JobStates
  <1>11. Good /\ JobFrame
    BY <1>1, <1>2, <1>3, <1>4, <1>5, <1>6, <1>7, <1>8, <1>9, <1>10 DEF JobStep
  <1> QED
    BY <1>11, UnchangedTypes DEF JobFrame

\* Commands of the owner, time and crashes.
LEMMA EnvironmentTypes ==
  ASSUME TypeOK,
         \/ \E c \in Controllers : DeadlinePasses(c) \/ Crash(c)
         \/ Cancel \/ Answer \/ ReviseRead \/ ReviseWrite
  PROVE  TypeOK'
  <1> USE TypeParts, TypePartsNext
  <1>1. ASSUME NEW c \in Controllers, DeadlinePasses(c) PROVE TypeOK'
    <2>1. ControlTypeOK'
      BY <1>1 DEF DeadlinePasses, ControlTypeOK
    <2> QED
      BY <1>1, <2>1, UnchangedTypes DEF DeadlinePasses, store
  <1>2. ASSUME NEW c \in Controllers, Crash(c) PROVE TypeOK'
    <2>1. ControlTypeOK'
      BY <1>2, ReadRows, GotoType DEF Crash, ControlTypeOK, PcStates
    <2>2. JobsTypeOK'
      BY <1>2 DEF Crash, JobsTypeOK, JobRow, JobStates
    <2>3. RestTypeOK'
      BY <1>2 DEF Crash, RestTypeOK
    <2> QED
      BY <1>2, <2>1, <2>2, <2>3, UnchangedTypes DEF Crash, store
  <1>3. CASE Cancel
    BY <1>3, CancelRunType, UnchangedTypes DEF Cancel
  <1>4. CASE Answer
    BY <1>4, AnswerInputType, UnchangedTypes DEF Answer
  <1>5. CASE ReviseRead
    <2>1. draft' \in DraftRow
      BY <1>5 DEF ReviseRead, DraftRow, LedgerTypeOK, RunRow
    <2> QED
      BY <1>5, <2>1, UnchangedTypes DEF ReviseRead, RestTypeOK, store
  <1>6. CASE ReviseWrite
    <2>1. draft \in [parent : Nat, existing : [Tasks -> TaskRow], plan : Revisions]
      BY <1>6 DEF ReviseWrite, RestTypeOK, DraftRow
    <2>2. LedgerTypeOK'
      BY <1>6, <2>1, CommitPlanRevisionType, SchedulerAssumption DEF ReviseWrite
    <2>3. RestTypeOK'
      BY <1>6 DEF ReviseWrite, RestTypeOK, DraftRow
    <2> QED
      BY <1>6, <2>2, <2>3, UnchangedTypes DEF ReviseWrite
  <1> QED
    BY <1>1, <1>2, <1>3, <1>4, <1>5, <1>6

LEMMA TypeStep == TypeOK /\ [Next]_vars => TypeOK'
  <1> SUFFICES ASSUME TypeOK, [Next]_vars PROVE TypeOK'
    OBVIOUS
  <1>1. CASE UNCHANGED vars
    BY <1>1, TypeParts, TypePartsNext, UnchangedTypes DEF vars, store
  <1>2. CASE Next
    BY <1>2, MainTypes, JobTypes, EnvironmentTypes DEF Next
  <1> QED
    BY <1>1, <1>2

\* Type correctness: every row the store writes and every local variable of the controllers,
\* jobs and owner commands keeps its type, for any plan, any number of controllers, crashes
\* and revisions.
THEOREM TypeCorrect == Spec => []TypeOK
  BY TypeInit, TypeStep, PTL DEF Spec

-----------------------------------------------------------------------------
(* The inductive invariant.  RunningHasAttempt and SucceededIsVerified speak of the ledger   *)
(* alone; JobsMatchAttempts is what makes them inductive: a job that is still active has an  *)
(* attempt row that is not the succeeded one of a verified task.                             *)

IInv == TypeOK /\ JobsMatchAttempts /\ RunningHasAttempt /\ SucceededIsVerified

\* All steps but a claim keep the rows in this sense: an attempt row keeps its task and its
\* status, unless its task stops running with the step; and only a verified task succeeds.
AttemptsKept ==
    \A a \in Attempts :
       /\ atts'[a].task = atts[a].task
       /\ \/ atts'[a].status = atts[a].status
          \/ /\ atts[a].status \notin {"none", "succeeded"} /\ atts'[a].status # "none"
             /\ tasks'[atts[a].task].state # "running"

TasksKept ==
    \A t \in Tasks :
       /\ tasks'[t].state = "running" => tasks[t].state = "running"
       /\ tasks'[t].state = "succeeded" =>
            \/ tasks[t].state = "succeeded"
            \/ \E a \in Attempts : /\ atts'[a].task = t /\ atts'[a].status = "succeeded"
                                   /\ a \in passed'

\* A job whose result has passed, until it completes its task.
Promoting == {"accepted", "copied", "indexed", "promoted"}

\* No job starts or accepts without its evaluation, and one whose attempt succeeds is over.
JobsKept ==
    \A a \in Attempts :
       /\ job'[a].pc # "none" => job[a].pc # "none"
       /\ job'[a].pc \in Active => job[a].pc \in Active
       /\ job'[a].pc \in Promoting => job[a].pc \in Promoting \/ a \in passed'
       /\ atts'[a].status = "succeeded" => atts[a].status = "succeeded" \/ job'[a].pc \notin Active

LEMMA KeptStep ==
  ASSUME IInv, LedgerTypeOK', passed \subseteq passed', AttemptsKept, TasksKept, JobsKept
  PROVE  JobsMatchAttempts' /\ RunningHasAttempt' /\ SucceededIsVerified'
  <1>1. JobsMatchAttempts'
    <2> SUFFICES ASSUME NEW a \in Attempts
                 PROVE  /\ job'[a].pc # "none" => atts'[a].status # "none"
                        /\ job'[a].pc \in Promoting => a \in passed'
                        /\ atts'[a].status = "succeeded" => job'[a].pc \notin Active
      BY DEF JobsMatchAttempts, Promoting
    <2>1. /\ job[a].pc # "none" => atts[a].status # "none"
          /\ job[a].pc \in Promoting => a \in passed
          /\ atts[a].status = "succeeded" => job[a].pc \notin Active
      BY DEF IInv, JobsMatchAttempts, Promoting
    <2> QED
      BY <2>1 DEF AttemptsKept, JobsKept
  <1>2. RunningHasAttempt'
    <2> SUFFICES ASSUME NEW t \in Tasks, tasks'[t].state = "running"
                 PROVE  \E a \in Attempts : /\ atts'[a].status # "none" /\ atts'[a].task = t
                                            /\ atts'[a].status = "running"
      BY DEF RunningHasAttempt, AttemptsOf, Running
    <2>1. PICK a \in Attempts : atts[a].task = t /\ atts[a].status = "running"
      BY DEF IInv, RunningHasAttempt, AttemptsOf, Running, TasksKept
    <2> QED
      BY <2>1 DEF AttemptsKept
  <1>3. SucceededIsVerified'
    <2> SUFFICES ASSUME NEW t \in Tasks, tasks'[t].state = "succeeded"
                 PROVE  \E a \in Attempts : /\ atts'[a].status # "none" /\ atts'[a].task = t
                                            /\ a \in passed' /\ atts'[a].status = "succeeded"
      BY DEF SucceededIsVerified, InState, AttemptsOf
    <2>1. CASE tasks[t].state = "succeeded"
      <3>1. PICK a \in Attempts : atts[a].task = t /\ a \in passed /\ atts[a].status = "succeeded"
        BY <2>1 DEF IInv, SucceededIsVerified, InState, AttemptsOf
      <3> QED
        BY <3>1 DEF AttemptsKept
    <2>2. CASE tasks[t].state # "succeeded"
      BY <2>2 DEF TasksKept
    <2> QED
      BY <2>1, <2>2
  <1> QED
    BY <1>1, <1>2, <1>3

\* A step that leaves the ledger alone keeps its rows.
LEMMA QuietLedger ==
  ASSUME UNCHANGED ledger
  PROVE  AttemptsKept /\ TasksKept
  BY DEF ledger, AttemptsKept, TasksKept

\* So do the steps that write only task rows, and none to running or succeeded.
LEMMA QuietTasks ==
  ASSUME UNCHANGED atts,
         \A t \in Tasks : tasks'[t].state \in {"running", "succeeded"} =>
                            tasks'[t].state = tasks[t].state
  PROVE  AttemptsKept /\ TasksKept
  BY DEF AttemptsKept, TasksKept

\* The job of attempt a settles its task: retry, failure, question or verified success.
LEMMA SettlingRows ==
  ASSUME LedgerTypeOK, NEW a \in Attempts, NEW s, NEW q,
         atts[a].status \notin {"none", "succeeded"},
         s # "running", q # "none", s = "succeeded" => q = "succeeded" /\ a \in passed',
         \A t \in Tasks : tasks'[t].state = IF t = atts[a].task THEN s ELSE tasks[t].state,
         \A b \in Attempts : /\ atts'[b].task = atts[b].task
                             /\ atts'[b].status = IF b = a THEN q ELSE atts[b].status
  PROVE  AttemptsKept /\ TasksKept
  <1>1. atts[a].task \in Tasks
    BY DEF LedgerTypeOK, AttemptRow
  <1>2. AttemptsKept
    BY <1>1 DEF AttemptsKept
  <1>3. TasksKept
    BY <1>1 DEF TasksKept
  <1> QED
    BY <1>2, <1>3

\* Ending every running attempt is sound when no task is running afterwards.
LEMMA EndingRows ==
  ASSUME LedgerTypeOK, NEW outcome \in AttemptStatus \ {"none"}, EndRunningAttempts(outcome),
         \A t \in Tasks : /\ tasks'[t].state # "running"
                          /\ tasks'[t].state = "succeeded" => tasks[t].state = "succeeded"
  PROVE  AttemptsKept /\ TasksKept
  <1>1. \A b \in Attempts : atts[b].task \in Tasks
    BY DEF LedgerTypeOK, AttemptRow
  <1>2. \A b \in Attempts : /\ atts'[b].task = atts[b].task
                            /\ atts'[b].status = IF atts[b].status = "running"
                                                   THEN outcome ELSE atts[b].status
    BY DEF LedgerTypeOK, AttemptRow, EndRunningAttempts
  <1>3. AttemptsKept
    BY <1>1, <1>2 DEF AttemptsKept
  <1>4. TasksKept
    BY DEF TasksKept
  <1> QED
    BY <1>3, <1>4

LEMMA FailBudgetRows ==
  ASSUME LedgerTypeOK, NEW limit \in Limits, FailBudget(limit)
  PROVE  AttemptsKept /\ TasksKept
  <1>1. CASE BudgetIgnored(limit)
    BY <1>1, QuietLedger DEF FailBudget
  <1>2. CASE ~ BudgetIgnored(limit)
    <2>1. /\ EndRunningAttempts("failed")
          /\ tasks' = [t \in Tasks |-> [tasks[t] EXCEPT !.state = BudgetFailed(t, limit)]]
      BY <1>2 DEF FailBudget
    <2>2. \A t \in Tasks : tasks'[t].state = BudgetFailed(t, limit)
      BY <2>1 DEF LedgerTypeOK, TaskRow
    <2>3. \A t \in Tasks : /\ BudgetFailed(t, limit) # "running"
                           /\ BudgetFailed(t, limit) = "succeeded" => tasks[t].state = "succeeded"
      BY DEF BudgetFailed
    <2> QED
      BY <2>1, <2>2, <2>3, EndingRows, Constants
  <1> QED
    BY <1>1, <1>2

LEMMA CancelRunRows ==
  ASSUME LedgerTypeOK, CancelRun
  PROVE  AttemptsKept /\ TasksKept
  <1>1. \A t \in Tasks : tasks'[t].state =
          IF tasks[t].state \in {"absent", "succeeded", "failed", "cancelled", "superseded"}
            THEN tasks[t].state ELSE "cancelled"
    BY DEF CancelRun, LedgerTypeOK, TaskRow
  <1>2. EndRunningAttempts("cancelled")
    BY DEF CancelRun
  <1> QED
    BY <1>1, <1>2, EndingRows, Constants

LEMMA RecoverRunningRows ==
  ASSUME LedgerTypeOK, NEW R, RecoverRunning(R)
  PROVE  AttemptsKept /\ TasksKept
  <1>1. \A b \in Attempts : atts[b].task \in Tasks
    BY DEF LedgerTypeOK, AttemptRow
  <1>2. \A t \in Tasks : tasks'[t].state = IF t \in R THEN "uncertain" ELSE tasks[t].state
    BY DEF RecoverRunning, LedgerTypeOK, TaskRow
  <1>3. \A b \in Attempts :
          /\ atts'[b].task = atts[b].task
          /\ atts'[b].status = IF atts[b].status = "running" /\ atts[b].task \in R
                                 THEN "uncertain" ELSE atts[b].status
    BY DEF RecoverRunning, LedgerTypeOK, AttemptRow
  <1>4. AttemptsKept
    BY <1>1, <1>2, <1>3 DEF AttemptsKept
  <1>5. TasksKept
    BY <1>2 DEF TasksKept
  <1> QED
    BY <1>4, <1>5

\* retry_task, finish_task and await_input, called by the job of attempt a.
LEMMA SettlingOperations ==
  ASSUME LedgerTypeOK, NEW a \in Attempts, atts[a].status \notin {"none", "succeeded"},
         \/ RetryTask(atts[a].task, a)
         \/ FinishTask(atts[a].task, a, FALSE)
         \/ FinishTask(atts[a].task, a, TRUE) /\ a \in passed'
         \/ AwaitInput(atts[a].task, a)
  PROVE  AttemptsKept /\ TasksKept
  <1> DEFINE t == atts[a].task
  <1>0. t \in Tasks /\ atts[a].status \in AttemptStatus
    BY DEF LedgerTypeOK, AttemptRow
  <1>1. CASE RetryTask(t, a)
    <2>1. \A u \in Tasks : tasks'[u].state = IF u = t THEN "ready" ELSE tasks[u].state
      BY <1>1 DEF RetryTask, LedgerTypeOK, TaskRow
    <2>2. \A b \in Attempts : /\ atts'[b].task = atts[b].task
                              /\ atts'[b].status = IF b = a THEN "failed" ELSE atts[b].status
      BY <1>1 DEF RetryTask, LedgerTypeOK, AttemptRow
    <2> QED
      BY <2>1, <2>2, SettlingRows
  <1>2. CASE FinishTask(t, a, FALSE)
    <2>1. \A u \in Tasks : tasks'[u].state = IF u = t THEN "failed" ELSE tasks[u].state
      BY <1>2 DEF FinishTask, LedgerTypeOK, TaskRow
    <2>2. \A b \in Attempts : /\ atts'[b].task = atts[b].task
                              /\ atts'[b].status = IF b = a THEN "failed" ELSE atts[b].status
      BY <1>2 DEF FinishTask, LedgerTypeOK, AttemptRow
    <2> QED
      BY <2>1, <2>2, SettlingRows
  <1>3. CASE FinishTask(t, a, TRUE) /\ a \in passed'
    <2>1. \A u \in Tasks : tasks'[u].state = IF u = t THEN "succeeded" ELSE tasks[u].state
      BY <1>3 DEF FinishTask, LedgerTypeOK, TaskRow
    <2>2. \A b \in Attempts : /\ atts'[b].task = atts[b].task
                              /\ atts'[b].status = IF b = a THEN "succeeded" ELSE atts[b].status
      BY <1>3 DEF FinishTask, LedgerTypeOK, AttemptRow
    <2> QED
      BY <1>3, <2>1, <2>2, SettlingRows
  <1>4. CASE AwaitInput(t, a)
    <2> DEFINE q == IF atts[a].status = "running" THEN "awaiting_input" ELSE atts[a].status
    <2>1. \A u \in Tasks : tasks'[u].state = IF u = t THEN "waiting" ELSE tasks[u].state
      BY <1>4 DEF AwaitInput, LedgerTypeOK, TaskRow
    <2>2. \A b \in Attempts : /\ atts'[b].task = atts[b].task
                              /\ atts'[b].status = IF b = a THEN q ELSE atts[b].status
      BY <1>4 DEF AwaitInput, LedgerTypeOK, AttemptRow
    <2>3. q # "none"
      OBVIOUS
    <2> HIDE DEF q
    <2> QED
      BY <2>1, <2>2, <2>3, SettlingRows
  <1> QED
    BY <1>1, <1>2, <1>3, <1>4

\* Only finish_task(True) makes an attempt succeeded.
SuccessKept == \A b \in Attempts : atts'[b].status = "succeeded" => atts[b].status = "succeeded"

LEMMA OnlyFinishSucceeds ==
  ASSUME LedgerTypeOK, NEW a \in Attempts,
         \/ UNCHANGED atts
         \/ RetryTask(atts[a].task, a) \/ FinishTask(atts[a].task, a, FALSE)
         \/ AwaitInput(atts[a].task, a) \/ CancelRun
         \/ \E limit \in Limits : FailBudget(limit)
         \/ \E R : RecoverRunning(R)
  PROVE  SuccessKept
  <1>1. CASE UNCHANGED atts
    BY <1>1 DEF SuccessKept
  <1>2. CASE RetryTask(atts[a].task, a)
    BY <1>2 DEF RetryTask, LedgerTypeOK, AttemptRow, SuccessKept
  <1>3. CASE FinishTask(atts[a].task, a, FALSE)
    BY <1>3 DEF FinishTask, LedgerTypeOK, AttemptRow, SuccessKept
  <1>4. CASE AwaitInput(atts[a].task, a)
    BY <1>4 DEF AwaitInput, LedgerTypeOK, AttemptRow, SuccessKept
  <1>5. EndRunningAttempts("cancelled") \/ EndRunningAttempts("failed") => SuccessKept
    BY DEF EndRunningAttempts, LedgerTypeOK, AttemptRow, SuccessKept
  <1>6. CASE CancelRun
    BY <1>5, <1>6 DEF CancelRun
  <1>7. CASE \E limit \in Limits : FailBudget(limit)
    BY <1>1, <1>5, <1>7 DEF FailBudget, ledger
  <1>8. CASE \E R : RecoverRunning(R)
    BY <1>8 DEF RecoverRunning, LedgerTypeOK, AttemptRow, SuccessKept
  <1> QED
    BY <1>1, <1>2, <1>3, <1>4, <1>6, <1>7, <1>8

\* A move of one active job.
LEMMA JobMoves ==
  ASSUME JobsTypeOK, NEW a \in Attempts, NEW l, JobGoto(a, l), job[a].pc \in Active, l # "none",
         l \in Promoting => job[a].pc \in Promoting \/ a \in passed',
         \/ SuccessKept
         \/ /\ l \notin Active
            /\ \A b \in Attempts \ {a} : atts'[b].status = atts[b].status
  PROVE  JobsKept
  <1>1. \A b \in Attempts : job'[b].pc = IF b = a THEN l ELSE job[b].pc
    BY DEF JobGoto, JobsTypeOK, JobRow
  <1>2. job[a].pc # "none"
    BY DEF Active
  <1> QED
    BY <1>1, <1>2 DEF JobsKept, SuccessKept

\* What the twelve steps of a job do to the ledger: nothing, settle the task of the attempt,
\* complete it once its evaluation is on record, or fail the run on its deadline.
JobMovesOn(a) ==
    /\ UNCHANGED ledger /\ passed \subseteq passed'
    /\ \E l \in JobStates \ {"none"} :
         /\ JobGoto(a, l)
         /\ l \in Promoting => job[a].pc \in Promoting \/ a \in passed'

JobSettles(a) ==
    /\ UNCHANGED passed /\ JobGoto(a, "over")
    /\ \/ RetryTask(atts[a].task, a)
       \/ FinishTask(atts[a].task, a, FALSE)
       \/ AwaitInput(atts[a].task, a)

JobCompletes(a) ==
    /\ UNCHANGED passed /\ JobGoto(a, "over")
    /\ job[a].pc = "promoted" /\ FinishTask(atts[a].task, a, TRUE)

JobExceeds(a) ==
    UNCHANGED passed /\ JobGoto(a, "over_budget") /\ FailBudget("max_runtime_seconds")

JobOutcome(a) == JobMovesOn(a) \/ JobSettles(a) \/ JobCompletes(a) \/ JobExceeds(a)

LEMMA JobOutcomes ==
  ASSUME NEW a \in Attempts, JobStep(a)
  PROVE  JobOutcome(a) /\ job[a].pc \in Active
  <1>a. DiscardIfStopped(a) => JobMovesOn(a)
    BY DEF DiscardIfStopped, DiscardLateResult, JobMovesOn, JobStates, Promoting
  <1>b. BudgetStops(a) => JobExceeds(a)
    BY DEF BudgetStops, JobExceeds, artifacts
  <1>c. \A l \in JobStates \ ({"none"} \cup Promoting) :
          JobGoto(a, l) /\ UNCHANGED store => JobMovesOn(a)
    BY DEF JobMovesOn, store, artifacts
  <1>d. Handle(a) => JobMovesOn(a) \/ JobExceeds(a)
    BY <1>a, <1>b, <1>c DEF Handle, JobStates, Promoting
  <1>1. CASE StartJob(a)
    BY <1>1, <1>a, <1>b, <1>c DEF StartJob, JobOutcome, JobStates, Active, Promoting
  <1>2. CASE RuntimeResult(a)
    <2>1. CASE DiscardIfStopped(a)
      BY <1>2, <2>1, <1>a DEF RuntimeResult, JobOutcome, JobStates, Active
    <2>2. CASE ~ DiscardIfStopped(a)
      BY <1>2, <2>2 DEF RuntimeResult, JobOutcome, JobMovesOn, JobStates, Active, Promoting
    <2> QED
      BY <2>1, <2>2
  <1>3. CASE RuntimeAsks(a)
    BY <1>3, <1>a DEF RuntimeAsks, JobOutcome, JobSettles, artifacts, JobStates, Active
  <1>4. CASE RuntimeRaises(a)
    BY <1>4, <1>d DEF RuntimeRaises, JobOutcome, JobStates, Active
  <1>5. CASE RecordFailure(a)
    <2>1. CASE UNCHANGED ledger
      BY <1>5, <2>1 DEF RecordFailure, JobOutcome, JobMovesOn, artifacts, JobStates, Active, Promoting
    <2>2. CASE RetryTask(atts[a].task, a) \/ FinishTask(atts[a].task, a, FALSE)
      BY <1>5, <2>2 DEF RecordFailure, JobOutcome, JobSettles, artifacts, JobStates, Active
    <2> QED
      BY <1>5, <2>1, <2>2 DEF RecordFailure
  <1>6. CASE Evaluate(a)
    <2>1. CASE BudgetStops(a) \/ Handle(a)
      BY <1>6, <2>1, <1>b, <1>d DEF Evaluate, JobOutcome, JobStates, Active
    <2>2. CASE JobGoto(a, "rejected") /\ UNCHANGED store
      BY <1>6, <2>2, <1>c DEF Evaluate, JobOutcome, JobStates, Active, Promoting
    <2>3. CASE passed' = passed \cup {a} /\ JobGoto(a, "accepted") /\ UNCHANGED ledger
      BY <1>6, <2>3 DEF Evaluate, JobOutcome, JobMovesOn, JobStates, Active, Promoting
    <2> QED
      BY <1>6, <2>1, <2>2, <2>3 DEF Evaluate
  <1>7. CASE CopyOutput(a) \/ IndexOutput(a) \/ AnnounceOutput(a)
    <2>1. CASE DiscardIfStopped(a) \/ Handle(a)
      BY <1>7, <2>1, <1>a, <1>d DEF CopyOutput, IndexOutput, AnnounceOutput, JobOutcome, JobStates, Active
    <2>2. CASE /\ job[a].pc \in Promoting /\ UNCHANGED <<ledger, passed>>
               /\ \E l \in {"copied", "indexed", "promoted"} : JobGoto(a, l)
      BY <1>7, <2>2 DEF CopyOutput, IndexOutput, AnnounceOutput, JobOutcome, JobMovesOn, JobStates, Active, Promoting
    <2> QED
      BY <1>7, <2>1, <2>2 DEF CopyOutput, IndexOutput, AnnounceOutput, Promoting
  <1>8. CASE Complete(a)
    BY <1>8, <1>a DEF Complete, JobOutcome, JobCompletes, artifacts, JobStates, Active
  <1>9. CASE Reject(a)
    BY <1>9, <1>a, <1>c DEF Reject, JobOutcome, JobStates, Active, Promoting
  <1>10. CASE RecordRejection(a)
    <2>1. CASE DiscardIfStopped(a)
      BY <1>10, <2>1, <1>a DEF RecordRejection, JobOutcome, JobStates, Active
    <2>2. CASE UNCHANGED <<ledger, artifacts>> /\ JobGoto(a, "over")
      BY <1>10, <2>2 DEF RecordRejection, JobOutcome, JobMovesOn, artifacts, JobStates, Active, Promoting
    <2>3. CASE /\ RetryTask(atts[a].task, a) \/ FinishTask(atts[a].task, a, FALSE)
               /\ UNCHANGED artifacts /\ JobGoto(a, "over")
      BY <1>10, <2>3 DEF RecordRejection, JobOutcome, JobSettles, artifacts, JobStates, Active
    <2> QED
      BY <1>10, <2>1, <2>2, <2>3 DEF RecordRejection
  <1> QED
    BY <1>1, <1>2, <1>3, <1>4, <1>5, <1>6, <1>7, <1>8, <1>9, <1>10 DEF JobStep

\* Every step of a job preserves the invariant.
LEMMA JobInv ==
  ASSUME IInv, NEW a \in Attempts, JobStep(a)
  PROVE  IInv'
  <1>0. TypeOK' /\ LedgerTypeOK /\ LedgerTypeOK' /\ JobsTypeOK
    BY JobTypes, TypeParts, TypePartsNext DEF IInv
  <1>1. job[a].pc \in Active /\ JobOutcome(a)
    BY JobOutcomes
  <1>2. atts[a].status \notin {"none", "succeeded"}
    BY <1>1 DEF IInv, JobsMatchAttempts, Active
  <1> SUFFICES passed \subseteq passed' /\ AttemptsKept /\ TasksKept /\ JobsKept
    BY <1>0, KeptStep DEF IInv
  <1>3. CASE JobMovesOn(a)
    <2>1. AttemptsKept /\ TasksKept /\ SuccessKept
      BY <1>0, <1>3, QuietLedger, OnlyFinishSucceeds DEF JobMovesOn, ledger
    <2>2. JobsKept
      BY <1>0, <1>1, <1>3, <2>1, JobMoves DEF JobMovesOn
    <2> QED
      BY <1>3, <2>1, <2>2 DEF JobMovesOn
  <1>4. CASE JobSettles(a)
    <2>1. AttemptsKept /\ TasksKept /\ SuccessKept
      BY <1>0, <1>2, <1>4, SettlingOperations, OnlyFinishSucceeds DEF JobSettles
    <2>2. JobsKept
      BY <1>0, <1>1, <1>4, <2>1, JobMoves DEF JobSettles, Promoting
    <2> QED
      BY <1>4, <2>1, <2>2 DEF JobSettles
  <1>5. CASE JobCompletes(a)
    <2>1. a \in passed'
      BY <1>5 DEF IInv, JobsMatchAttempts, JobCompletes
    <2>2. AttemptsKept /\ TasksKept
      BY <1>0, <1>2, <1>5, <2>1, SettlingOperations DEF JobCompletes
    <2>3. \A b \in Attempts \ {a} : atts'[b].status = atts[b].status
      BY <1>0, <1>5 DEF JobCompletes, FinishTask, LedgerTypeOK
    <2>4. JobsKept
      BY <1>0, <1>1, <1>5, <2>3, JobMoves DEF JobCompletes, Active, Promoting
    <2> QED
      BY <1>5, <2>2, <2>4 DEF JobCompletes
  <1>6. CASE JobExceeds(a)
    <2>1. AttemptsKept /\ TasksKept /\ SuccessKept
      BY <1>0, <1>6, FailBudgetRows, OnlyFinishSucceeds DEF JobExceeds, Limits
    <2>2. JobsKept
      BY <1>0, <1>1, <1>6, <2>1, JobMoves DEF JobExceeds, Promoting
    <2> QED
      BY <1>6, <2>1, <2>2 DEF JobExceeds
  <1> QED
    BY <1>1, <1>3, <1>4, <1>5, <1>6 DEF JobOutcome

\* A claim writes a fresh attempt row and starts its job: the one step outside KeptStep.
LEMMA ClaimInv ==
  ASSUME IInv, NEW c \in Controllers, Claim(c)
  PROVE  IInv'
  <1>0. TypeOK' /\ LedgerTypeOK /\ LedgerTypeOK' /\ JobsTypeOK /\ ControlTypeOK
    BY MainTypes, TypeParts, TypePartsNext DEF IInv, MainStep
  <1>1. passed' = passed
    BY DEF Claim, artifacts
  <1>2. CASE UNCHANGED <<ledger, job>>
    <2>1. AttemptsKept /\ TasksKept /\ JobsKept
      BY <1>2, QuietLedger DEF JobsKept, ledger
    <2> QED
      BY <1>0, <1>1, <2>1, KeptStep DEF IInv
  <1>3. CASE ~ UNCHANGED <<ledger, job>>
    <2> DEFINE t == picked[c].task
    <2>1. PICK a \in Attempts, l \in {"start", "nofactory"} :
            /\ ClaimTask(t, a, FALSE)
            /\ job' = [job EXCEPT ![a] = [pc |-> l, by |-> c, seen |-> picked[c].seen]]
      BY <1>3 DEF Claim
    <2>2. t \in Tasks
      BY <1>0 DEF ControlTypeOK
    <2>3. \A u \in Tasks : tasks'[u].state = IF u = t THEN "running" ELSE tasks[u].state
      BY <1>0, <2>1, <2>2 DEF ClaimTask, LedgerTypeOK, TaskRow
    <2>4. \A b \in Attempts : atts'[b] = IF b = a THEN [task |-> t, status |-> "running"] ELSE atts[b]
      BY <1>0, <2>1 DEF ClaimTask, LedgerTypeOK
    <2>5. \A b \in Attempts : job'[b].pc = IF b = a THEN l ELSE job[b].pc
      BY <1>0, <2>1 DEF JobsTypeOK
    <2>6. atts[a].status = "none"
      BY <2>1 DEF ClaimTask
    <2> HIDE DEF t
    <2>7. JobsMatchAttempts'
      BY <1>1, <2>4, <2>5 DEF IInv, JobsMatchAttempts
    <2>8. RunningHasAttempt'
      <3> SUFFICES ASSUME NEW u \in Tasks, tasks'[u].state = "running"
                   PROVE  \E b \in Attempts : atts'[b].task = u /\ atts'[b].status = "running"
        BY DEF RunningHasAttempt, AttemptsOf, Running
      <3>1. CASE u = t
        BY <2>4, <3>1
      <3>2. CASE u # t
        <4>1. PICK b \in Attempts : atts[b].task = u /\ atts[b].status = "running"
          BY <2>3, <3>2 DEF IInv, RunningHasAttempt, AttemptsOf, Running
        <4> QED
          BY <2>4, <2>6, <4>1
      <3> QED
        BY <3>1, <3>2
    <2>9. SucceededIsVerified'
      <3> SUFFICES ASSUME NEW u \in Tasks, tasks'[u].state = "succeeded"
                   PROVE  \E b \in Attempts : /\ atts'[b].task = u /\ b \in passed'
                                              /\ atts'[b].status = "succeeded"
        BY DEF SucceededIsVerified, InState, AttemptsOf
      <3>1. PICK b \in Attempts : atts[b].task = u /\ b \in passed /\ atts[b].status = "succeeded"
        BY <2>3 DEF IInv, SucceededIsVerified, InState, AttemptsOf
      <3> QED
        BY <1>1, <2>4, <2>6, <3>1
    <2> QED
      BY <1>0, <2>7, <2>8, <2>9 DEF IInv
  <1> QED
    BY <1>2, <1>3

\* Jobs that rest, end or die keep the invariant's promises about jobs.
LEMMA JobsAtRest ==
  ASSUME SuccessKept,
         \A b \in Attempts : \/ job'[b].pc = job[b].pc
                             \/ job[b].pc # "none" /\ job'[b].pc \in {"over", "dead"}
  PROVE  JobsKept
  BY DEF JobsKept, SuccessKept, Active, Promoting

\* Every step of a main thread preserves the invariant.
LEMMA MainInv ==
  ASSUME IInv, NEW c \in Controllers, ResumeStart(c) \/ MainStep(c)
  PROVE  IInv'
  <1>0. TypeOK' /\ LedgerTypeOK /\ LedgerTypeOK' /\ JobsTypeOK
    BY MainTypes, TypeParts, TypePartsNext DEF IInv
  <1>a. ASSUME UNCHANGED passed, AttemptsKept, TasksKept, JobsKept PROVE IInv'
    BY <1>0, <1>a, KeptStep DEF IInv
  <1>b. ASSUME UNCHANGED <<passed, job>>, AttemptsKept, TasksKept, SuccessKept PROVE IInv'
    BY <1>a, <1>b, JobsAtRest
  <1>c. UNCHANGED ledger => AttemptsKept /\ TasksKept /\ SuccessKept
    BY QuietLedger DEF ledger, SuccessKept
  <1>d. UNCHANGED atts => SuccessKept
    BY DEF SuccessKept
  <1>1. CASE ResumeStart(c) \/ NextTaskRead(c)
    BY <1>1, <1>b, <1>c DEF ResumeStart, NextTaskRead, store, artifacts
  <1>2. CASE Recover(c)
    <2>1. AttemptsKept /\ TasksKept
      BY <1>0, <1>2, RecoverRunningRows DEF Recover
    <2>2. SuccessKept
      BY <1>0, <1>2 DEF Recover, RecoverRunning, LedgerTypeOK, AttemptRow, SuccessKept
    <2> QED
      BY <1>2, <1>b, <2>1, <2>2 DEF Recover, artifacts
  <1>3. CASE NextTaskWrite(c)
    <2>1. \A t \in Tasks : tasks'[t].state \in {"blocked", "ready", tasks[t].state}
      BY <1>0, <1>3 DEF NextTaskWrite, PromoteRows, LedgerTypeOK, TaskRow
    <2>2. AttemptsKept /\ TasksKept
      BY <1>3, <2>1, QuietTasks DEF NextTaskWrite
    <2> QED
      BY <1>3, <1>b, <1>d, <2>2 DEF NextTaskWrite, artifacts
  <1>4. CASE CheckBudget(c)
    <2>1. CASE UNCHANGED ledger
      BY <1>4, <1>b, <1>c, <2>1 DEF CheckBudget, artifacts
    <2>2. CASE \E limit \in Limits : FailBudget(limit)
      <3>1. AttemptsKept /\ TasksKept
        BY <1>0, <2>2, FailBudgetRows
      <3>2. SuccessKept
        BY <1>0, <2>2 DEF FailBudget, EndRunningAttempts, ledger, LedgerTypeOK, AttemptRow, SuccessKept
      <3> QED
        BY <1>4, <1>b, <3>1, <3>2 DEF CheckBudget, artifacts
    <2> QED
      BY <1>4, <2>1, <2>2 DEF CheckBudget, Limits
  <1>5. CASE Claim(c)
    BY <1>5, ClaimInv
  <1>6. CASE RecordTaskFailure(c)
    <2>1. PICK a \in JobsOf(c) :
            /\ \/ UNCHANGED ledger
               \/ RetryTask(atts[a].task, a)
               \/ FinishTask(atts[a].task, a, FALSE)
            /\ job' = [job EXCEPT ![a].pc = "over"]
      BY <1>6 DEF RecordTaskFailure
    <2>2. a \in Attempts /\ job[a].pc \in Active
      BY DEF JobsOf
    <2>3. atts[a].status \notin {"none", "succeeded"}
      BY <2>2 DEF IInv, JobsMatchAttempts, Active
    <2>4. AttemptsKept /\ TasksKept
      BY <1>0, <1>c, <2>1, <2>2, <2>3, SettlingOperations
    <2>5. SuccessKept
      BY <1>0, <1>c, <2>1, <2>2, OnlyFinishSucceeds
    <2>6. JobsKept
      BY <1>0, <2>1, <2>2, <2>5, JobMoves DEF JobGoto, Promoting
    <2> QED
      BY <1>6, <1>a, <2>4, <2>6 DEF RecordTaskFailure, artifacts
  <1>7. CASE WaitRound(c) \/ Drain(c)
    <2>1. \A b \in Attempts : \/ job'[b].pc = job[b].pc
                              \/ job[b].pc # "none" /\ job'[b].pc = "over"
      BY <1>0, <1>7 DEF WaitRound, Drain, JobsOf, JobsTypeOK, JobRow, Active
    <2>2. JobsKept
      BY <1>7, <1>c, <2>1, JobsAtRest DEF WaitRound, Drain, store
    <2> QED
      BY <1>7, <1>a, <1>c, <2>2 DEF WaitRound, Drain, store, artifacts
  <1>8. CASE Settle(c)
    <2>1. AttemptsKept /\ TasksKept
      BY <1>8, QuietTasks DEF Settle, SettleRun
    <2> QED
      BY <1>8, <1>b, <1>d, <2>1 DEF Settle, SettleRun, artifacts
  <1> QED
    BY <1>1, <1>2, <1>3, <1>4, <1>5, <1>6, <1>7, <1>8 DEF MainStep

\* What an owner's commit writes: a task that was completed when it was checked is kept as it is.
LEMMA ReviseEffect ==
  ASSUME TypeOK, ReviseWrite, NEW t \in Tasks
  PROVE  /\ UNCHANGED atts
         /\ tasks'[t].state \in {"ready", "waiting", "superseded", tasks[t].state}
         /\ draft # NoDraft
         /\ draft.existing[t].state = "succeeded" => tasks'[t] = tasks[t]
  <1>0. LedgerTypeOK
    BY TypeParts
  <1>1. tasks' = Revised(draft.existing, draft.plan) /\ UNCHANGED atts /\ draft # NoDraft
    BY DEF ReviseWrite, CommitPlanRevision
  <1>2. \/ tasks'[t] = tasks[t]
        \/ tasks'[t] = [tasks[t] EXCEPT !.state = "superseded"]
        \/ \E deps : tasks'[t] = [tasks[t] EXCEPT !.state = FreshState(deps), !.deps = deps, !.attempts = 0]
    BY <1>1, Zenon DEF Revised
  <1>3. tasks[t] \in TaskRow
    BY <1>0 DEF LedgerTypeOK
  <1>4. ASSUME NEW deps, tasks'[t] = [tasks[t] EXCEPT !.state = FreshState(deps), !.deps = deps, !.attempts = 0]
        PROVE  tasks'[t].state \in {"ready", "waiting"}
    <2>1. FreshState(deps) \in {"ready", "waiting"}
      BY DEF FreshState
    <2> QED
      BY <1>3, <1>4, <2>1 DEF TaskRow
  <1>5. draft.existing[t].state = "succeeded" => tasks'[t] = tasks[t]
    BY <1>1 DEF Revised
  <1> QED
    BY <1>1, <1>2, <1>3, <1>4, <1>5 DEF TaskRow

\* So do the owner's commands, time and crashes.
LEMMA EnvironmentInv ==
  ASSUME IInv,
         \/ \E c \in Controllers : DeadlinePasses(c) \/ Crash(c)
         \/ Cancel \/ Answer \/ ReviseRead \/ ReviseWrite
  PROVE  IInv'
  <1>0. TypeOK' /\ LedgerTypeOK /\ LedgerTypeOK' /\ JobsTypeOK /\ RestTypeOK
    BY EnvironmentTypes, TypeParts, TypePartsNext DEF IInv
  <1>a. ASSUME UNCHANGED passed, AttemptsKept, TasksKept, JobsKept PROVE IInv'
    BY <1>0, <1>a, KeptStep DEF IInv
  <1>b. ASSUME UNCHANGED <<passed, job>>, AttemptsKept, TasksKept, SuccessKept PROVE IInv'
    BY <1>a, <1>b, JobsAtRest
  <1>c. UNCHANGED ledger => AttemptsKept /\ TasksKept /\ SuccessKept
    BY QuietLedger DEF ledger, SuccessKept
  <1>d. UNCHANGED atts => SuccessKept
    BY DEF SuccessKept
  <1>1. ASSUME NEW c \in Controllers, DeadlinePasses(c) PROVE IInv'
    BY <1>1, <1>b, <1>c DEF DeadlinePasses, store, artifacts
  <1>2. ASSUME NEW c \in Controllers, Crash(c) PROVE IInv'
    <2>1. \A b \in Attempts : \/ job'[b].pc = job[b].pc
                              \/ job[b].pc # "none" /\ job'[b].pc = "dead"
      BY <1>0, <1>2 DEF Crash, JobsTypeOK, JobRow, Active
    <2>2. JobsKept
      BY <1>2, <1>c, <2>1, JobsAtRest DEF Crash, store
    <2> QED
      BY <1>2, <1>a, <1>c, <2>2 DEF Crash, store, artifacts
  <1>3. CASE Cancel
    <2>1. AttemptsKept /\ TasksKept
      BY <1>0, <1>3, CancelRunRows DEF Cancel
    <2>2. SuccessKept
      BY <1>0, <1>3 DEF Cancel, CancelRun, EndRunningAttempts, LedgerTypeOK, AttemptRow, SuccessKept
    <2> QED
      BY <1>3, <1>b, <2>1, <2>2 DEF Cancel, artifacts
  <1>4. CASE Answer
    <2>1. PICK t \in Tasks : tasks' = [tasks EXCEPT ![t].state = "ready"]
      BY <1>4 DEF Answer, AnswerInput
    <2>2. \A u \in Tasks : tasks'[u].state \in {"ready", tasks[u].state}
      BY <1>0, <2>1 DEF LedgerTypeOK, TaskRow
    <2>3. AttemptsKept /\ TasksKept
      BY <1>4, <2>2, QuietTasks DEF Answer, AnswerInput
    <2> QED
      BY <1>4, <1>b, <1>d, <2>3 DEF Answer, AnswerInput, artifacts
  <1>5. CASE ReviseRead
    BY <1>5, <1>b, <1>c DEF ReviseRead, store, artifacts
  <1>6. CASE ReviseWrite
    <2>1. \A t \in Tasks : tasks'[t].state \in {"ready", "waiting", "superseded", tasks[t].state}
      BY <1>6, ReviseEffect DEF IInv
    <2>2. AttemptsKept /\ TasksKept
      BY <1>6, <2>1, QuietTasks DEF ReviseWrite, CommitPlanRevision
    <2> QED
      BY <1>6, <1>b, <1>d, <2>2 DEF ReviseWrite, CommitPlanRevision, artifacts
  <1> QED
    BY <1>1, <1>2, <1>3, <1>4, <1>5, <1>6

LEMMA InvInit == Init => IInv
  <1> SUFFICES ASSUME Init PROVE JobsMatchAttempts /\ RunningHasAttempt /\ SucceededIsVerified
    BY TypeInit DEF IInv
  <1>1. \A t \in Tasks : tasks[t].state \in {"ready", "waiting", "absent"}
    BY DEF Init, StoreInit, FreshState
  <1>2. \A a \in Attempts : job[a].pc = "none" /\ atts[a].status = "none"
    BY DEF Init, StoreInit
  <1> QED
    BY <1>1, <1>2 DEF JobsMatchAttempts, RunningHasAttempt, SucceededIsVerified, Running, InState

LEMMA InvStep == IInv /\ [Next]_vars => IInv'
  <1> SUFFICES ASSUME IInv, [Next]_vars PROVE IInv'
    OBVIOUS
  <1>1. CASE UNCHANGED vars
    <2>1. TypeOK'
      BY TypeStep DEF IInv
    <2>2. UNCHANGED <<ledger, passed, job>>
      BY <1>1 DEF vars, store, artifacts
    <2>3. AttemptsKept /\ TasksKept /\ JobsKept
      BY <2>2, QuietLedger DEF JobsKept, ledger
    <2> QED
      BY <2>1, <2>2, <2>3, KeptStep, TypePartsNext DEF IInv
  <1>2. CASE Next
    BY <1>2, MainInv, JobInv, EnvironmentInv DEF Next
  <1> QED
    BY <1>1, <1>2

\* The inductive invariant holds always.
THEOREM Invariant == Spec => []IInv
  BY InvInit, InvStep, PTL DEF Spec

\* Cancellation, budget failure and recovery end the attempts they find running, so they reach
\* every task that runs: a running task has a running attempt row, whichever of any number of
\* controllers claimed it, crashed on it or lost it.
THEOREM RunningTasksHaveAttempts == Spec => []RunningHasAttempt
  <1>1. IInv => RunningHasAttempt
    BY DEF IInv
  <1> QED
    BY <1>1, Invariant, PTL

\* Success is never recorded without evidence: a succeeded task has an attempt of its own that
\* passed its evaluation and is recorded as succeeded, also when recovery, a second controller,
\* a cancellation or a plan revision raced with the attempt.
THEOREM SuccessIsVerified == Spec => []SucceededIsVerified
  <1>1. IInv => SucceededIsVerified
    BY DEF IInv
  <1> QED
    BY <1>1, Invariant, PTL

\* A job never works on the attempt row that verified a task, and never promotes outputs
\* before its passing evaluation is recorded.
THEOREM JobsFollowAttempts == Spec => []JobsMatchAttempts
  <1>1. IInv => JobsMatchAttempts
    BY DEF IInv
  <1> QED
    BY <1>1, Invariant, PTL

-----------------------------------------------------------------------------
(* Cancellation.                                                               *)

\* Of all steps only the commit of a plan revision takes a run out of cancelled.
LEMMA CancelledStep ==
  ASSUME TypeOK, run.status = "cancelled", Next, ~ ReviseWrite
  PROVE  run'.status = "cancelled"
  <1>0. LedgerTypeOK
    BY TypeParts
  <1>a. \A t, a, b : FinishTask(t, a, b) \/ RetryTask(t, a) \/ AwaitInput(t, a) => run' = run
    BY <1>0 DEF FinishTask, RetryTask, AwaitInput, LedgerTypeOK, RunRow
  <1>b. \A limit : FailBudget(limit) => run' = run
    BY DEF FailBudget, BudgetIgnored, ledger
  <1>1. ASSUME NEW a \in Attempts, JobStep(a) PROVE run' = run
    <2>1. JobOutcome(a)
      BY <1>1, JobOutcomes
    <2> QED
      BY <1>a, <1>b, <2>1 DEF JobOutcome, JobMovesOn, JobSettles, JobCompletes, JobExceeds, ledger
  <1>2. ASSUME NEW c \in Controllers, ResumeStart(c) \/ MainStep(c) PROVE run' = run
    <2>1. CASE Claim(c)
      BY <1>0, <2>1 DEF Claim, ClaimTask, ledger, LedgerTypeOK, RunRow
    <2>2. CASE RecordTaskFailure(c)
      BY <1>a, <2>2 DEF RecordTaskFailure, ledger
    <2>3. CASE CheckBudget(c)
      BY <1>b, <2>3 DEF CheckBudget, ledger
    <2>4. CASE Settle(c)
      BY <2>4 DEF Settle, SettleRun
    <2>5. CASE Recover(c)
      BY <2>5 DEF Recover, RecoverRunning
    <2>6. CASE ResumeStart(c) \/ NextTaskRead(c) \/ NextTaskWrite(c) \/ WaitRound(c) \/ Drain(c)
      BY <2>6 DEF ResumeStart, NextTaskRead, NextTaskWrite, WaitRound, Drain, store, ledger
    <2> QED
      BY <1>2, <2>1, <2>2, <2>3, <2>4, <2>5, <2>6 DEF MainStep
  <1>3. CASE Cancel
    BY <1>3 DEF Cancel, CancelRun, Terminal
  <1>4. CASE Answer
    BY <1>0, <1>4 DEF Answer, AnswerInput, LedgerTypeOK, RunRow
  <1>5. ASSUME NEW c \in Controllers, DeadlinePasses(c) \/ Crash(c) PROVE run' = run
    BY <1>5 DEF DeadlinePasses, Crash, store, ledger
  <1>6. CASE ReviseRead
    BY <1>6 DEF ReviseRead, store, ledger
  <1> QED
    BY <1>1, <1>2, <1>3, <1>4, <1>5, <1>6 DEF Next

\* Without a plan revision there is no draft of one.
LEMMA NoDraftStep ==
  ASSUME Revisions = {}, TypeOK, draft = NoDraft, [Next]_vars
  PROVE  draft' = NoDraft /\ ~ ReviseWrite
  <1>1. draft' \in DraftRow
    BY TypeStep, TypePartsNext DEF RestTypeOK
  <1> QED
    BY <1>1 DEF DraftRow, ReviseWrite

\* Without plan revisions a cancelled run stays cancelled, whatever its controllers still do.
\* (A revision whose checks precede the cancellation is the one
\* way back to pending.)
THEOREM CancellationIsFinal ==
  ASSUME Revisions = {}
  PROVE  Spec => CancelledIsFinal
  <1> DEFINE NoRevision == TypeOK /\ draft = NoDraft
  <1>1. Init => NoRevision
    BY TypeInit DEF Init
  <1>2. NoRevision /\ [Next]_vars => NoRevision'
    BY TypeStep, NoDraftStep
  <1>3. NoRevision /\ [Next]_vars => [run.status = "cancelled" => run'.status = "cancelled"]_vars
    <2> SUFFICES ASSUME NoRevision, Next, run.status = "cancelled" PROVE run'.status = "cancelled"
      OBVIOUS
    <2> QED
      BY CancelledStep DEF ReviseWrite
  <1> QED
    BY <1>1, <1>2, <1>3, PTL DEF Spec, CancelledIsFinal

-----------------------------------------------------------------------------
(* What each kind of step writes, row by row.                                  *)

LEMMA PendingRows == \A t \in Tasks : t \in PendingInput <=> tasks[t].state = "waiting" /\ tasks[t].asked
  BY DEF PendingInput, InState

SameQuestion(t) == tasks'[t].deps = tasks[t].deps /\ tasks'[t].asked = tasks[t].asked

LEMMA PromoteEffect ==
  ASSUME LedgerTypeOK, NEW R, NEW B, PromoteRows(R, B), NEW t \in Tasks
  PROVE  /\ SameQuestion(t)
         /\ \/ tasks'[t].state = tasks[t].state
            \/ tasks[t].state \in {"pending", "waiting"} /\ tasks'[t].state = "blocked"
            \/ tasks[t].state \in {"pending", "waiting"} /\ tasks'[t].state = "ready" /\ t \in R
  <1>1. tasks[t] \in TaskRow
    BY DEF LedgerTypeOK
  <1>2. \/ tasks'[t] = tasks[t]
        \/ t \in InState({"pending", "waiting"}) /\ tasks'[t] = [tasks[t] EXCEPT !.state = "blocked"]
        \/ t \in R \cap InState({"pending", "waiting"}) /\ tasks'[t] = [tasks[t] EXCEPT !.state = "ready"]
    BY DEF PromoteRows
  <1> QED
    BY <1>1, <1>2 DEF SameQuestion, InState, TaskRow

LEMMA ClaimEffect ==
  ASSUME LedgerTypeOK, NEW t \in Tasks, NEW a \in Attempts, ClaimTask(t, a, FALSE)
  PROVE  /\ tasks[t].state \in {"pending", "ready", "uncertain"} /\ atts[a].status = "none"
         /\ \A u \in Tasks : SameQuestion(u) /\ tasks'[u].state = IF u = t THEN "running" ELSE tasks[u].state
         /\ \A b \in Attempts : atts'[b] = IF b = a THEN [task |-> t, status |-> "running"] ELSE atts[b]
  BY DEF ClaimTask, LedgerTypeOK, TaskRow, SameQuestion

\* The job of attempt a settles its task.
Settles(a) ==
    \/ RetryTask(atts[a].task, a)
    \/ FinishTask(atts[a].task, a, FALSE)
    \/ FinishTask(atts[a].task, a, TRUE) /\ job[a].pc = "promoted"
    \/ AwaitInput(atts[a].task, a)

SettledAs(a, state, status) ==
    /\ \A u \in Tasks : /\ tasks'[u].deps = tasks[u].deps
                        /\ tasks'[u].state = IF u = atts[a].task THEN state ELSE tasks[u].state
                        /\ u # atts[a].task => tasks'[u].asked = tasks[u].asked
    /\ \A b \in Attempts : /\ atts'[b].task = atts[b].task
                           /\ atts'[b].status = IF b = a THEN status ELSE atts[b].status

LEMMA SettleEffect ==
  ASSUME LedgerTypeOK, NEW a \in Attempts, Settles(a)
  PROVE  /\ atts[a].task \in Tasks /\ Running(atts[a].task)
         /\ \/ SettledAs(a, "ready", "failed")
            \/ SettledAs(a, "failed", "failed")
            \/ SettledAs(a, "succeeded", "succeeded") /\ job[a].pc = "promoted"
            \/ SettledAs(a, "waiting", IF atts[a].status = "running" THEN "awaiting_input" ELSE atts[a].status)
  <1>0. atts[a].task \in Tasks
    BY DEF LedgerTypeOK, AttemptRow
  <1>1. CASE RetryTask(atts[a].task, a)
    BY <1>0, <1>1 DEF RetryTask, LedgerTypeOK, TaskRow, AttemptRow, SettledAs
  <1>2. CASE FinishTask(atts[a].task, a, FALSE)
    BY <1>0, <1>2 DEF FinishTask, LedgerTypeOK, TaskRow, AttemptRow, SettledAs
  <1>3. CASE FinishTask(atts[a].task, a, TRUE) /\ job[a].pc = "promoted"
    BY <1>0, <1>3 DEF FinishTask, LedgerTypeOK, TaskRow, AttemptRow, SettledAs
  <1>4. CASE AwaitInput(atts[a].task, a)
    <2> DEFINE q == IF atts[a].status = "running" THEN "awaiting_input" ELSE atts[a].status
    <2>1. \A u \in Tasks : u # atts[a].task => tasks'[u] = tasks[u]
      BY <1>4 DEF AwaitInput, LedgerTypeOK
    <2>4. tasks'[atts[a].task].deps = tasks[atts[a].task].deps /\ tasks'[atts[a].task].state = "waiting"
      BY <1>0, <1>4 DEF AwaitInput, LedgerTypeOK, TaskRow
    <2>2. \A b \in Attempts : /\ atts'[b].task = atts[b].task
                              /\ atts'[b].status = IF b = a THEN q ELSE atts[b].status
      BY <1>4 DEF AwaitInput, LedgerTypeOK, AttemptRow
    <2> HIDE DEF q
    <2>3. SettledAs(a, "waiting", q)
      BY <2>1, <2>2, <2>4 DEF SettledAs
    <2> QED
      BY <1>0, <1>4, <2>3 DEF AwaitInput, q
  <1> QED
    BY <1>0, <1>1, <1>2, <1>3, <1>4 DEF Settles

\* A cancellation or a spent budget ends what is running.
EndsRun ==
    \/ CancelRun
    \/ \E limit \in {"max_attempts", "max_runtime_seconds"} : FailBudget(limit) /\ ~ BudgetIgnored(limit)

LEMMA EndEffect ==
  ASSUME LedgerTypeOK, EndsRun
  PROVE  /\ \A t \in Tasks :
              /\ SameQuestion(t)
              /\ \/ tasks'[t].state = tasks[t].state /\ tasks[t].state \notin {"pending", "ready", "waiting", "running"}
                 \/ /\ tasks'[t].state \in {"blocked", "cancelled"}
                    /\ tasks[t].state \notin {"absent", "succeeded", "failed", "cancelled", "superseded"}
         /\ \A b \in Attempts : /\ atts'[b].task = atts[b].task
                                /\ atts'[b].status # "running" /\ (atts'[b].status = "none" => atts[b].status = "none")
                                /\ atts[b].status # "running" => atts'[b].status = atts[b].status
  <1>1. \A b \in Attempts : /\ atts'[b].task = atts[b].task
                            /\ atts'[b].status # "running" /\ (atts'[b].status = "none" => atts[b].status = "none")
                            /\ atts[b].status # "running" => atts'[b].status = atts[b].status
    <2>1. EndRunningAttempts("cancelled") \/ EndRunningAttempts("failed")
      BY DEF EndsRun, CancelRun, FailBudget
    <2> QED
      BY <2>1 DEF EndRunningAttempts, LedgerTypeOK, AttemptRow
  <1>2. CASE CancelRun
    BY <1>1, <1>2 DEF CancelRun, LedgerTypeOK, TaskRow, SameQuestion
  <1>3. ASSUME NEW limit \in {"max_attempts", "max_runtime_seconds"}, FailBudget(limit), ~ BudgetIgnored(limit),
               NEW t \in Tasks
        PROVE  /\ SameQuestion(t)
               /\ \/ tasks'[t].state = tasks[t].state /\ tasks[t].state \notin {"pending", "ready", "waiting", "running"}
                  \/ /\ tasks'[t].state \in {"blocked", "cancelled"}
                     /\ tasks[t].state \notin {"absent", "succeeded", "failed", "cancelled", "superseded"}
    <2>1. tasks' = [u \in Tasks |-> [tasks[u] EXCEPT !.state = BudgetFailed(u, limit)]] /\ tasks[t] \in TaskRow
      BY <1>3 DEF FailBudget, LedgerTypeOK
    <2>2. tasks'[t].state = BudgetFailed(t, limit) /\ SameQuestion(t)
      BY <2>1 DEF TaskRow, SameQuestion
    <2> QED
      BY <1>3, <2>2 DEF BudgetFailed
  <1> QED
    BY <1>1, <1>2, <1>3 DEF EndsRun

LEMMA RecoverEffect ==
  ASSUME LedgerTypeOK, NEW R, RecoverRunning(R)
  PROVE  /\ \A t \in Tasks : SameQuestion(t) /\ tasks'[t].state = IF t \in R THEN "uncertain" ELSE tasks[t].state
         /\ \A b \in Attempts :
              /\ atts'[b].task = atts[b].task
              /\ atts'[b].status = IF atts[b].status = "running" /\ atts[b].task \in R THEN "uncertain" ELSE atts[b].status
  BY DEF RecoverRunning, LedgerTypeOK, TaskRow, AttemptRow, SameQuestion

LEMMA AnswerEffect ==
  ASSUME LedgerTypeOK, AnswerInput
  PROVE  /\ UNCHANGED atts
         /\ \A t \in Tasks : /\ SameQuestion(t)
                             /\ tasks'[t].state = tasks[t].state \/ (t \in PendingInput /\ tasks'[t].state = "ready")
  <1>1. PICK t \in Tasks : First(t, PendingInput) /\ tasks' = [tasks EXCEPT ![t].state = "ready"]
    BY DEF AnswerInput
  <1>2. t \in PendingInput
    BY <1>1 DEF First
  <1> QED
    BY <1>1, <1>2 DEF AnswerInput, LedgerTypeOK, TaskRow, SameQuestion

\* A controller claims a task for a fresh attempt.
ClaimsFor(c, a) ==
    /\ pc[c] = "claim" /\ picked[c].task \in Tasks /\ First(a, Unused) /\ ClaimTask(picked[c].task, a, FALSE)
    /\ claimed'[c] = claimed[c] + 1 /\ pc'[c] \in {"loop", "wait", "record"}
    /\ \E l \in {"start", "nofactory"} : job' = [job EXCEPT ![a] = [pc |-> l, by |-> c, seen |-> picked[c].seen]]

LEMMA ClaimKinds ==
  ASSUME TypeOK, NEW c \in Controllers, Claim(c)
  PROVE  UNCHANGED <<ledger, job, claimed>> \/ \E a \in Attempts : ClaimsFor(c, a)
  <1>0. ControlTypeOK
    BY TypeParts
  <1>1. picked[c].task \in Tasks
    BY <1>0 DEF ControlTypeOK
  <1> SUFFICES ASSUME ~ UNCHANGED <<ledger, job, claimed>> PROVE \E a \in Attempts : ClaimsFor(c, a)
    OBVIOUS
  <1>2. PICK a \in Attempts :
          /\ First(a, Unused)
          /\ ClaimTask(picked[c].task, a, FALSE)
          /\ claimed' = [claimed EXCEPT ![c] = @ + 1]
          /\ \/ /\ job' = [job EXCEPT ![a] = [pc |-> "start", by |-> c, seen |-> picked[c].seen]]
                /\ Goto(c, IF claimed[c] + 1 < MaxWorkers THEN "loop" ELSE "wait")
             \/ /\ job' = [job EXCEPT ![a] = [pc |-> "nofactory", by |-> c, seen |-> picked[c].seen]]
                /\ Goto(c, "record")
    BY DEF Claim
  <1>3. pc'[c] \in {"loop", "wait", "record"} /\ claimed'[c] = claimed[c] + 1
    BY <1>0, <1>2 DEF Goto, ControlTypeOK
  <1> QED
    BY <1>1, <1>2, <1>3 DEF ClaimsFor, Claim

\* Every step of the scheduler that writes a task or an attempt is one of these.
LEMMA JobKinds ==
  ASSUME TypeOK, NEW a \in Attempts, JobStep(a)
  PROVE  /\ UNCHANGED <<control, draft, crashes>> /\ job[a].pc \in Active /\ passed \subseteq passed'
         /\ \E l \in JobStates : JobGoto(a, l)
         /\ UNCHANGED <<tasks, atts>> \/ (Settles(a) /\ JobGoto(a, "over")) \/ EndsRun
  <1>1. JobOutcome(a) /\ job[a].pc \in Active
    BY JobOutcomes
  <1>2. UNCHANGED <<control, draft, crashes>>
    BY DEF JobStep, StartJob, RuntimeResult, RuntimeAsks, RuntimeRaises, RecordFailure, Evaluate, CopyOutput, IndexOutput,
           AnnounceOutput, Complete, Reject, RecordRejection, JobFrame
  <1>3. CASE JobMovesOn(a)
    BY <1>1, <1>2, <1>3 DEF JobMovesOn, ledger
  <1>4. CASE JobSettles(a)
    BY <1>1, <1>2, <1>4 DEF JobSettles, Settles, JobStates
  <1>5. CASE JobCompletes(a)
    BY <1>1, <1>2, <1>5 DEF JobCompletes, Settles, JobStates
  <1>6. CASE JobExceeds(a)
    <2>1. UNCHANGED <<tasks, atts>> \/ EndsRun
      BY <1>6 DEF JobExceeds, FailBudget, EndsRun, ledger
    <2> QED
      BY <1>1, <1>2, <1>6, <2>1 DEF JobExceeds, JobStates
  <1> QED
    BY <1>1, <1>3, <1>4, <1>5, <1>6 DEF JobOutcome

\* The writes to the rows of tasks and attempts, by who makes them.
Quiet       == UNCHANGED <<tasks, atts>>
Promotes(c) == pc[c] = "next" /\ PromoteRows(rows[c].ready, rows[c].blocked) /\ UNCHANGED atts
Recovers(c) == pc[c] = "recover" /\ RecoverRunning(rows[c].running)
JobEnds(a)  == job[a].pc \in Active /\ JobGoto(a, "over") /\ Settles(a)

LEMMA MainKinds ==
  ASSUME TypeOK, NEW c \in Controllers, ResumeStart(c) \/ MainStep(c)
  PROVE  /\ UNCHANGED <<artifacts, draft>>
         /\ \/ Quiet \/ Promotes(c) \/ Recovers(c) \/ EndsRun
            \/ \E a \in Attempts : ClaimsFor(c, a)
            \/ \E a \in Attempts : job[a].by = c /\ JobEnds(a)
  <1>1. UNCHANGED <<artifacts, draft>>
    BY DEF ResumeStart, MainStep, Recover, NextTaskRead, NextTaskWrite, CheckBudget, Claim, RecordTaskFailure,
           WaitRound, Drain, Settle, store
  <1>2. CASE ResumeStart(c) \/ NextTaskRead(c) \/ WaitRound(c) \/ Drain(c) \/ Settle(c)
    BY <1>1, <1>2 DEF ResumeStart, NextTaskRead, WaitRound, Drain, Settle, SettleRun, store, ledger, Quiet
  <1>3. CASE Recover(c)
    BY <1>1, <1>3 DEF Recover, Recovers
  <1>4. CASE NextTaskWrite(c)
    BY <1>1, <1>4 DEF NextTaskWrite, Promotes
  <1>5. CASE CheckBudget(c)
    BY <1>1, <1>5 DEF CheckBudget, FailBudget, EndsRun, Quiet, ledger
  <1>6. CASE Claim(c)
    BY <1>1, <1>6, ClaimKinds DEF Quiet, ledger
  <1>7. CASE RecordTaskFailure(c)
    <2>1. PICK a \in JobsOf(c) :
            /\ \/ UNCHANGED ledger
               \/ RetryTask(atts[a].task, a)
               \/ FinishTask(atts[a].task, a, FALSE)
            /\ JobGoto(a, "over")
      BY <1>7 DEF RecordTaskFailure, JobGoto
    <2>2. a \in Attempts /\ job[a].by = c /\ job[a].pc \in Active
      BY DEF JobsOf
    <2> QED
      BY <1>1, <2>1, <2>2 DEF JobEnds, Settles, Quiet, ledger
  <1> QED
    BY <1>2, <1>3, <1>4, <1>5, <1>6, <1>7 DEF MainStep

LEMMA StepKinds ==
  ASSUME TypeOK, Next
  PROVE  /\ passed \subseteq passed'
         /\ \/ Quiet \/ EndsRun \/ Answer \/ ReviseWrite
            \/ \E c \in Controllers : Promotes(c)
            \/ \E c \in Controllers : Recovers(c)
            \/ \E c \in Controllers, a \in Attempts : ClaimsFor(c, a)
            \/ \E a \in Attempts : JobEnds(a)
  <1>1. ASSUME NEW c \in Controllers, ResumeStart(c) \/ MainStep(c)
        PROVE  /\ passed \subseteq passed'
               /\ \/ Quiet \/ Promotes(c) \/ Recovers(c) \/ EndsRun
                  \/ \E a \in Attempts : ClaimsFor(c, a)
                  \/ \E a \in Attempts : JobEnds(a)
    BY <1>1, MainKinds DEF artifacts
  <1>2. ASSUME NEW c \in Controllers, DeadlinePasses(c) \/ Crash(c)
        PROVE  passed \subseteq passed' /\ Quiet
    BY <1>2 DEF DeadlinePasses, Crash, store, ledger, artifacts, Quiet
  <1>3. ASSUME NEW a \in Attempts, JobStep(a)
        PROVE  passed \subseteq passed' /\ (Quiet \/ EndsRun \/ JobEnds(a))
    BY <1>3, JobKinds DEF JobEnds, Quiet
  <1>4. CASE Cancel
    BY <1>4 DEF Cancel, EndsRun, artifacts
  <1>5. CASE Answer
    BY <1>5 DEF Answer, artifacts
  <1>6. CASE ReviseRead
    BY <1>6 DEF ReviseRead, store, ledger, artifacts, Quiet
  <1>7. CASE ReviseWrite
    BY <1>7 DEF ReviseWrite, artifacts
  <1> QED
    BY <1>1, <1>2, <1>3, <1>4, <1>5, <1>6, <1>7 DEF Next

-----------------------------------------------------------------------------
(* A round waits for its threads.                                              *)

\* A call does not leave the loop of a round before the threads it started are over.
JobsAwaited ==
    \A a \in Attempts : job[a].pc \in Active =>
       job[a].by \in Controllers /\ claimed[job[a].by] > 0 /\ pc[job[a].by] \notin {"idle", "recover", "settle"}

\* A step of a job moves that job only.
LEMMA JobMove ==
  ASSUME JobsTypeOK, NEW a \in Attempts, NEW l, JobGoto(a, l)
  PROVE  \A b \in Attempts : job'[b].by = job[b].by /\ job'[b].pc = IF b = a THEN l ELSE job[b].pc
  BY DEF JobGoto, JobsTypeOK, JobRow

LEMMA AwaitedStep ==
  ASSUME TypeOK, JobsAwaited, Next
  PROVE  JobsAwaited'
  <1>0. ControlTypeOK /\ JobsTypeOK
    BY TypeParts
  <1>a. ASSUME NEW c \in Controllers,
               UNCHANGED job, \A d \in Controllers : d # c => pc'[d] = pc[d] /\ claimed'[d] = claimed[d],
               \/ pc[c] \in {"idle", "recover", "settle"}
               \/ claimed'[c] = claimed[c] /\ (claimed[c] = 0 \/ pc'[c] \notin {"idle", "recover", "settle"})
        PROVE  JobsAwaited'
    BY <1>0, <1>a DEF JobsAwaited, ControlTypeOK
  <1>1. ASSUME NEW c \in Controllers, ResumeStart(c) \/ MainStep(c) PROVE JobsAwaited'
    <2>0. \A l : Goto(c, l) => pc'[c] = l /\ \A d \in Controllers : d # c => pc'[d] = pc[d]
      BY <1>0 DEF Goto, ControlTypeOK
    <2>1. CASE ResumeStart(c) \/ Recover(c) \/ NextTaskRead(c) \/ CheckBudget(c) \/ Settle(c)
      BY <1>0, <1>a, <2>0, <2>1 DEF ResumeStart, Recover, NextTaskRead, CheckBudget, Settle, ControlTypeOK
    <2>2. CASE NextTaskWrite(c)
      BY <1>0, <1>a, <2>0, <2>2 DEF NextTaskWrite, ControlTypeOK
    <2>3. CASE Claim(c)
      <3>1. CASE UNCHANGED <<ledger, job, claimed>>
        BY <1>0, <1>a, <2>0, <2>3, <3>1 DEF Claim, ControlTypeOK, ClaimTask
      <3>2. CASE \E a \in Attempts : ClaimsFor(c, a)
        <4>1. PICK a \in Attempts, l \in {"start", "nofactory"} :
                /\ job' = [job EXCEPT ![a] = [pc |-> l, by |-> c, seen |-> picked[c].seen]]
                /\ claimed'[c] = claimed[c] + 1 /\ pc'[c] \in {"loop", "wait", "record"}
          BY <3>2 DEF ClaimsFor
        <4>2. \A b \in Attempts : b # a => job'[b] = job[b]
          BY <1>0, <4>1 DEF JobsTypeOK
        <4>3. job'[a].by = c
          BY <1>0, <4>1 DEF JobsTypeOK
        <4>4. \A d \in Controllers : d # c => pc'[d] = pc[d] /\ claimed'[d] = claimed[d]
          BY <1>0, <2>3 DEF Claim, Goto, ControlTypeOK
        <4>5. claimed[c] \in Nat /\ claimed'[c] > 0
          BY <1>0, <4>1 DEF ControlTypeOK
        <4> QED
          BY <4>1, <4>2, <4>3, <4>4, <4>5 DEF JobsAwaited
      <3> QED
        BY <2>3, <3>1, <3>2, ClaimKinds
    <2>4. CASE RecordTaskFailure(c)
      <3>1. /\ UNCHANGED claimed
            /\ pc'[c] \notin {"idle", "recover", "settle"}
            /\ \A d \in Controllers : d # c => pc'[d] = pc[d]
        BY <1>0, <2>4 DEF RecordTaskFailure, Goto, ControlTypeOK
      <3>2. PICK a \in Attempts : JobGoto(a, "over")
        BY <2>4 DEF RecordTaskFailure, JobsOf, JobGoto
      <3>3. "over" \notin Active
        BY DEF Active
      <3> QED
        BY <1>0, <3>1, <3>2, <3>3, JobMove DEF JobsAwaited
    <2>5. CASE WaitRound(c) \/ Drain(c)
      <3>1. \A b \in Attempts : /\ job'[b].by = job[b].by
                                /\ job'[b].pc \in Active => job[b].pc \in Active
        BY <1>0, <2>5 DEF WaitRound, Drain, JobsTypeOK, JobRow, Active
      <3>2. \A d \in Controllers : d # c => pc'[d] = pc[d] /\ claimed'[d] = claimed[d]
        BY <1>0, <2>5 DEF WaitRound, Drain, Goto, ControlTypeOK
      <3>3. JobsOf(c) = {} \/ (pc'[c] = pc[c] /\ claimed'[c] = claimed[c])
        BY <2>5 DEF WaitRound, Drain
      <3> QED
        BY <3>1, <3>2, <3>3 DEF JobsAwaited, JobsOf
    <2> QED
      BY <1>1, <2>1, <2>2, <2>3, <2>4, <2>5 DEF MainStep
  <1>2. ASSUME NEW c \in Controllers, DeadlinePasses(c) PROVE JobsAwaited'
    BY <1>2 DEF DeadlinePasses, JobsAwaited
  <1>3. ASSUME NEW c \in Controllers, Crash(c) PROVE JobsAwaited'
    <2>1. \A b \in Attempts : /\ job'[b].by = job[b].by
                              /\ job'[b].pc \in Active => job[b].pc \in Active /\ job[b].by # c
      BY <1>0, <1>3 DEF Crash, JobsTypeOK, JobRow, Active
    <2>2. \A d \in Controllers : d # c => pc'[d] = pc[d] /\ claimed'[d] = claimed[d]
      BY <1>0, <1>3 DEF Crash, Goto, ControlTypeOK
    <2> QED
      BY <2>1, <2>2 DEF JobsAwaited
  <1>4. ASSUME NEW a \in Attempts, JobStep(a) PROVE JobsAwaited'
    <2>1. UNCHANGED control /\ job[a].pc \in Active /\ \E l \in JobStates : JobGoto(a, l)
      BY <1>4, JobKinds
    <2> QED
      BY <1>0, <2>1, JobMove DEF JobsAwaited, control
  <1>5. CASE Cancel \/ Answer \/ ReviseRead \/ ReviseWrite
    BY <1>5 DEF Cancel, Answer, ReviseRead, ReviseWrite, JobsAwaited, control
  <1> QED
    BY <1>1, <1>2, <1>3, <1>4, <1>5 DEF Next

\* No call of resume leaves its round, starts over or returns while a thread it started still works:
\* recovery and settlement of a controller never meet its own jobs.
THEOREM RoundsAreAwaited == Spec => []JobsAwaited
  <1>1. Init => JobsAwaited
    BY DEF Init, JobsAwaited, Active
  <1>2. TypeOK /\ JobsAwaited /\ [Next]_vars => JobsAwaited'
    BY AwaitedStep DEF vars, control, JobsAwaited
  <1> QED
    BY <1>1, <1>2, TypeCorrect, PTL DEF Spec

-----------------------------------------------------------------------------
(* A completed task and plan revisions.                                        *)

\* Only the job of an announced attempt makes a task succeeded.
LEMMA SucceedsByJob ==
  ASSUME TypeOK, Next, NEW t \in Tasks, tasks'[t].state = "succeeded", tasks[t].state # "succeeded"
  PROVE  \E a \in Attempts : JobEnds(a) /\ atts[a].task = t /\ job[a].pc = "promoted"
  <1>0. LedgerTypeOK
    BY TypeParts
  <1>1. ~ Quiet
    BY DEF Quiet
  <1>2. ~ EndsRun
    BY <1>0, EndEffect
  <1>3. ~ Answer
    BY <1>0, AnswerEffect DEF Answer
  <1>4. ~ ReviseWrite
    BY ReviseEffect
  <1>5. \A c \in Controllers : ~ Promotes(c)
    BY <1>0, PromoteEffect DEF Promotes
  <1>6. \A c \in Controllers : ~ Recovers(c)
    BY <1>0, RecoverEffect DEF Recovers
  <1>7. \A c \in Controllers, a \in Attempts : ~ ClaimsFor(c, a)
    BY <1>0, ClaimEffect DEF ClaimsFor
  <1>8. PICK a \in Attempts : JobEnds(a)
    BY <1>1, <1>2, <1>3, <1>4, <1>5, <1>6, <1>7, StepKinds
  <1>9. atts[a].task = t /\ job[a].pc = "promoted"
    BY <1>0, <1>8, SettleEffect DEF JobEnds, SettledAs
  <1> QED
    BY <1>8, <1>9

\* What a controller holds from an earlier read of the tasks.
LEMMA CursorKinds ==
  ASSUME TypeOK, Next, NEW c \in Controllers
  PROVE  \/ pc'[c] = pc[c] /\ rows'[c] = rows[c]
         \/ ResumeStart(c) \/ NextTaskRead(c)
         \/ pc'[c] \notin {"recover", "next"} /\ rows'[c] \in {rows[c], NoRows}
  <1>0. ControlTypeOK
    BY TypeParts
  <1>1. ASSUME NEW d \in Controllers, ResumeStart(d) \/ MainStep(d) \/ DeadlinePasses(d) \/ Crash(d), d # c
        PROVE  pc'[c] = pc[c] /\ rows'[c] = rows[c]
    BY <1>0, <1>1 DEF ResumeStart, MainStep, DeadlinePasses, Crash, Recover, NextTaskRead, NextTaskWrite,
                      CheckBudget, Claim, RecordTaskFailure, WaitRound, Drain, Settle, Goto, ControlTypeOK
  <1>2. CASE Recover(c) \/ NextTaskWrite(c) \/ CheckBudget(c) \/ Claim(c) \/ RecordTaskFailure(c)
    BY <1>0, <1>2 DEF Recover, NextTaskWrite, CheckBudget, Claim, RecordTaskFailure, Goto, ControlTypeOK
  <1>3. CASE WaitRound(c) \/ Drain(c) \/ Settle(c) \/ DeadlinePasses(c) \/ Crash(c)
    BY <1>0, <1>3 DEF WaitRound, Drain, Settle, DeadlinePasses, Crash, Goto, ControlTypeOK
  <1>4. ASSUME NEW a \in Attempts, JobStep(a) PROVE pc'[c] = pc[c] /\ rows'[c] = rows[c]
    BY <1>4, JobKinds DEF control
  <1>5. CASE Cancel \/ Answer \/ ReviseRead \/ ReviseWrite
    BY <1>5 DEF Cancel, Answer, ReviseRead, ReviseWrite, control
  <1> QED
    BY <1>1, <1>2, <1>3, <1>4, <1>5 DEF Next, MainStep

\* What recover_running found running has not succeeded before it is written back.
RecoverySees ==
    \A c \in Controllers : pc[c] = "recover" => \A t \in rows[c].running : tasks[t].state # "succeeded"

\* Tasks running when recover_running looks: they have not succeeded.
LEMMA RecoveryReads ==
  ASSUME ControlTypeOK, NEW c \in Controllers, ResumeStart(c)
  PROVE  rows'[c].running = InState({"running"}) /\ UNCHANGED <<tasks, atts>>
  BY DEF ResumeStart, ControlTypeOK, ReadRow, NoRows, store, ledger

LEMMA RecoveryStep ==
  ASSUME \A c, d \in Controllers : c = d, TypeOK, JobsAwaited, RecoverySees, Next
  PROVE  RecoverySees'
  <1>0. ControlTypeOK
    BY TypeParts
  <1> SUFFICES ASSUME NEW c \in Controllers, pc'[c] = "recover", NEW t \in rows'[c].running
               PROVE  tasks'[t].state # "succeeded"
    BY DEF RecoverySees
  <1>1. CASE ResumeStart(c)
    BY <1>0, <1>1, RecoveryReads DEF InState
  <1>2. CASE NextTaskRead(c)
    BY <1>0, <1>2 DEF NextTaskRead, Goto, ControlTypeOK
  <1>3. CASE pc[c] = "recover" /\ rows'[c] = rows[c]
    <2>1. t \in Tasks /\ tasks[t].state # "succeeded"
      BY <1>0, <1>3 DEF RecoverySees, ControlTypeOK, ReadRow
    <2>2. \A a \in Attempts : ~ JobEnds(a)
      BY <1>3 DEF JobEnds, JobsAwaited
    <2> QED
      BY <2>1, <2>2, SucceedsByJob
  <1> QED
    BY <1>1, <1>2, <1>3, CursorKinds

\* A completed task stays completed when recovery finds nothing completed.
LEMMA CompletedStep ==
  ASSUME TypeOK, RecoverySees, Next, NEW t \in Tasks, tasks[t].state = "succeeded", tasks'[t].state # "succeeded"
  PROVE  draft # NoDraft /\ draft.existing[t].state # "succeeded"
  <1>0. LedgerTypeOK
    BY TypeParts
  <1>1. ~ Quiet
    BY DEF Quiet
  <1>2. ~ EndsRun
    BY <1>0, EndEffect
  <1>3. ~ Answer
    BY <1>0, AnswerEffect, PendingRows DEF Answer
  <1>4. \A c \in Controllers : ~ Promotes(c)
    BY <1>0, PromoteEffect DEF Promotes
  <1>5. \A c \in Controllers : ~ Recovers(c)
    BY <1>0, RecoverEffect DEF Recovers, RecoverySees
  <1>6. \A c \in Controllers, a \in Attempts : ~ ClaimsFor(c, a)
    BY <1>0, ClaimEffect DEF ClaimsFor
  <1>7. \A a \in Attempts : ~ JobEnds(a)
    BY <1>0, SettleEffect DEF JobEnds, SettledAs, Running
  <1>8. ReviseWrite
    BY <1>1, <1>2, <1>3, <1>4, <1>5, <1>6, <1>7, StepKinds
  <1> QED
    BY <1>8, ReviseEffect

\* While one controller at a time drains the run, its own jobs, recoveries, settlements and crashes, a
\* cancellation and a spent budget never undo a completed task: only a revision whose checks were made
\* before the task completed does. (With a second controller, recovery may take it back.)
THEOREM CompletedSurvives ==
  ASSUME \A c, d \in Controllers : c = d
  PROVE  Spec => CompletedSurvivesRevision
  <1> DEFINE Seen == TypeOK /\ JobsAwaited /\ RecoverySees
  <1>1. Init => Seen
    BY TypeInit DEF Init, JobsAwaited, RecoverySees, Active
  <1>2. Seen /\ [Next]_vars => Seen'
    <2>1. Seen /\ Next => Seen'
      BY TypeStep, AwaitedStep, RecoveryStep
    <2>2. Seen /\ UNCHANGED vars => Seen'
      BY TypeStep DEF vars, control, store, ledger, JobsAwaited, RecoverySees
    <2> QED
      BY <2>1, <2>2
  <1>3. Seen /\ [Next]_vars =>
          [\A t \in InState({"succeeded"}) :
             tasks'[t].state # "succeeded" => draft # NoDraft /\ draft.existing[t].state # "succeeded"]_vars
    BY CompletedStep DEF InState
  <1> QED
    BY <1>1, <1>2, <1>3, PTL DEF Spec, CompletedSurvivesRevision

-----------------------------------------------------------------------------
(* Controllers that race over the same tasks.                                  *)

Verified(d)     == \E a \in AttemptsOf(d) \cap passed : atts[a].status = "succeeded"
DepsVerified(t) == \A d \in tasks[t].deps : Verified(d)

\* A task that may be claimed, is waiting for an answer or has an attempt.
Started(t) ==
    \/ tasks[t].state \in {"pending", "ready", "running", "uncertain"}
    \/ t \in PendingInput
    \/ AttemptsOf(t) # {}

\* Such a task has its dependencies verified, and so has one that a controller read and may still write back.
DependenciesHold ==
    /\ \A t \in Tasks : Started(t) => DepsVerified(t)
    /\ \A c \in Controllers : \A t \in rows[c].ready \cup rows[c].running : DepsVerified(t)

\* The row of a succeeded attempt is never rewritten.
LEMMA SucceededStays ==
  ASSUME IInv, Next, NEW a \in Attempts, atts[a].status = "succeeded"
  PROVE  atts'[a].task = atts[a].task /\ atts'[a].status = "succeeded"
  <1>0. TypeOK /\ LedgerTypeOK
    BY TypeParts DEF IInv
  <1>1. CASE Quiet
    BY <1>1 DEF Quiet
  <1>2. CASE EndsRun
    BY <1>0, <1>2, EndEffect
  <1>3. CASE Answer \/ ReviseWrite
    BY <1>3 DEF Answer, AnswerInput, ReviseWrite, CommitPlanRevision
  <1>4. ASSUME NEW c \in Controllers, Promotes(c) PROVE UNCHANGED atts
    BY <1>4 DEF Promotes
  <1>5. ASSUME NEW c \in Controllers, Recovers(c) PROVE atts'[a].task = atts[a].task /\ atts'[a].status = "succeeded"
    BY <1>0, <1>5, RecoverEffect DEF Recovers
  <1>6. ASSUME NEW c \in Controllers, NEW b \in Attempts, ClaimsFor(c, b)
        PROVE  atts'[a].task = atts[a].task /\ atts'[a].status = "succeeded"
    BY <1>0, <1>6, ClaimEffect DEF ClaimsFor
  <1>7. ASSUME NEW b \in Attempts, JobEnds(b) PROVE atts'[a].task = atts[a].task /\ atts'[a].status = "succeeded"
    <2>1. b # a
      BY <1>7 DEF JobEnds, IInv, JobsMatchAttempts
    <2> QED
      BY <1>0, <1>7, <2>1, SettleEffect DEF JobEnds, SettledAs
  <1> QED
    BY <1>0, <1>1, <1>2, <1>3, <1>4, <1>5, <1>6, <1>7, StepKinds

LEMMA VerifiedStays ==
  ASSUME IInv, Next, NEW d, Verified(d)
  PROVE  Verified(d)'
  <1>1. PICK a \in Attempts : a \in passed /\ atts[a].task = d /\ atts[a].status = "succeeded"
    BY DEF Verified, AttemptsOf
  <1>2. a \in passed'
    BY <1>1, StepKinds DEF IInv
  <1> QED
    BY <1>1, <1>2, SucceededStays DEF Verified, AttemptsOf

\* Only a revision changes what a task depends on.
LEMMA DepsKept ==
  ASSUME TypeOK, Next, ~ ReviseWrite, NEW t \in Tasks
  PROVE  tasks'[t].deps = tasks[t].deps
  <1>0. LedgerTypeOK
    BY TypeParts
  <1>1. CASE Quiet
    BY <1>1 DEF Quiet
  <1>2. CASE EndsRun \/ Answer
    BY <1>0, <1>2, EndEffect, AnswerEffect DEF Answer, SameQuestion
  <1>3. ASSUME NEW c \in Controllers, Promotes(c) PROVE SameQuestion(t)
    BY <1>0, <1>3, PromoteEffect DEF Promotes
  <1>4. ASSUME NEW c \in Controllers, Recovers(c) PROVE SameQuestion(t)
    BY <1>0, <1>4, RecoverEffect DEF Recovers
  <1>5. ASSUME NEW c \in Controllers, NEW a \in Attempts, ClaimsFor(c, a) PROVE SameQuestion(t)
    BY <1>0, <1>5, ClaimEffect DEF ClaimsFor
  <1>6. ASSUME NEW a \in Attempts, JobEnds(a) PROVE tasks'[t].deps = tasks[t].deps
    BY <1>0, <1>6, SettleEffect DEF JobEnds, SettledAs
  <1> QED
    BY <1>1, <1>2, <1>3, <1>4, <1>5, <1>6, StepKinds DEF SameQuestion

\* A step starts only what was started, or what a controller read to be ready or running.
LEMMA StartsWhatWasRead ==
  ASSUME IInv, Next, ~ ReviseWrite, NEW t \in Tasks, Started(t)'
  PROVE  /\ tasks'[t].deps = tasks[t].deps
         /\ Started(t) \/ \E c \in Controllers : t \in rows[c].ready \cup rows[c].running
  <1>0. TypeOK /\ LedgerTypeOK
    BY TypeParts DEF IInv
  <1> DEFINE Goal == /\ tasks'[t].deps = tasks[t].deps
                     /\ Started(t) \/ \E c \in Controllers : t \in rows[c].ready \cup rows[c].running
  <1>a. \/ tasks'[t].state \in {"pending", "ready", "running", "uncertain"}
        \/ tasks'[t].state = "waiting" /\ tasks'[t].asked
        \/ \E a \in Attempts : atts'[a].status # "none" /\ atts'[a].task = t
    BY DEF Started, PendingInput, InState, AttemptsOf
  <1>b. \/ tasks[t].state \in {"pending", "ready", "running", "uncertain"}
        \/ tasks[t].state = "waiting" /\ tasks[t].asked
        \/ \E a \in Attempts : atts[a].status # "none" /\ atts[a].task = t
        => Started(t)
    BY DEF Started, PendingInput, InState, AttemptsOf
  <1>1. CASE Quiet
    BY <1>1, <1>a, <1>b DEF Quiet
  <1>2. CASE EndsRun
    BY <1>0, <1>2, <1>a, <1>b, EndEffect DEF SameQuestion
  <1>3. CASE Answer
    BY <1>0, <1>3, <1>a, <1>b, AnswerEffect, PendingRows DEF Answer, SameQuestion
  <1>4. ASSUME NEW c \in Controllers, Promotes(c) PROVE Goal
    <2>1. /\ SameQuestion(t)
          /\ \/ tasks'[t].state = tasks[t].state
             \/ tasks[t].state \in {"pending", "waiting"} /\ tasks'[t].state = "blocked"
             \/ tasks[t].state \in {"pending", "waiting"} /\ tasks'[t].state = "ready" /\ t \in rows[c].ready
      BY <1>0, <1>4, PromoteEffect DEF Promotes
    <2>2. UNCHANGED atts
      BY <1>4 DEF Promotes
    <2> QED
      BY <2>1, <2>2, <1>a, <1>b DEF SameQuestion
  <1>5. ASSUME NEW c \in Controllers, Recovers(c) PROVE Goal
    <2>1. /\ SameQuestion(t) /\ tasks'[t].state = IF t \in rows[c].running THEN "uncertain" ELSE tasks[t].state
          /\ \A b \in Attempts :
               /\ atts'[b].task = atts[b].task
               /\ atts'[b].status = IF atts[b].status = "running" /\ atts[b].task \in rows[c].running
                                      THEN "uncertain" ELSE atts[b].status
      BY <1>0, <1>5, RecoverEffect DEF Recovers
    <2> QED
      BY <2>1, <1>a, <1>b DEF SameQuestion
  <1>6. ASSUME NEW c \in Controllers, NEW b \in Attempts, ClaimsFor(c, b) PROVE Goal
    <2>1. PICK u \in Tasks :
            /\ tasks[u].state \in {"pending", "ready", "uncertain"}
            /\ SameQuestion(t) /\ tasks'[t].state = IF t = u THEN "running" ELSE tasks[t].state
            /\ \A e \in Attempts : atts'[e] = IF e = b THEN [task |-> u, status |-> "running"] ELSE atts[e]
      BY <1>0, <1>6, ClaimEffect DEF ClaimsFor
    <2>2. CASE t = u
      BY <2>1, <2>2, <1>b DEF SameQuestion
    <2>3. CASE t # u
      BY <2>1, <2>3, <1>a, <1>b DEF SameQuestion
    <2> QED
      BY <2>2, <2>3
  <1>7. ASSUME NEW b \in Attempts, JobEnds(b) PROVE Goal
    <2>1. atts[b].status # "none"
      BY <1>7 DEF JobEnds, IInv, JobsMatchAttempts, Active
    <2>2. PICK s, q : SettledAs(b, s, q) /\ tasks[atts[b].task].state = "running"
      BY <1>0, <1>7, SettleEffect DEF JobEnds, Running
    <2>3. CASE t = atts[b].task
      BY <2>2, <2>3, <1>b DEF SettledAs
    <2>4. CASE t # atts[b].task
      BY <2>1, <2>2, <2>4, <1>a, <1>b DEF SettledAs
    <2> QED
      BY <2>3, <2>4
  <1> QED
    BY <1>0, <1>1, <1>2, <1>3, <1>4, <1>5, <1>6, <1>7, StepKinds

\* What next_task finds ready has every dependency succeeded, so verified.
LEMMA ReadyIsVerified ==
  ASSUME IInv, NEW t \in ReadyRows
  PROVE  DepsVerified(t)
  <1>1. \A d \in tasks[t].deps : d \in InState({"succeeded"})
    BY TypeParts DEF ReadyRows, Undecided, InState, IInv, LedgerTypeOK, TaskRow
  <1> QED
    BY <1>1 DEF IInv, SucceededIsVerified, DepsVerified, Verified

LEMMA DependenciesStep ==
  ASSUME IInv, DependenciesHold, Next, ~ ReviseWrite
  PROVE  DependenciesHold'
  <1>0. TypeOK /\ LedgerTypeOK /\ ControlTypeOK
    BY TypeParts DEF IInv
  <1>1. ASSUME NEW t \in Tasks, tasks'[t].deps = tasks[t].deps, DepsVerified(t)
        PROVE  DepsVerified(t)'
    BY <1>1, VerifiedStays DEF DepsVerified
  <1>2. ASSUME NEW t \in Tasks, Started(t)' PROVE DepsVerified(t)'
    BY <1>1, <1>2, StartsWhatWasRead DEF DependenciesHold
  <1>3. ASSUME NEW c \in Controllers, NEW t \in rows'[c].ready \cup rows'[c].running
        PROVE  DepsVerified(t)'
    <2>a. t \in Tasks /\ rows'[c] \in ReadRow
      BY TypeStep, TypePartsNext, <1>0, <1>3 DEF ControlTypeOK, ReadRow
    <2>b. tasks'[t].deps = tasks[t].deps
      BY <1>0, <2>a, DepsKept
    <2>1. CASE t \in rows[c].ready \cup rows[c].running
      BY <1>1, <2>1, <2>a, <2>b DEF DependenciesHold
    <2>2. CASE ResumeStart(c)
      <3>1. rows'[c].running = InState({"running"}) /\ rows'[c].ready = {}
        BY <1>0, <2>2 DEF ResumeStart, ControlTypeOK, ReadRow, NoRows
      <3>2. Started(t)
        BY <1>3, <3>1 DEF Started, InState
      <3> QED
        BY <1>1, <2>a, <2>b, <3>2 DEF DependenciesHold
    <2>3. CASE NextTaskRead(c)
      <3>1. rows'[c].ready = ReadyRows /\ rows'[c].running = {}
        BY <1>0, <2>3 DEF NextTaskRead, ControlTypeOK, ReadRow, NoRows
      <3> QED
        BY <1>1, <1>3, <2>a, <2>b, <3>1, ReadyIsVerified
    <2>4. CASE rows'[c] \in {rows[c], NoRows}
      BY <1>3, <2>1, <2>4 DEF NoRows
    <2> QED
      BY <1>0, <2>1, <2>2, <2>3, <2>4, CursorKinds
  <1> QED
    BY <1>2, <1>3 DEF DependenciesHold

\* A step that no job makes; it leaves the artifacts alone.
Outside ==
    \/ \E c \in Controllers : ResumeStart(c) \/ MainStep(c) \/ DeadlinePasses(c) \/ Crash(c)
    \/ Cancel \/ Answer \/ ReviseRead \/ ReviseWrite

LEMMA OutsideEffect ==
  ASSUME IInv, Outside
  PROVE  /\ UNCHANGED artifacts
         /\ \A b \in Attempts :
              \/ job'[b].pc = job[b].pc
              \/ job[b].pc \in {"start", "nofactory", "over_budget"} /\ job'[b].pc = "over"
              \/ job[b].pc \in Active \cup {"over_budget"} /\ job'[b].pc = "dead"
              \/ job[b].pc = "none" /\ \E c \in Controllers : ClaimsFor(c, b)
  <1>0. JobsTypeOK /\ TypeOK
    BY TypeParts DEF IInv
  <1> DEFINE Rests == \A b \in Attempts :
              \/ job'[b].pc = job[b].pc
              \/ job[b].pc \in {"start", "nofactory", "over_budget"} /\ job'[b].pc = "over"
              \/ job[b].pc \in Active \cup {"over_budget"} /\ job'[b].pc = "dead"
              \/ job[b].pc = "none" /\ \E c \in Controllers : ClaimsFor(c, b)
  <1>1. ASSUME NEW c \in Controllers, ResumeStart(c) \/ MainStep(c) PROVE UNCHANGED artifacts /\ Rests
    <2>1. UNCHANGED artifacts
      BY <1>0, <1>1, MainKinds
    <2>2. CASE ResumeStart(c) \/ Recover(c) \/ NextTaskRead(c) \/ NextTaskWrite(c) \/ CheckBudget(c) \/ Settle(c)
      BY <2>1, <2>2 DEF ResumeStart, Recover, NextTaskRead, NextTaskWrite, CheckBudget, Settle
    <2>3. CASE Claim(c)
      <3>1. CASE UNCHANGED job
        BY <2>1, <3>1
      <3>2. ASSUME NEW a \in Attempts, ClaimsFor(c, a) PROVE Rests
        <4>1. atts[a].status = "none"
          BY <3>2 DEF ClaimsFor, ClaimTask
        <4>2. job[a].pc = "none"
          BY <4>1 DEF IInv, JobsMatchAttempts
        <4>3. \A b \in Attempts : b # a => job'[b] = job[b]
          BY <1>0, <3>2 DEF ClaimsFor, JobsTypeOK
        <4> QED
          BY <3>2, <4>2, <4>3
      <3> QED
        BY <1>0, <2>1, <2>3, <3>1, <3>2, ClaimKinds
    <2>4. CASE RecordTaskFailure(c)
      <3>1. PICK a \in Attempts : job[a].pc = "nofactory" /\ JobGoto(a, "over")
        BY <2>4 DEF RecordTaskFailure, JobGoto, JobsOf
      <3> QED
        BY <1>0, <2>1, <3>1, JobMove
    <2>5. CASE WaitRound(c) \/ Drain(c)
      BY <1>0, <2>1, <2>5 DEF WaitRound, Drain, JobsTypeOK, JobRow
    <2> QED
      BY <1>1, <2>1, <2>2, <2>3, <2>4, <2>5 DEF MainStep
  <1>2. ASSUME NEW c \in Controllers, DeadlinePasses(c) PROVE UNCHANGED artifacts /\ Rests
    BY <1>2 DEF DeadlinePasses, store
  <1>3. ASSUME NEW c \in Controllers, Crash(c) PROVE UNCHANGED artifacts /\ Rests
    BY <1>0, <1>3 DEF Crash, store, JobsTypeOK, JobRow
  <1>4. CASE Cancel \/ Answer \/ ReviseRead \/ ReviseWrite
    BY <1>4 DEF Cancel, Answer, ReviseRead, ReviseWrite, store
  <1> QED
    BY <1>1, <1>2, <1>3, <1>4 DEF Outside

\* What a job does with outputs: copy, index and announce them, complete the task with them, or drop them.
Copies(a) ==
    /\ job[a].pc = "accepted" /\ Running(atts[a].task) /\ JobGoto(a, "copied")
    /\ file' = [file EXCEPT ![atts[a].task] = a] /\ UNCHANGED <<outputs, promoted>>

Indexes(a) ==
    /\ job[a].pc = "copied" /\ JobGoto(a, "indexed")
    /\ outputs' = outputs \cup {a} /\ UNCHANGED <<promoted, file>>

Announces(a) ==
    /\ job[a].pc = "indexed" /\ JobGoto(a, "promoted")
    /\ promoted' = promoted \cup {a} /\ UNCHANGED <<outputs, file>>

\* The places of a job that has begun to promote.
Placed == {"copied", "indexed", "promoted"}

\* A step that leaves the outputs alone.
LeavesOutputs(a) ==
    /\ job[a].pc # "promoted" /\ UNCHANGED <<outputs, promoted, file>>
    /\ \E l \in JobStates \ ({"none"} \cup Placed) : JobGoto(a, l)

LEMMA OutputKinds ==
  ASSUME NEW a \in Attempts, JobStep(a)
  PROVE  \/ DiscardIfStopped(a) \/ Copies(a) \/ Indexes(a) \/ Announces(a) \/ LeavesOutputs(a)
         \/ job[a].pc = "promoted" /\ UNCHANGED <<outputs, promoted, file>>
            /\ FinishTask(atts[a].task, a, TRUE) /\ JobGoto(a, "over")
  <1>a. BudgetStops(a) /\ job[a].pc # "promoted" => LeavesOutputs(a)
    BY DEF BudgetStops, artifacts, JobStates, LeavesOutputs, Placed
  <1>b. \A l \in JobStates \ ({"none"} \cup Placed) :
          JobGoto(a, l) /\ UNCHANGED artifacts /\ job[a].pc # "promoted" => LeavesOutputs(a)
    BY DEF artifacts, LeavesOutputs
  <1>c. UNCHANGED store => UNCHANGED artifacts
    BY DEF store
  <1>d. Handle(a) /\ job[a].pc # "promoted" => DiscardIfStopped(a) \/ LeavesOutputs(a)
    BY <1>a, <1>b, <1>c DEF Handle, JobStates, Placed
  <1>1. CASE StartJob(a) \/ RuntimeAsks(a) \/ RuntimeRaises(a) \/ Reject(a)
    BY <1>1, <1>a, <1>b, <1>c, <1>d DEF StartJob, RuntimeAsks, RuntimeRaises, Reject, JobStates, Placed
  <1>2. CASE RecordFailure(a) \/ RecordRejection(a)
    BY <1>2, <1>b DEF RecordFailure, RecordRejection, JobStates, Placed
  <1>3. CASE RuntimeResult(a)
    BY <1>3 DEF RuntimeResult, JobStates, Placed, LeavesOutputs
  <1>4. CASE Evaluate(a)
    BY <1>4, <1>a, <1>b, <1>c, <1>d DEF Evaluate, JobStates, Placed, LeavesOutputs
  <1>5. CASE CopyOutput(a) \/ IndexOutput(a) \/ AnnounceOutput(a)
    BY <1>5, <1>d DEF CopyOutput, IndexOutput, AnnounceOutput, Copies, Indexes, Announces
  <1>6. CASE Complete(a)
    BY <1>6 DEF Complete, artifacts
  <1> QED
    BY <1>1, <1>2, <1>3, <1>4, <1>5, <1>6 DEF JobStep

\* Announced outputs are the business of their job until it is over.
PromotedIsTracked ==
    \A a \in promoted :
       /\ job[a].pc \in {"promoted", "dead", "over"}
       /\ job[a].pc = "over" => a \notin outputs \/ atts[a].status = "succeeded"

LEMMA PromotedStep ==
  ASSUME IInv, PromotedIsTracked, Next
  PROVE  PromotedIsTracked'
  <1>0. TypeOK /\ JobsTypeOK /\ ArtifactsTypeOK /\ LedgerTypeOK
    BY TypeParts DEF IInv
  <1>1. CASE Outside
    <2> SUFFICES ASSUME NEW a \in promoted
                 PROVE  /\ job'[a].pc \in {"promoted", "dead", "over"}
                        /\ job'[a].pc = "over" => a \notin outputs \/ atts'[a].status = "succeeded"
      BY <1>1, OutsideEffect DEF PromotedIsTracked, artifacts
    <2>1. a \in Attempts /\ job[a].pc \in {"promoted", "dead", "over"}
      BY <1>0 DEF ArtifactsTypeOK, PromotedIsTracked
    <2>2. job'[a].pc = job[a].pc \/ job'[a].pc = "dead"
      BY <1>1, <2>1, OutsideEffect
    <2> QED
      BY <2>1, <2>2, SucceededStays DEF PromotedIsTracked
  <1>2. ASSUME NEW b \in Attempts, JobStep(b) PROVE PromotedIsTracked'
    <2>1. \A a \in promoted : a \in Attempts /\ (atts[a].status = "succeeded" => atts'[a].status = "succeeded")
      BY <1>0, SucceededStays DEF ArtifactsTypeOK
    <2>2. job[b].pc \in Active
      BY <1>2, JobOutcomes
    <2>3. CASE DiscardIfStopped(b)
      <3>1. promoted' = promoted /\ outputs' = outputs \ (promoted \cap {b}) /\ JobGoto(b, "over")
        BY <2>3 DEF DiscardIfStopped, DiscardLateResult
      <3> QED
        BY <1>0, <2>1, <3>1, JobMove DEF PromotedIsTracked
    <2>4. CASE Copies(b) \/ Indexes(b) \/ Announces(b)
      <3>1. b \notin promoted
        BY <2>4 DEF Copies, Indexes, Announces, PromotedIsTracked
      <3>2. outputs' \subseteq outputs \cup {b} /\ promoted' \subseteq promoted \cup {b}
            /\ (b \in promoted' => JobGoto(b, "promoted")) /\ \E l : JobGoto(b, l)
        BY <2>4, <3>1 DEF Copies, Indexes, Announces
      <3> QED
        BY <1>0, <2>1, <3>1, <3>2, JobMove DEF PromotedIsTracked
    <2>5. CASE LeavesOutputs(b)
      <3>1. b \notin promoted /\ promoted' = promoted /\ outputs' = outputs /\ \E l : JobGoto(b, l)
        BY <2>2, <2>5 DEF PromotedIsTracked, Active, LeavesOutputs
      <3> QED
        BY <1>0, <2>1, <3>1, JobMove DEF PromotedIsTracked
    <2>6. CASE /\ UNCHANGED <<outputs, promoted, file>>
               /\ FinishTask(atts[b].task, b, TRUE) /\ JobGoto(b, "over")
      <3>1. atts'[b].status = "succeeded"
        BY <1>0, <2>6 DEF FinishTask, LedgerTypeOK, AttemptRow
      <3> QED
        BY <1>0, <2>1, <2>6, <3>1, JobMove DEF PromotedIsTracked
    <2> QED
      BY <1>2, <2>3, <2>4, <2>5, <2>6, OutputKinds
  <1> QED
    BY <1>1, <1>2 DEF Next, Outside

\* Any number of controllers that claim, recover, crash and settle on the same tasks start no task before
\* its dependencies are verified, also when they write back what an earlier read found ready or running;
\* and a cancellation that overtakes an attempt leaves none of its announced outputs once its job is over.
THEOREM RacesAreHarmless ==
  ASSUME Revisions = {}
  PROVE  Spec => []RacesLeaveNothing
  <1> DEFINE Inv == IInv /\ draft = NoDraft /\ DependenciesHold /\ PromotedIsTracked
  <1>1. Init => Inv
    <2> SUFFICES ASSUME Init PROVE Inv
      OBVIOUS
    <2>1. IInv /\ draft = NoDraft /\ promoted = {}
      BY InvInit DEF Init, StoreInit
    <2>2. \A c \in Controllers : rows[c].ready = {} /\ rows[c].running = {}
      BY DEF Init, NoRows
    <2>3. ASSUME NEW t \in Tasks, Started(t) PROVE DepsVerified(t)
      <3>1. tasks[t].deps = {}
        BY <2>3 DEF Init, StoreInit, Started, PendingInput, InState, AttemptsOf, FreshState
      <3> QED
        BY <3>1 DEF DepsVerified
    <2> QED
      BY <2>1, <2>2, <2>3 DEF DependenciesHold, PromotedIsTracked
  <1>2. Inv /\ [Next]_vars => Inv'
    <2>1. Inv /\ Next => Inv'
      BY InvStep, NoDraftStep, DependenciesStep, PromotedStep DEF IInv
    <2>2. Inv /\ UNCHANGED vars => Inv'
      <3>1. Inv /\ UNCHANGED vars => IInv' /\ draft' = NoDraft
        BY InvStep DEF vars
      <3>2. Inv /\ UNCHANGED vars => DependenciesHold' /\ PromotedIsTracked'
        BY DEF vars, control, store, ledger, artifacts, DependenciesHold, DepsVerified, Verified, Started, AttemptsOf,
               PendingInput, InState, PromotedIsTracked
      <3> QED
        BY <3>1, <3>2
    <2> QED
      BY <2>1, <2>2
  <1>3. Inv => RacesLeaveNothing
    BY DEF DependenciesHold, DepsVerified, Verified, Started, RacesLeaveNothing, StartedAfterDependencies,
           PromotedIsTracked, LateOutputsDiscarded
  <1> QED
    BY <1>1, <1>2, <1>3, PTL DEF Spec

-----------------------------------------------------------------------------
(* One controller at a time.                                                   *)

\* Attempt rows are inserted in the order of their numbers.
UsedInOrder == \A a, b \in Attempts : atts[a].status = "none" /\ a < b => atts[b].status = "none"

\* No attempt of the task of a is later.
Latest(a) == \A b \in Attempts : atts[b].status # "none" /\ atts[b].task = atts[a].task => b <= a

\* A live attempt is the latest of its task, which is running.
LiveIsLatest == \A a \in Attempts : atts[a].status = "running" => Running(atts[a].task) /\ Latest(a)

\* A job works on a live attempt, or its task has been stopped for good.
Stopped == {"blocked", "cancelled", "failed"}
JobsOwn ==
    \A a \in Attempts : job[a].pc \in Active => atts[a].status = "running" \/ tasks[atts[a].task].state \in Stopped

\* A question is asked by the latest attempt of its task.
AskerIsLatest ==
    \A t \in Tasks : tasks[t].state = "waiting" /\ tasks[t].asked =>
       \E a \in Attempts : atts[a].task = t /\ atts[a].status = "awaiting_input" /\ Latest(a)

RowsInv == UsedInOrder /\ LiveIsLatest /\ JobsOwn /\ AskerIsLatest

\* A step that claims nothing: it ends live attempts, with their task or in favour of a question.
RowsKept ==
    /\ \A b \in Attempts :
         /\ atts'[b].task = atts[b].task
         /\ atts'[b].status = atts[b].status \/ (atts[b].status = "running" /\ atts'[b].status # "none")
         /\ atts'[b].status = "running" => tasks'[atts[b].task].state = "running"
         /\ job'[b].pc \in Active =>
              job[b].pc \in Active /\ (atts'[b].status = "running" \/ tasks'[atts[b].task].state \in Stopped)
    /\ \A t \in Tasks : tasks'[t].state = "waiting" /\ tasks'[t].asked =>
         \/ tasks[t].state = "waiting" /\ tasks[t].asked
         \/ \E a \in Attempts : /\ atts[a].task = t /\ atts[a].status = "running"
                                /\ atts'[a].status = "awaiting_input"

LEMMA KeptRows ==
  ASSUME RowsInv, RowsKept
  PROVE  RowsInv'
  <1>1. \A b \in Attempts : atts'[b].task = atts[b].task /\ (atts'[b].status = "none" <=> atts[b].status = "none")
    BY DEF RowsKept
  <1>2. \A a \in Attempts : Latest(a) => Latest(a)'
    BY <1>1 DEF Latest
  <1>3. UsedInOrder'
    BY <1>1 DEF RowsInv, UsedInOrder
  <1>4. LiveIsLatest'
    <2> SUFFICES ASSUME NEW a \in Attempts, atts'[a].status = "running"
                 PROVE  tasks'[atts'[a].task].state = "running" /\ Latest(a)'
      BY DEF LiveIsLatest, Running
    <2>1. atts[a].status = "running" /\ tasks'[atts'[a].task].state = "running"
      BY DEF RowsKept
    <2> QED
      BY <1>2, <2>1 DEF RowsInv, LiveIsLatest
  <1>5. JobsOwn'
    BY DEF RowsKept, JobsOwn
  <1>6. AskerIsLatest'
    <2> SUFFICES ASSUME NEW t \in Tasks, tasks'[t].state = "waiting", tasks'[t].asked
                 PROVE  \E a \in Attempts : atts'[a].task = t /\ atts'[a].status = "awaiting_input" /\ Latest(a)'
      BY DEF AskerIsLatest
    <2>1. CASE tasks[t].state = "waiting" /\ tasks[t].asked
      <3>1. PICK a \in Attempts : atts[a].task = t /\ atts[a].status = "awaiting_input" /\ Latest(a)
        BY <2>1 DEF RowsInv, AskerIsLatest
      <3>2. atts'[a].task = t /\ atts'[a].status = "awaiting_input"
        BY <3>1 DEF RowsKept
      <3> QED
        BY <1>2, <3>1, <3>2
    <2>2. ASSUME NEW a \in Attempts, atts[a].task = t, atts[a].status = "running", atts'[a].status = "awaiting_input"
          PROVE  \E b \in Attempts : atts'[b].task = t /\ atts'[b].status = "awaiting_input" /\ Latest(b)'
      BY <1>1, <1>2, <2>2 DEF RowsInv, LiveIsLatest
    <2> QED
      BY <2>1, <2>2 DEF RowsKept
  <1> QED
    BY <1>3, <1>4, <1>5, <1>6 DEF RowsInv

\* A job that is active after a step was so before, or the step claims its task.
LEMMA ActiveStays ==
  ASSUME IInv, Next, NEW b \in Attempts, job'[b].pc \in Active
  PROVE  job[b].pc \in Active \/ \E c \in Controllers : ClaimsFor(c, b)
  <1>0. JobsTypeOK /\ TypeOK
    BY TypeParts DEF IInv
  <1>1. CASE Outside
    BY <1>1, OutsideEffect DEF Active
  <1>2. ASSUME NEW a \in Attempts, JobStep(a) PROVE job[b].pc \in Active
    BY <1>0, <1>2, JobKinds, JobMove
  <1> QED
    BY <1>1, <1>2 DEF Next, Outside

\* The job that settles a running task has the one live attempt of it.
LEMMA SettlesOwn ==
  ASSUME TypeOK, RowsInv, NEW a \in Attempts, JobEnds(a)
  PROVE  /\ atts[a].status = "running" /\ Running(atts[a].task)
         /\ \A b \in Attempts : atts[b].status = "running" /\ atts[b].task = atts[a].task => b = a
  <1>1. Running(atts[a].task) /\ job[a].pc \in Active
    BY SettleEffect, TypeParts DEF JobEnds
  <1>2. atts[a].status = "running"
    BY <1>1 DEF RowsInv, JobsOwn, Stopped, Running
  <1>3. ASSUME NEW b \in Attempts, atts[b].status = "running", atts[b].task = atts[a].task PROVE b = a
    <2>1. b <= a /\ a <= b
      BY <1>2, <1>3 DEF RowsInv, LiveIsLatest, Latest
    <2> QED
      BY <2>1 DEF Attempts
  <1> QED
    BY <1>1, <1>2, <1>3

LEMMA SettlingKeeps ==
  ASSUME IInv, RowsInv, Next, NEW a \in Attempts, JobEnds(a)
  PROVE  RowsKept
  <1>0. TypeOK /\ LedgerTypeOK /\ JobsTypeOK
    BY TypeParts DEF IInv
  <1>1. /\ atts[a].status = "running" /\ tasks[atts[a].task].state = "running"
        /\ \A b \in Attempts : atts[b].status = "running" /\ atts[b].task = atts[a].task => b = a
    BY <1>0, SettlesOwn DEF Running
  <1>2. \E s, q : /\ SettledAs(a, s, q) /\ s # "running" /\ q \notin {"none", "running"}
                  /\ s = "waiting" => q = "awaiting_input"
    BY <1>0, <1>1, SettleEffect DEF JobEnds
  <1>3. PICK s, q : /\ SettledAs(a, s, q) /\ s # "running" /\ q \notin {"none", "running"}
                    /\ s = "waiting" => q = "awaiting_input"
    BY <1>2
  <1>4. job'[a].pc = "over" /\ \A b \in Attempts : b # a => job'[b].pc = job[b].pc
    BY <1>0, JobMove DEF JobEnds
  <1>5. \A b \in Attempts : job[b].pc \in Active => atts[b].status = "running" \/ tasks[atts[b].task].state \in Stopped
    BY DEF RowsInv, JobsOwn
  <1>6. \A b \in Attempts : atts[b].task \in Tasks /\ (atts[b].status = "running" => tasks[atts[b].task].state = "running")
    BY <1>0 DEF RowsInv, LiveIsLatest, Running, LedgerTypeOK, AttemptRow
  <1> QED
    BY <1>1, <1>3, <1>4, <1>5, <1>6 DEF RowsKept, SettledAs, Stopped, Active

LEMMA OthersKeep ==
  ASSUME \A c, d \in Controllers : c = d, IInv, JobsAwaited, RowsInv, Next, ~ ReviseWrite,
         \A c \in Controllers, a \in Attempts : ~ ClaimsFor(c, a)
  PROVE  RowsKept
  <1>0. TypeOK /\ LedgerTypeOK
    BY TypeParts DEF IInv
  <1>1. \A b \in Attempts : job'[b].pc \in Active =>
          job[b].pc \in Active /\ (atts[b].status = "running" \/ tasks[atts[b].task].state \in Stopped)
    BY ActiveStays DEF RowsInv, JobsOwn
  <1>2. \A b \in Attempts : atts[b].task \in Tasks /\ (atts[b].status = "running" => tasks[atts[b].task].state = "running")
    BY <1>0 DEF RowsInv, LiveIsLatest, Running, LedgerTypeOK, AttemptRow
  <1>3. CASE Quiet
    BY <1>1, <1>2, <1>3 DEF RowsKept, Quiet
  <1>4. CASE EndsRun
    BY <1>0, <1>1, <1>2, <1>4, EndEffect DEF RowsKept, SameQuestion, Stopped
  <1>5. CASE Answer
    BY <1>0, <1>1, <1>2, <1>5, AnswerEffect, PendingRows DEF RowsKept, SameQuestion, Stopped, Answer
  <1>6. ASSUME NEW c \in Controllers, Promotes(c) PROVE RowsKept
    <2>1. \A t \in Tasks :
            /\ SameQuestion(t)
            /\ \/ tasks'[t].state = tasks[t].state
               \/ tasks[t].state \in {"pending", "waiting"} /\ tasks'[t].state \in {"blocked", "ready"}
      BY <1>0, <1>6, PromoteEffect DEF Promotes
    <2>2. UNCHANGED atts
      BY <1>6 DEF Promotes
    <2> QED
      BY <1>1, <1>2, <2>1, <2>2 DEF RowsKept, SameQuestion, Stopped
  <1>7. ASSUME NEW c \in Controllers, Recovers(c) PROVE RowsKept
    <2>1. \A b \in Attempts : job'[b].pc \notin Active
      BY <1>1, <1>7 DEF JobsAwaited, Recovers
    <2>2. /\ \A t \in Tasks : SameQuestion(t) /\ tasks'[t].state = IF t \in rows[c].running THEN "uncertain" ELSE tasks[t].state
          /\ \A b \in Attempts :
               /\ atts'[b].task = atts[b].task
               /\ atts'[b].status = IF atts[b].status = "running" /\ atts[b].task \in rows[c].running
                                      THEN "uncertain" ELSE atts[b].status
      BY <1>0, <1>7, RecoverEffect DEF Recovers
    <2> QED
      BY <1>2, <2>1, <2>2 DEF RowsKept, SameQuestion
  <1> QED
    BY <1>0, <1>3, <1>4, <1>5, <1>6, <1>7, SettlingKeeps, StepKinds

LEMMA ClaimKeeps ==
  ASSUME IInv, RowsInv, NEW c \in Controllers, NEW a \in Attempts, ClaimsFor(c, a)
  PROVE  RowsInv'
  <1>0. LedgerTypeOK /\ JobsTypeOK
    BY TypeParts DEF IInv
  <1>1. PICK t \in Tasks :
          /\ tasks[t].state \in {"pending", "ready", "uncertain"} /\ atts[a].status = "none"
          /\ \A u \in Tasks : SameQuestion(u) /\ tasks'[u].state = IF u = t THEN "running" ELSE tasks[u].state
          /\ \A b \in Attempts : atts'[b] = IF b = a THEN [task |-> t, status |-> "running"] ELSE atts[b]
    BY <1>0, ClaimEffect DEF ClaimsFor
  <1>2. \A b \in Attempts : b # a => job'[b] = job[b]
    BY <1>0 DEF ClaimsFor, JobsTypeOK
  <1>3. \A b \in Attempts : atts[b].status = "none" => a <= b
    BY DEF ClaimsFor, First, Unused
  <1>4. \A b \in Attempts : a < b => atts[b].status = "none"
    BY <1>1 DEF RowsInv, UsedInOrder
  <1>5. a \in Int /\ \A b \in Attempts : b \in Int
    BY DEF Attempts
  <1>6. \A b \in Attempts : atts[b].task \in Tasks
    BY <1>0 DEF LedgerTypeOK, AttemptRow
  <1>7. UsedInOrder'
    <2> SUFFICES ASSUME NEW x \in Attempts, NEW y \in Attempts, atts'[x].status = "none", x < y
                 PROVE  atts'[y].status = "none"
      BY DEF UsedInOrder
    <2>1. atts[x].status = "none" /\ a <= x
      BY <1>1, <1>3
    <2>2. atts[y].status = "none" /\ y # a
      BY <1>5, <2>1 DEF RowsInv, UsedInOrder
    <2> QED
      BY <1>1, <2>2
  <1>8. \A b \in Attempts : b # a /\ atts[b].task # t /\ Latest(b) => Latest(b)'
    BY <1>1 DEF Latest
  <1>9. LiveIsLatest'
    <2> SUFFICES ASSUME NEW b \in Attempts, atts'[b].status = "running"
                 PROVE  tasks'[atts'[b].task].state = "running" /\ Latest(b)'
      BY DEF LiveIsLatest, Running
    <2>1. CASE b = a
      <3>1. Latest(a)'
        BY <1>1, <1>4, <1>5 DEF Latest
      <3> QED
        BY <1>1, <2>1, <3>1
    <2>2. CASE b # a
      <3>1. atts[b].status = "running" /\ atts'[b] = atts[b] /\ Latest(b) /\ tasks[atts[b].task].state = "running"
        BY <1>1, <2>2 DEF RowsInv, LiveIsLatest, Running
      <3> QED
        BY <1>1, <1>6, <1>8, <2>2, <3>1
    <2> QED
      BY <2>1, <2>2
  <1>10. JobsOwn'
    <2> SUFFICES ASSUME NEW b \in Attempts, job'[b].pc \in Active
                 PROVE  atts'[b].status = "running" \/ tasks'[atts'[b].task].state \in Stopped
      BY DEF JobsOwn
    <2>1. CASE b = a
      BY <1>1, <2>1
    <2>2. CASE b # a
      <3>1. atts[b].status = "running" \/ tasks[atts[b].task].state \in Stopped
        BY <1>2, <2>2 DEF RowsInv, JobsOwn
      <3> QED
        BY <1>1, <1>6, <2>2, <3>1 DEF Stopped
    <2> QED
      BY <2>1, <2>2
  <1>11. AskerIsLatest'
    <2> SUFFICES ASSUME NEW u \in Tasks, tasks'[u].state = "waiting", tasks'[u].asked
                 PROVE  \E b \in Attempts : atts'[b].task = u /\ atts'[b].status = "awaiting_input" /\ Latest(b)'
      BY DEF AskerIsLatest
    <2>1. u # t /\ tasks[u].state = "waiting" /\ tasks[u].asked
      BY <1>1 DEF SameQuestion
    <2>2. PICK b \in Attempts : atts[b].task = u /\ atts[b].status = "awaiting_input" /\ Latest(b)
      BY <2>1 DEF RowsInv, AskerIsLatest
    <2>3. b # a /\ atts'[b] = atts[b]
      BY <1>1, <2>2
    <2> QED
      BY <1>8, <2>1, <2>2, <2>3
  <1> QED
    BY <1>7, <1>9, <1>10, <1>11 DEF RowsInv

LEMMA RowsStep ==
  ASSUME \A c, d \in Controllers : c = d, IInv, JobsAwaited, RowsInv, Next, ~ ReviseWrite
  PROVE  RowsInv'
  <1>1. ASSUME NEW c \in Controllers, NEW a \in Attempts, ClaimsFor(c, a) PROVE RowsInv'
    BY <1>1, ClaimKeeps
  <1> QED
    BY <1>1, OthersKeep, KeptRows

\* What next_task read is still so when it promotes: no such task has started or asked meanwhile.
PromotionSees ==
    \A c \in Controllers : pc[c] = "next" => \A t \in rows[c].ready : ~ Running(t) /\ t \notin PendingInput

\* Only a claim makes a task run, and only its job makes it ask.
LEMMA RunsOrAsks ==
  ASSUME TypeOK, Next, ~ ReviseWrite, NEW t \in Tasks, ~ Running(t), t \notin PendingInput,
         \A c \in Controllers, a \in Attempts : ~ ClaimsFor(c, a)
  PROVE  ~ Running(t)' /\ t \notin PendingInput'
  <1>0. LedgerTypeOK
    BY TypeParts
  <1>a. /\ tasks[t].state # "running" /\ ~ (tasks[t].state = "waiting" /\ tasks[t].asked)
        /\ tasks'[t].state # "running" /\ ~ (tasks'[t].state = "waiting" /\ tasks'[t].asked)
             => ~ Running(t)' /\ t \notin PendingInput'
    BY PendingRows DEF Running, PendingInput, InState
  <1>1. CASE Quiet
    BY <1>1, <1>a DEF Quiet
  <1>2. CASE EndsRun
    BY <1>0, <1>2, <1>a, EndEffect
  <1>3. CASE Answer
    BY <1>0, <1>3, <1>a, AnswerEffect DEF Answer, SameQuestion
  <1>4. ASSUME NEW c \in Controllers, Promotes(c) PROVE ~ Running(t)' /\ t \notin PendingInput'
    <2>1. SameQuestion(t) /\ (tasks'[t].state = tasks[t].state \/ tasks'[t].state \in {"blocked", "ready"})
      BY <1>0, <1>4, PromoteEffect DEF Promotes
    <2> QED
      BY <2>1, <1>a DEF SameQuestion
  <1>5. ASSUME NEW c \in Controllers, Recovers(c) PROVE ~ Running(t)' /\ t \notin PendingInput'
    <2>1. SameQuestion(t) /\ tasks'[t].state \in {"uncertain", tasks[t].state}
      BY <1>0, <1>5, RecoverEffect DEF Recovers
    <2> QED
      BY <2>1, <1>a DEF SameQuestion
  <1>6. ASSUME NEW a \in Attempts, JobEnds(a) PROVE ~ Running(t)' /\ t \notin PendingInput'
    <2>1. PICK s, q : SettledAs(a, s, q) /\ tasks[atts[a].task].state = "running"
      BY <1>0, <1>6, SettleEffect DEF JobEnds, Running
    <2> QED
      BY <2>1, <1>a DEF SettledAs
  <1> QED
    BY <1>1, <1>2, <1>3, <1>4, <1>5, <1>6, StepKinds

LEMMA PromotionStep ==
  ASSUME \A c, d \in Controllers : c = d, TypeOK, PromotionSees, Next, ~ ReviseWrite
  PROVE  PromotionSees'
  <1>0. ControlTypeOK
    BY TypeParts
  <1> SUFFICES ASSUME NEW c \in Controllers, pc'[c] = "next", NEW t \in rows'[c].ready
               PROVE  ~ Running(t)' /\ t \notin PendingInput'
    BY DEF PromotionSees
  <1>1. CASE NextTaskRead(c)
    <2>1. t \in ReadyRows /\ UNCHANGED tasks
      BY <1>0, <1>1 DEF NextTaskRead, ControlTypeOK, NoRows, store, ledger
    <2> QED
      BY <2>1 DEF ReadyRows, Undecided, InState, Running, PendingInput
  <1>2. CASE ResumeStart(c)
    BY <1>0, <1>2 DEF ResumeStart, Goto, ControlTypeOK
  <1>3. CASE pc[c] = "next" /\ rows'[c] = rows[c]
    <2>1. t \in Tasks /\ ~ Running(t) /\ t \notin PendingInput
      BY <1>0, <1>3 DEF PromotionSees, ControlTypeOK, ReadRow
    <2>2. \A d \in Controllers, a \in Attempts : ~ ClaimsFor(d, a)
      BY <1>3 DEF ClaimsFor
    <2> QED
      BY <2>1, <2>2, RunsOrAsks
  <1> QED
    BY <1>1, <1>2, <1>3, CursorKinds

LEMMA ReleaseStep ==
  ASSUME TypeOK, PromotionSees, Next, ~ ReviseWrite, NEW t \in PendingInput, tasks'[t].state = "ready"
  PROVE  Answer
  <1>0. LedgerTypeOK /\ t \in Tasks /\ tasks[t].state = "waiting" /\ tasks[t].asked
    BY TypeParts DEF PendingInput, InState
  <1>1. ~ Quiet
    BY <1>0 DEF Quiet
  <1>2. ~ EndsRun
    BY <1>0, EndEffect
  <1>3. \A c \in Controllers : ~ Promotes(c)
    BY <1>0, PromoteEffect DEF Promotes, PromotionSees
  <1>4. \A c \in Controllers : ~ Recovers(c)
    BY <1>0, RecoverEffect DEF Recovers
  <1>5. \A c \in Controllers, a \in Attempts : ~ ClaimsFor(c, a)
    BY <1>0, ClaimEffect DEF ClaimsFor
  <1>6. \A a \in Attempts : ~ JobEnds(a)
    BY <1>0, SettleEffect DEF JobEnds, SettledAs, Running
  <1> QED
    BY <1>1, <1>2, <1>3, <1>4, <1>5, <1>6, StepKinds

\* What a live attempt has promoted so far is there: the file at the output path, then its index row.
PromotedIsThere ==
    \A a \in Attempts : atts[a].status = "running" =>
       /\ job[a].pc \in Placed => file[atts[a].task] = a
       /\ job[a].pc \in {"indexed", "promoted"} => a \in outputs

\* Attempt rows are not taken back, and only a claim adds one.
LEMMA AttemptsStay ==
  ASSUME IInv, Next, NEW b \in Attempts
  PROVE  /\ atts[b].status # "none" => atts'[b].status # "none" /\ atts'[b].task = atts[b].task
         /\ atts[b].status = "none" /\ atts'[b].status # "none" => \E c \in Controllers : ClaimsFor(c, b)
  <1>0. TypeOK /\ LedgerTypeOK
    BY TypeParts DEF IInv
  <1> DEFINE Goal == /\ atts[b].status # "none" => atts'[b].status # "none" /\ atts'[b].task = atts[b].task
                     /\ atts[b].status = "none" /\ atts'[b].status # "none" =>
                          \E c \in Controllers : ClaimsFor(c, b)
  <1>1. CASE Quiet
    BY <1>1 DEF Quiet
  <1>2. CASE EndsRun
    BY <1>0, <1>2, EndEffect
  <1>3. CASE Answer \/ ReviseWrite
    BY <1>3 DEF Answer, AnswerInput, ReviseWrite, CommitPlanRevision
  <1>4. ASSUME NEW c \in Controllers, Promotes(c) PROVE Goal
    BY <1>4 DEF Promotes
  <1>5. ASSUME NEW c \in Controllers, Recovers(c) PROVE Goal
    BY <1>0, <1>5, RecoverEffect DEF Recovers
  <1>6. ASSUME NEW c \in Controllers, NEW a \in Attempts, ClaimsFor(c, a) PROVE Goal
    <2>1. atts[a].status = "none" /\ \A e \in Attempts : e # a => atts'[e] = atts[e]
      BY <1>0, <1>6 DEF ClaimsFor, ClaimTask, LedgerTypeOK
    <2> QED
      BY <1>6, <2>1
  <1>7. ASSUME NEW a \in Attempts, JobEnds(a) PROVE Goal
    <2>1. atts[a].status # "none"
      BY <1>7 DEF JobEnds, IInv, JobsMatchAttempts, Active
    <2>2. PICK s, q : SettledAs(a, s, q) /\ q # "none"
      BY <1>0, <1>7, <2>1, SettleEffect DEF JobEnds
    <2> QED
      BY <2>1, <2>2 DEF SettledAs
  <1> QED
    BY <1>0, <1>1, <1>2, <1>3, <1>4, <1>5, <1>6, <1>7, StepKinds

\* No step but its claim makes an attempt live.
LEMMA LiveStays ==
  ASSUME IInv, Next, NEW a \in Attempts, atts[a].status # "none", atts'[a].status = "running"
  PROVE  atts[a].status = "running" /\ atts'[a].task = atts[a].task
  <1>0. TypeOK /\ LedgerTypeOK
    BY TypeParts DEF IInv
  <1> DEFINE Goal == atts[a].status = "running"
  <1>1. CASE Quiet
    BY <1>1 DEF Quiet
  <1>2. CASE EndsRun
    BY <1>0, <1>2, EndEffect
  <1>3. CASE Answer \/ ReviseWrite
    BY <1>3 DEF Answer, AnswerInput, ReviseWrite, CommitPlanRevision
  <1>4. ASSUME NEW c \in Controllers, Promotes(c) PROVE Goal
    BY <1>4 DEF Promotes
  <1>5. ASSUME NEW c \in Controllers, Recovers(c) PROVE Goal
    BY <1>0, <1>5, RecoverEffect DEF Recovers
  <1>6. ASSUME NEW c \in Controllers, NEW b \in Attempts, ClaimsFor(c, b) PROVE Goal
    BY <1>0, <1>6, ClaimEffect DEF ClaimsFor
  <1>7. ASSUME NEW b \in Attempts, JobEnds(b) PROVE Goal
    <2>1. PICK s, q : SettledAs(b, s, q) /\ (q = "running" => q = atts[b].status)
      BY <1>0, <1>7, SettleEffect DEF JobEnds
    <2> QED
      BY <2>1 DEF SettledAs
  <1> QED
    BY <1>0, <1>1, <1>2, <1>3, <1>4, <1>5, <1>6, <1>7, StepKinds, AttemptsStay

LEMMA PromotedThereStep ==
  ASSUME IInv, RowsInv, RowsInv', PromotedIsThere, Next
  PROVE  PromotedIsThere'
  <1>0. TypeOK /\ JobsTypeOK /\ ArtifactsTypeOK /\ LedgerTypeOK
    BY TypeParts DEF IInv
  <1> SUFFICES ASSUME NEW a \in Attempts, job'[a].pc \in Placed, atts'[a].status = "running"
               PROVE  /\ file'[atts'[a].task] = a
                      /\ job'[a].pc \in {"indexed", "promoted"} => a \in outputs'
    BY DEF PromotedIsThere, Placed
  <1>1. CASE Outside
    <2>1. job'[a].pc = job[a].pc /\ UNCHANGED artifacts
      <3>1. ASSUME NEW c \in Controllers, ClaimsFor(c, a) PROVE FALSE
        <4>1. PICK l \in {"start", "nofactory"} :
                job' = [job EXCEPT ![a] = [pc |-> l, by |-> c, seen |-> picked[c].seen]]
          BY <3>1 DEF ClaimsFor
        <4> QED
          BY <1>0, <4>1 DEF JobsTypeOK, Placed
      <3> QED
        BY <1>1, <3>1, OutsideEffect DEF Placed
    <2>2. atts[a].status = "running" /\ atts'[a].task = atts[a].task
      BY <1>1, <2>1, LiveStays DEF IInv, JobsMatchAttempts, Outside, Next, Placed
    <2> QED
      BY <2>1, <2>2 DEF PromotedIsThere, artifacts
  <1>2. ASSUME NEW b \in Attempts, JobStep(b)
        PROVE  /\ file'[atts'[a].task] = a
               /\ job'[a].pc \in {"indexed", "promoted"} => a \in outputs'
    <2>1. job[a].pc # "none"
      BY <1>0, <1>2, JobKinds, JobMove DEF Active, Placed
    <2>2. atts[a].status = "running" /\ atts'[a].task = atts[a].task
      BY <1>2, <2>1, LiveStays DEF IInv, JobsMatchAttempts, Next
    <2>3. atts[a].task \in Tasks /\ Running(atts[a].task)
      BY <1>0, <2>2 DEF RowsInv, LiveIsLatest, LedgerTypeOK, AttemptRow
    <2>4. CASE DiscardIfStopped(b)
      <3>1. /\ JobGoto(b, "over") /\ outputs' = outputs \ (promoted \cap {b}) /\ ~ Running(atts[b].task)
            /\ file' = IF b \in outputs \cap promoted THEN [file EXCEPT ![atts[b].task] = NoAttempt] ELSE file
        BY <2>4 DEF DiscardIfStopped, DiscardLateResult
      <3>2. a # b /\ job'[a].pc = job[a].pc
        BY <1>0, <3>1, JobMove DEF Placed
      <3>3. file'[atts[a].task] = file[atts[a].task]
        BY <1>0, <2>3, <3>1 DEF ArtifactsTypeOK
      <3> QED
        BY <2>2, <3>1, <3>2, <3>3 DEF PromotedIsThere
    <2>5. CASE Copies(b)
      <3>1. /\ outputs' = outputs /\ file' = [file EXCEPT ![atts[b].task] = b] /\ Running(atts[b].task)
            /\ JobGoto(b, "copied")
        BY <2>5 DEF Copies
      <3>2. CASE a = b
        <4>1. job'[a].pc = "copied"
          BY <1>0, <3>1, <3>2, JobMove
        <4> QED
          BY <1>0, <2>2, <2>3, <3>1, <3>2, <4>1 DEF ArtifactsTypeOK
      <3>3. CASE a # b
        <4>1. job'[a].pc = job[a].pc
          BY <1>0, <3>1, <3>3, JobMove
        <4>2. atts[b].status = "running"
          BY <1>2, <3>1, JobOutcomes DEF RowsInv, JobsOwn, Running, Stopped
        <4>3. atts[b].task # atts[a].task
          BY <2>2, <3>3, <4>2 DEF RowsInv, LiveIsLatest, Latest, Attempts
        <4>4. file'[atts[a].task] = file[atts[a].task]
          BY <1>0, <2>3, <3>1, <4>3 DEF ArtifactsTypeOK
        <4> QED
          BY <2>2, <3>1, <4>1, <4>4 DEF PromotedIsThere
      <3> QED
        BY <3>2, <3>3
    <2>6. CASE Indexes(b) \/ Announces(b)
      <3>1. /\ file' = file /\ outputs \subseteq outputs' /\ job[b].pc \in {"copied", "indexed"}
            /\ job[b].pc = "copied" => b \in outputs'
            /\ \E l : JobGoto(b, l)
        BY <2>6 DEF Indexes, Announces
      <3>2. a # b => job'[a].pc = job[a].pc
        BY <1>0, <3>1, JobMove
      <3> QED
        BY <2>2, <3>1, <3>2 DEF PromotedIsThere, Placed
    <2>7. CASE /\ UNCHANGED <<outputs, file>>
               /\ \E l \in JobStates \ ({"none"} \cup Placed) : JobGoto(b, l)
      <3>1. a # b /\ job'[a].pc = job[a].pc
        BY <1>0, <2>7, JobMove
      <3> QED
        BY <2>2, <2>7, <3>1 DEF PromotedIsThere
    <2>8. "over" \in JobStates \ ({"none"} \cup Placed)
      BY DEF JobStates, Placed
    <2> QED
      BY <1>2, <2>4, <2>5, <2>6, <2>7, <2>8, OutputKinds DEF LeavesOutputs
  <1> QED
    BY <1>1, <1>2 DEF Next, Outside

\* A succeeded task has outputs, and the latest attempt that wrote some wrote the file.
OutputsLatest ==
    \A t \in Tasks : tasks[t].state = "succeeded" =>
       \E a \in outputs : /\ atts[a].task = t /\ atts[a].status # "none" /\ file[t] = a
                          /\ \A b \in outputs : atts[b].status # "none" /\ atts[b].task = t => b <= a

\* The step that completes the task of an attempt touches no output.
LEMMA EndsWithoutWriting ==
  ASSUME IInv, Next, NEW a \in Attempts, JobEnds(a), job[a].pc = "promoted", ~ UNCHANGED ledger
  PROVE  UNCHANGED <<outputs, file>>
  <1>0. TypeOK /\ JobsTypeOK
    BY TypeParts DEF IInv
  <1>1. job'[a].pc = "over"
    BY <1>0, JobMove DEF JobEnds
  <1>2. CASE Outside
    BY <1>2, OutsideEffect DEF artifacts
  <1>3. ASSUME NEW b \in Attempts, JobStep(b) PROVE UNCHANGED <<outputs, file>>
    <2>1. ~ DiscardIfStopped(b)
      BY DEF DiscardIfStopped
    <2>2. ~ (Copies(b) \/ Indexes(b) \/ Announces(b))
      <3> SUFFICES ASSUME Copies(b) \/ Indexes(b) \/ Announces(b) PROVE FALSE
        OBVIOUS
      <3>1. b # a /\ \E l : JobGoto(b, l)
        BY DEF Copies, Indexes, Announces
      <3> QED
        BY <1>0, <1>1, <3>1, JobMove
    <2> QED
      BY <1>3, <2>1, <2>2, OutputKinds DEF LeavesOutputs
  <1> QED
    BY <1>2, <1>3 DEF Next, Outside

LEMMA OutputsStep ==
  ASSUME IInv, RowsInv, PromotedIsThere, OutputsLatest, Next
  PROVE  OutputsLatest'
  <1>0. TypeOK /\ JobsTypeOK /\ ArtifactsTypeOK /\ LedgerTypeOK
    BY TypeParts DEF IInv
  <1> SUFFICES ASSUME NEW t \in Tasks, tasks'[t].state = "succeeded"
               PROVE  \E a \in outputs' :
                        /\ atts'[a].task = t /\ atts'[a].status # "none" /\ file'[t] = a
                        /\ \A b \in outputs' : atts'[b].status # "none" /\ atts'[b].task = t => b <= a
    BY DEF OutputsLatest
  <1>a. outputs \subseteq Attempts /\ outputs' \subseteq Attempts
    <2>1. ArtifactsTypeOK'
      BY <1>0, TypeStep, TypePartsNext
    <2> QED
      BY <1>0, <2>1 DEF ArtifactsTypeOK
  <1>b. ASSUME NEW b \in Attempts, atts'[b].status # "none", atts'[b].task = t
        PROVE  atts[b].status # "none" /\ atts[b].task = t
    <2>1. ASSUME NEW c \in Controllers, ClaimsFor(c, b) PROVE FALSE
      <3>1. picked[c].task \in Tasks /\ ClaimTask(picked[c].task, b, FALSE)
        BY <2>1 DEF ClaimsFor
      <3>2. tasks'[picked[c].task].state = "running" /\ atts'[b].task = picked[c].task
        BY <1>0, <3>1 DEF ClaimTask, LedgerTypeOK, TaskRow
      <3> QED
        BY <1>b, <3>2
    <2> QED
      BY <1>b, <2>1, AttemptsStay
  <1>1. CASE tasks[t].state # "succeeded"
    <2>1. PICK a \in Attempts : JobEnds(a) /\ atts[a].task = t /\ job[a].pc = "promoted"
      BY <1>0, <1>1, SucceedsByJob
    <2>2. atts[a].status = "running" /\ Latest(a)
      BY <1>0, <2>1, SettlesOwn DEF RowsInv, LiveIsLatest
    <2>3. a \in outputs /\ file[t] = a
      BY <2>1, <2>2 DEF PromotedIsThere, Placed
    <2>4. ~ UNCHANGED ledger
      BY <1>1 DEF ledger
    <2>5. UNCHANGED <<outputs, file>>
      BY <2>1, <2>4, EndsWithoutWriting
    <2>6. atts'[a].task = t /\ atts'[a].status # "none"
      BY <2>1, <2>2, AttemptsStay
    <2>7. \A b \in outputs' : atts'[b].status # "none" /\ atts'[b].task = t => b <= a
      BY <1>a, <1>b, <2>1, <2>2 DEF Latest
    <2> QED
      BY <2>3, <2>5, <2>6, <2>7
  <1>2. CASE tasks[t].state = "succeeded"
    <2>1. PICK a \in outputs : /\ atts[a].task = t /\ atts[a].status # "none" /\ file[t] = a
                              /\ \A b \in outputs : atts[b].status # "none" /\ atts[b].task = t => b <= a
      BY <1>2 DEF OutputsLatest
    <2>2. atts'[a].task = t /\ atts'[a].status # "none"
      BY <1>a, <2>1, AttemptsStay
    <2>3. a \in outputs' /\ file'[t] = a /\ \A b \in outputs' : atts[b].task = t => b \in outputs
      <3>1. CASE Outside
        BY <2>1, <3>1, OutsideEffect DEF artifacts
      <3>2. ASSUME NEW b \in Attempts, JobStep(b)
            PROVE  a \in outputs' /\ file'[t] = a /\ \A e \in outputs' : atts[e].task = t => e \in outputs
        <4>1. atts[b].task \in Tasks /\ atts[b].task # t
          BY <1>0, <1>2, <3>2, JobOutcomes DEF RowsInv, JobsOwn, LiveIsLatest, Running, Stopped, LedgerTypeOK, AttemptRow
        <4>2. CASE DiscardIfStopped(b)
          <5>1. /\ outputs' = outputs \ (promoted \cap {b})
                /\ file' = IF b \in outputs \cap promoted THEN [file EXCEPT ![atts[b].task] = NoAttempt] ELSE file
            BY <4>2 DEF DiscardIfStopped, DiscardLateResult
          <5>2. file'[t] = file[t]
            BY <1>0, <4>1, <5>1 DEF ArtifactsTypeOK
          <5> QED
            BY <2>1, <4>1, <5>1, <5>2
        <4>3. CASE Copies(b) \/ Indexes(b) \/ Announces(b)
          <5>1. /\ outputs \subseteq outputs' /\ outputs' \subseteq outputs \cup {b}
                /\ file' = file \/ file' = [file EXCEPT ![atts[b].task] = b]
            BY <4>3 DEF Copies, Indexes, Announces
          <5>2. file'[t] = file[t]
            BY <1>0, <4>1, <5>1 DEF ArtifactsTypeOK
          <5> QED
            BY <2>1, <4>1, <5>1, <5>2
        <4>4. CASE UNCHANGED <<outputs, file>>
          BY <2>1, <4>4
        <4> QED
          BY <3>2, <4>2, <4>3, <4>4, OutputKinds DEF LeavesOutputs
      <3> QED
        BY <3>1, <3>2 DEF Next, Outside
    <2> QED
      BY <1>a, <1>b, <2>1, <2>2, <2>3
  <1> QED
    BY <1>1, <1>2

\* The inductive invariant of a run that one controller at a time drains, on the plan it began with.
OneInv ==
    /\ IInv /\ draft = NoDraft
    /\ JobsAwaited /\ RowsInv /\ PromotionSees /\ PromotedIsThere /\ OutputsLatest

LEMMA OneInvInit == Init => OneInv
  <1> SUFFICES ASSUME Init PROVE OneInv
    OBVIOUS
  <1>1. IInv /\ draft = NoDraft
    BY InvInit DEF Init
  <1>2. \A a \in Attempts : job[a].pc = "none" /\ atts[a].status = "none"
    BY DEF Init, StoreInit
  <1>3. \A t \in Tasks : tasks[t].state # "succeeded" /\ ~ tasks[t].asked
    BY DEF Init, StoreInit, FreshState
  <1>4. \A c \in Controllers : pc[c] = "idle"
    BY DEF Init
  <1> QED
    BY <1>1, <1>2, <1>3, <1>4 DEF OneInv, JobsAwaited, RowsInv, UsedInOrder, LiveIsLatest, JobsOwn, AskerIsLatest,
                                  PromotionSees, PromotedIsThere, OutputsLatest, Active, Placed

LEMMA OneInvStep ==
  ASSUME \A c, d \in Controllers : c = d, Revisions = {}, OneInv, [Next]_vars
  PROVE  OneInv'
  <1>0. TypeOK /\ IInv' /\ draft' = NoDraft /\ ~ ReviseWrite
    BY InvStep, NoDraftStep DEF OneInv, IInv
  <1>1. CASE Next
    <2>1. JobsAwaited' /\ RowsInv' /\ PromotionSees'
      BY <1>0, <1>1, AwaitedStep, RowsStep, PromotionStep DEF OneInv
    <2>2. PromotedIsThere' /\ OutputsLatest'
      BY <1>1, <2>1, PromotedThereStep, OutputsStep DEF OneInv
    <2> QED
      BY <1>0, <2>1, <2>2 DEF OneInv
  <1>2. CASE UNCHANGED vars
    <2>1. UNCHANGED <<pc, rows, claimed, tasks, atts, outputs, file, job>>
      BY <1>2 DEF vars, control, store, ledger, artifacts
    <2>2. JobsAwaited' /\ RowsInv'
      BY <2>1 DEF OneInv, JobsAwaited, RowsInv, UsedInOrder, LiveIsLatest, Latest, JobsOwn, AskerIsLatest, Running
    <2>3. PromotionSees' /\ PromotedIsThere' /\ OutputsLatest'
      BY <2>1 DEF OneInv, PromotionSees, PromotedIsThere, OutputsLatest, Running, PendingInput, InState
    <2> QED
      BY <1>0, <2>2, <2>3 DEF OneInv
  <1> QED
    BY <1>1, <1>2

\* The last of a set of attempts.
LEMMA LastAttempt ==
  ASSUME NEW S \in SUBSET Attempts, NEW a \in S, \A b \in S : b <= a
  PROVE  Max(S) = a
  <1>1. \A b \in S : b \in Int
    BY DEF Attempts
  <1>2. \A m \in S : (\A b \in S : m >= b) => m = a
    BY <1>1
  <1>3. \A b \in S : a >= b
    BY <1>1
  <1> QED
    BY <1>2, <1>3 DEF Max

LEMMA OneInvAgrees == OneInv => RowsAgree /\ OutputsDeliverable
  <1> SUFFICES ASSUME OneInv PROVE RowsAgree /\ OutputsDeliverable
    OBVIOUS
  <1>1. OneLiveAttempt
    <2> SUFFICES ASSUME NEW a \in Attempts, atts[a].status = "running"
                 PROVE  /\ Running(atts[a].task)
                        /\ \A b \in AttemptsOf(atts[a].task) : atts[b].status = "running" => b = a
      BY DEF OneLiveAttempt
    <2>1. Running(atts[a].task) /\ Latest(a)
      BY DEF OneInv, RowsInv, LiveIsLatest
    <2>2. ASSUME NEW b \in Attempts, atts[b].task = atts[a].task, atts[b].status = "running" PROVE b = a
      <3>1. b <= a /\ a <= b
        BY <2>1, <2>2 DEF OneInv, RowsInv, LiveIsLatest, Latest
      <3> QED
        BY <3>1 DEF Attempts
    <2> QED
      BY <2>1, <2>2 DEF AttemptsOf
  <1>2. QuestionIsLive
    <2> SUFFICES ASSUME NEW t \in PendingInput PROVE atts[Max(AttemptsOf(t))].status = "awaiting_input"
      BY DEF QuestionIsLive
    <2>1. t \in Tasks /\ tasks[t].state = "waiting" /\ tasks[t].asked
      BY DEF PendingInput, InState
    <2>2. PICK a \in Attempts : atts[a].task = t /\ atts[a].status = "awaiting_input" /\ Latest(a)
      BY <2>1 DEF OneInv, RowsInv, AskerIsLatest
    <2>3. a \in AttemptsOf(t) /\ AttemptsOf(t) \in SUBSET Attempts /\ \A b \in AttemptsOf(t) : b <= a
      BY <2>2 DEF AttemptsOf, Latest
    <2> QED
      BY <2>2, <2>3, LastAttempt
  <1>3. OutputsDeliverable
    <2> SUFFICES ASSUME NEW t \in Tasks, tasks[t].state = "succeeded"
                 PROVE  /\ outputs \cap AttemptsOf(t) # {}
                        /\ file[t] = Max(outputs \cap AttemptsOf(t))
      BY DEF OutputsDeliverable, InState
    <2> DEFINE written == outputs \cap AttemptsOf(t)
    <2>1. PICK a \in outputs : /\ atts[a].task = t /\ atts[a].status # "none" /\ file[t] = a
                              /\ \A b \in outputs : atts[b].status # "none" /\ atts[b].task = t => b <= a
      BY DEF OneInv, OutputsLatest
    <2>2. a \in written /\ written \in SUBSET Attempts /\ \A b \in written : b <= a
      BY <2>1, TypeParts DEF OneInv, IInv, ArtifactsTypeOK, AttemptsOf
    <2>3. Max(written) = a
      BY <2>2, LastAttempt
    <2> QED
      BY <2>1, <2>2, <2>3
  <1> QED
    BY <1>1, <1>2, <1>3 DEF RowsAgree, OneInv, IInv

\* While one controller at a time drains a run, through any number of failures, questions, retries, crashes
\* and recoveries: a running task has exactly one live attempt and no live attempt outlives its task, and a
\* question waits only while the attempt that asked it is the latest of its task.
THEOREM LedgerRowsAgree ==
  ASSUME \A c, d \in Controllers : c = d, Revisions = {}
  PROVE  Spec => []RowsAgree
  <1>1. OneInv /\ [Next]_vars => OneInv'
    BY OneInvStep
  <1> QED
    BY <1>1, OneInvInit, OneInvAgrees, PTL DEF Spec

\* Under the same conditions deliver finds what it compares: the file at the output path of a succeeded task
\* was written by the latest attempt with an indexed output.
THEOREM OutputsAreDeliverable ==
  ASSUME \A c, d \in Controllers : c = d, Revisions = {}
  PROVE  Spec => []OutputsDeliverable
  <1>1. OneInv /\ [Next]_vars => OneInv'
    BY OneInvStep
  <1> QED
    BY <1>1, OneInvInit, OneInvAgrees, PTL DEF Spec

\* And no promotion, retry or recovery releases a task that waits for its owner's answer.
THEOREM OnlyAnswersRelease ==
  ASSUME \A c, d \in Controllers : c = d, Revisions = {}
  PROVE  Spec => OnlyAnswerReleases
  <1>1. OneInv /\ [Next]_vars => OneInv'
    BY OneInvStep
  <1>2. OneInv /\ [Next]_vars => [(\E t \in PendingInput : tasks'[t].state = "ready") => Answer]_vars
    BY ReleaseStep, NoDraftStep DEF OneInv, IInv
  <1> QED
    BY <1>1, <1>2, OneInvInit, PTL DEF Spec, OnlyAnswerReleases

-----------------------------------------------------------------------------
(* The contract of a run.                                                      *)

\* The plan is the one the run began with.
PlanHolds ==
    /\ \A t \in Tasks :
         IF t \in DOMAIN FirstPlan
           THEN tasks[t].deps = FirstPlan[t] /\ tasks[t].state \notin {"absent", "superseded"}
           ELSE tasks[t].state = "absent"
    /\ \A c \in Controllers : rows[c].running \subseteq DOMAIN FirstPlan

\* What a task depends on was done before the task could be claimed, and still is.
DepsDone(t) == \A d \in tasks[t].deps : tasks[d].state = "succeeded"
DoneFirst ==
    /\ \A t \in Tasks : Started(t) => DepsDone(t)
    /\ \A c \in Controllers : \A t \in rows[c].ready \cup rows[c].running : DepsDone(t)

\* Nobody works on a run that is closed.
ClosedIsQuiet == run.status \in Terminal => \A c \in Controllers : pc[c] = "idle"

ContractInv ==
    IInv /\ draft = NoDraft /\ JobsAwaited /\ RecoverySees /\ PlanHolds /\ DoneFirst /\ ClosedIsQuiet

\* No step adds a task or takes one out of the plan, but a revision.
LEMMA TasksStay ==
  ASSUME TypeOK, PlanHolds, Next, ~ ReviseWrite, NEW t \in Tasks
  PROVE  /\ tasks'[t].state = "absent" <=> tasks[t].state = "absent"
         /\ tasks'[t].state = "superseded" => tasks[t].state = "superseded"
  <1>0. LedgerTypeOK
    BY TypeParts
  <1> DEFINE Goal == /\ tasks'[t].state = "absent" <=> tasks[t].state = "absent"
                     /\ tasks'[t].state = "superseded" => tasks[t].state = "superseded"
  <1>1. CASE Quiet
    BY <1>1 DEF Quiet
  <1>2. CASE EndsRun
    BY <1>0, <1>2, EndEffect
  <1>3. CASE Answer
    BY <1>0, <1>3, AnswerEffect, PendingRows DEF Answer
  <1>4. ASSUME NEW c \in Controllers, Promotes(c) PROVE Goal
    BY <1>0, <1>4, PromoteEffect DEF Promotes
  <1>5. ASSUME NEW c \in Controllers, Recovers(c) PROVE Goal
    BY <1>0, <1>5, RecoverEffect DEF Recovers, PlanHolds
  <1>6. ASSUME NEW c \in Controllers, NEW a \in Attempts, ClaimsFor(c, a) PROVE Goal
    BY <1>0, <1>6, ClaimEffect DEF ClaimsFor
  <1>7. ASSUME NEW a \in Attempts, JobEnds(a) PROVE Goal
    BY <1>0, <1>7, SettleEffect DEF JobEnds, SettledAs, Running
  <1> QED
    BY <1>1, <1>2, <1>3, <1>4, <1>5, <1>6, <1>7, StepKinds

LEMMA PlanStep ==
  ASSUME TypeOK, PlanHolds, Next, ~ ReviseWrite
  PROVE  PlanHolds'
  <1>0. ControlTypeOK
    BY TypeParts
  <1>1. ASSUME NEW c \in Controllers PROVE rows'[c].running \subseteq DOMAIN FirstPlan
    <2>1. CASE ResumeStart(c)
      BY <1>0, <2>1, RecoveryReads DEF InState, PlanHolds
    <2>2. CASE NextTaskRead(c)
      BY <1>0, <2>2 DEF NextTaskRead, ControlTypeOK, NoRows
    <2>3. CASE rows'[c] \in {rows[c], NoRows}
      BY <2>3 DEF PlanHolds, NoRows
    <2> QED
      BY <2>1, <2>2, <2>3, CursorKinds
  <1> QED
    BY <1>1, TasksStay, DepsKept DEF PlanHolds

\* Without a revision a completed task stays completed.
LEMMA DoneStays ==
  ASSUME TypeOK, draft = NoDraft, RecoverySees, Next, NEW t \in Tasks, tasks[t].state = "succeeded"
  PROVE  tasks'[t].state = "succeeded"
  BY CompletedStep

LEMMA DoneFirstStep ==
  ASSUME IInv, draft = NoDraft, RecoverySees, DoneFirst, Next, ~ ReviseWrite
  PROVE  DoneFirst'
  <1>0. TypeOK /\ LedgerTypeOK /\ ControlTypeOK
    BY TypeParts DEF IInv
  <1>1. ASSUME NEW t \in Tasks, DepsDone(t) PROVE DepsDone(t)'
    <2>1. tasks'[t].deps = tasks[t].deps /\ tasks[t].deps \subseteq Tasks
      BY <1>0, DepsKept DEF LedgerTypeOK, TaskRow
    <2> QED
      BY <1>0, <1>1, <2>1, DoneStays DEF DepsDone
  <1>2. ASSUME NEW t \in Tasks, Started(t)' PROVE DepsDone(t)'
    BY <1>1, <1>2, StartsWhatWasRead DEF DoneFirst
  <1>3. ASSUME NEW c \in Controllers, NEW t \in rows'[c].ready \cup rows'[c].running
        PROVE  DepsDone(t)'
    <2>a. t \in Tasks
      BY TypeStep, TypePartsNext, <1>0, <1>3 DEF ControlTypeOK, ReadRow
    <2>1. CASE t \in rows[c].ready \cup rows[c].running
      BY <1>1, <2>1, <2>a DEF DoneFirst
    <2>2. CASE ResumeStart(c)
      <3>1. rows'[c].running = InState({"running"}) /\ rows'[c].ready = {}
        BY <1>0, <2>2 DEF ResumeStart, ControlTypeOK, ReadRow, NoRows
      <3>2. Started(t)
        BY <1>3, <3>1 DEF Started, InState
      <3> QED
        BY <1>1, <2>a, <3>2 DEF DoneFirst
    <2>3. CASE NextTaskRead(c)
      <3>1. rows'[c].ready = ReadyRows /\ rows'[c].running = {}
        BY <1>0, <2>3 DEF NextTaskRead, ControlTypeOK, ReadRow, NoRows
      <3>2. DepsDone(t)
        BY <1>3, <3>1 DEF ReadyRows, DepsDone
      <3> QED
        BY <1>1, <2>a, <3>2
    <2>4. CASE rows'[c] \in {rows[c], NoRows}
      BY <1>3, <2>1, <2>4 DEF NoRows
    <2> QED
      BY <1>0, <2>1, <2>2, <2>3, <2>4, CursorKinds
  <1> QED
    BY <1>2, <1>3 DEF DoneFirst

\* While no budget is spent and nobody cancels, settle_run alone closes a run.
LEMMA OnlySettleCloses ==
  ASSUME TypeOK, Next, ~ ReviseWrite, ~ Cancel, run'.exceeded = {}
  PROVE  \/ run'.status = run.status
         \/ run'.status \notin Terminal
         \/ \E c \in Controllers : Settle(c)
  <1>0. LedgerTypeOK
    BY TypeParts
  <1> DEFINE Open == run'.status = run.status \/ run'.status \notin Terminal
  <1>a. \A t, a, b : FinishTask(t, a, b) \/ RetryTask(t, a) => run' = run
    BY DEF FinishTask, RetryTask
  <1>b. \A t, a : AwaitInput(t, a) => Open
    BY <1>0 DEF AwaitInput, LedgerTypeOK, RunRow, Terminal
  <1>c. \A limit : FailBudget(limit) => run' = run
    <2> SUFFICES ASSUME NEW limit, FailBudget(limit), ~ BudgetIgnored(limit) PROVE FALSE
      BY DEF FailBudget, ledger
    <2>1. run'.exceeded = run.exceeded \cup {limit}
      BY <1>0 DEF FailBudget, LedgerTypeOK, RunRow
    <2> QED
      BY <2>1
  <1>1. ASSUME NEW a \in Attempts, JobStep(a) PROVE Open
    <2>1. JobOutcome(a)
      BY <1>1, JobOutcomes
    <2> QED
      BY <1>a, <1>b, <1>c, <2>1 DEF JobOutcome, JobMovesOn, JobSettles, JobCompletes, JobExceeds, ledger
  <1>2. ASSUME NEW c \in Controllers, ResumeStart(c) \/ MainStep(c), ~ Settle(c) PROVE Open
    <2>1. CASE Claim(c)
      BY <1>0, <2>1 DEF Claim, ClaimTask, ledger, LedgerTypeOK, RunRow, Terminal
    <2>2. CASE RecordTaskFailure(c)
      BY <1>a, <2>2 DEF RecordTaskFailure, ledger
    <2>3. CASE CheckBudget(c)
      BY <1>c, <2>3 DEF CheckBudget, ledger
    <2>4. CASE Recover(c)
      BY <2>4 DEF Recover, RecoverRunning
    <2>5. CASE ResumeStart(c) \/ NextTaskRead(c) \/ NextTaskWrite(c) \/ WaitRound(c) \/ Drain(c)
      BY <2>5 DEF ResumeStart, NextTaskRead, NextTaskWrite, WaitRound, Drain, store, ledger
    <2> QED
      BY <1>2, <2>1, <2>2, <2>3, <2>4, <2>5 DEF MainStep
  <1>3. CASE Answer
    BY <1>0, <1>3 DEF Answer, AnswerInput, LedgerTypeOK, RunRow, Terminal
  <1>4. ASSUME NEW c \in Controllers, DeadlinePasses(c) \/ Crash(c) PROVE Open
    BY <1>4 DEF DeadlinePasses, Crash, store, ledger
  <1>5. CASE ReviseRead
    BY <1>5 DEF ReviseRead, store, ledger
  <1> QED
    BY <1>1, <1>2, <1>3, <1>4, <1>5 DEF Next

\* A closed run is not worked on.
LEMMA ClosedStep ==
  ASSUME TypeOK, JobsAwaited, ClosedIsQuiet, run.status \in Terminal, Next, ~ ReviseWrite, ~ Cancel
  PROVE  UNCHANGED pc /\ run'.status = run.status
         /\ \A t \in Tasks : tasks'[t].state = "succeeded" <=> tasks[t].state = "succeeded"
  <1>0. LedgerTypeOK /\ \A c \in Controllers : pc[c] = "idle"
    BY TypeParts DEF ClosedIsQuiet
  <1>1. ASSUME NEW a \in Attempts, JobStep(a) PROVE FALSE
    BY <1>0, <1>1, JobOutcomes DEF JobsAwaited
  <1>2. ASSUME NEW c \in Controllers, ResumeStart(c) \/ MainStep(c) \/ DeadlinePasses(c) \/ Crash(c) PROVE FALSE
    BY <1>0, <1>2 DEF ResumeStart, MainStep, DeadlinePasses, Crash, Recover, NextTaskRead, NextTaskWrite,
                      CheckBudget, Claim, RecordTaskFailure, WaitRound, Drain, Settle
  <1>3. CASE Answer
    <2>1. UNCHANGED pc /\ run' = [run EXCEPT !.status = IF @ = "awaiting_input" THEN "pending" ELSE @]
      BY <1>3 DEF Answer, AnswerInput, control
    <2>2. run'.status = run.status
      BY <1>0, <2>1 DEF LedgerTypeOK, RunRow, Terminal
    <2>3. \A t \in Tasks : tasks'[t].state = "succeeded" <=> tasks[t].state = "succeeded"
      BY <1>0, <1>3, AnswerEffect, PendingRows DEF Answer
    <2> QED
      BY <2>1, <2>2, <2>3
  <1>4. CASE ReviseRead
    BY <1>4 DEF ReviseRead, store, ledger, control
  <1> QED
    BY <1>1, <1>2, <1>3, <1>4 DEF Next

LEMMA ContractInvStep ==
  ASSUME \A c, d \in Controllers : c = d, Revisions = {}, "cancel" \notin Environment,
         ContractInv, run'.exceeded = {}, Next
  PROVE  ContractInv'
  <1>0. TypeOK /\ IInv' /\ draft' = NoDraft /\ ~ ReviseWrite /\ ~ Cancel
    BY InvStep, NoDraftStep DEF ContractInv, IInv, Cancel
  <1>1. JobsAwaited' /\ RecoverySees' /\ PlanHolds' /\ DoneFirst'
    BY <1>0, AwaitedStep, RecoveryStep, PlanStep, DoneFirstStep DEF ContractInv
  <1>2. ClosedIsQuiet'
    <2> SUFFICES ASSUME run'.status \in Terminal, NEW c \in Controllers PROVE pc'[c] = "idle"
      BY DEF ClosedIsQuiet
    <2>1. CASE run.status \in Terminal
      BY <1>0, <2>1, ClosedStep DEF ContractInv, ClosedIsQuiet
    <2>2. CASE run.status \notin Terminal
      <3>1. Settle(c)
        BY <1>0, <2>2, OnlySettleCloses
      <3> QED
        BY <1>0, <3>1, TypeParts DEF Settle, Goto, ControlTypeOK
    <2> QED
      BY <2>1, <2>2
  <1> QED
    BY <1>0, <1>1, <1>2 DEF ContractInv

\* A run is settled as succeeded only when every task of its plan is done.
LEMMA SettledAsDone ==
  ASSUME TypeOK, PlanHolds, NEW c \in Controllers, Settle(c), run.status # "succeeded", run'.status = "succeeded"
  PROVE  InState({"succeeded"}) = DOMAIN FirstPlan
  <1>0. LedgerTypeOK
    BY TypeParts
  <1>1. DerivedStatus = "succeeded"
    BY <1>0 DEF Settle, SettleRun, LedgerTypeOK, RunRow
  <1>2. {tasks[t].state : t \in Present} \subseteq {"succeeded", "superseded"}
    BY <1>1 DEF DerivedStatus
  <1>3. \A t \in Tasks : t \in Present <=> t \in DOMAIN FirstPlan
    BY DEF Present, PlanHolds
  <1>4. \A t \in DOMAIN FirstPlan : t \in Tasks /\ tasks[t].state = "succeeded"
    BY <1>2, <1>3, StoreAssumption DEF PlanHolds
  <1>5. \A t \in Tasks : tasks[t].state = "succeeded" => t \in DOMAIN FirstPlan
    BY DEF PlanHolds
  <1> QED
    BY <1>4, <1>5 DEF InState

LEMMA ContractStep ==
  ASSUME \A c, d \in Controllers : c = d, Revisions = {}, "cancel" \notin Environment,
         ContractInv, run'.exceeded = {}, Next
  PROVE  Promise!ContractNext
         \/ UNCHANGED <<InState({"succeeded"}), IF run.status \in Terminal THEN run.status ELSE "open">>
  <1> DEFINE done == InState({"succeeded"})
             verdict == IF run.status \in Terminal THEN run.status ELSE "open"
  <1>0. TypeOK /\ LedgerTypeOK /\ ~ ReviseWrite /\ ~ Cancel
    BY NoDraftStep, TypeParts DEF ContractInv, IInv, Cancel
  <1>a. \A t \in done : t \in done'
    BY <1>0, DoneStays DEF ContractInv, InState
  <1>1. CASE run.status \in Terminal
    BY <1>0, <1>1, ClosedStep DEF ContractInv, InState
  <1>2. ASSUME run.status \notin Terminal, NEW t \in done', t \notin done
        PROVE  Promise!CompleteTask(t) /\ t \in DOMAIN FirstPlan
    <2>0. t \in Tasks /\ tasks'[t].state = "succeeded" /\ tasks[t].state # "succeeded"
      BY <1>2 DEF InState
    <2>1. PICK a \in Attempts : JobEnds(a) /\ atts[a].task = t
      BY <1>0, <2>0, SucceedsByJob
    <2>2. tasks[t].state = "running" /\ \A u \in Tasks : u # t => tasks'[u].state = tasks[u].state
      BY <1>0, <2>1, SettleEffect DEF JobEnds, SettledAs, Running
    <2>3. done' = done \cup {t}
      BY <2>0, <2>2, <1>a DEF InState
    <2>4. verdict = "open" /\ verdict' = "open"
      BY <1>0, <1>2, <2>0, OnlySettleCloses DEF Settle, SettleRun
    <2>5. t \in DOMAIN FirstPlan /\ tasks[t].deps = FirstPlan[t]
      BY <2>0, <2>2 DEF ContractInv, PlanHolds
    <2>6. FirstPlan[t] \subseteq done
      <3>1. Started(t)
        BY <2>2 DEF Started
      <3>2. FirstPlan[t] \subseteq Tasks
        BY <2>5, StoreAssumption
      <3> QED
        BY <2>0, <2>5, <3>1, <3>2 DEF ContractInv, DoneFirst, DepsDone, InState
    <2> QED
      BY <1>2, <2>3, <2>4, <2>5, <2>6 DEF Promise!CompleteTask
  <1>3. ASSUME run.status \notin Terminal, done' = done, run'.status \in Terminal
        PROVE  Promise!Close(run'.status) /\ run'.status \in {"succeeded", "failed", "cancelled"}
    <2>1. PICK c \in Controllers : Settle(c)
      BY <1>0, <1>3, OnlySettleCloses
    <2>2. run'.status = "succeeded" => done = DOMAIN FirstPlan
      BY <1>0, <1>3, <2>1, SettledAsDone DEF Terminal, ContractInv
    <2> QED
      BY <1>3, <2>2 DEF Promise!Close, Terminal
  <1>4. CASE run.status \notin Terminal /\ done' = done /\ run'.status \notin Terminal
    BY <1>4
  <1>5. done' = done \/ \E t \in done' : t \notin done
    BY <1>a
  <1> HIDE DEF done, verdict
  <1> QED
    BY <1>1, <1>2, <1>3, <1>4, <1>5 DEF Promise!ContractNext, Promise!Verdicts

\* The ledger keeps the promise of RunContract: while one controller at a time drains a run that nobody cancels
\* and no budget stops, its tasks complete once and in dependency order, only while the run is open, and the run
\* closes once, as succeeded only with every task done; crashes, recoveries, questions and retries included.
THEOREM RunKeepsContract ==
  ASSUME \A c, d \in Controllers : c = d, Revisions = {}, "cancel" \notin Environment
  PROVE  Spec /\ [](run.exceeded = {}) => KeepsContract
  <1> DEFINE Within == run.exceeded = {}
  <1>1. Init => ContractInv
    <2> SUFFICES ASSUME Init PROVE ContractInv
      OBVIOUS
    <2>1. IInv /\ draft = NoDraft /\ JobsAwaited /\ RecoverySees /\ ClosedIsQuiet
      BY InvInit DEF Init, StoreInit, JobsAwaited, RecoverySees, ClosedIsQuiet, Active
    <2>2. \A c \in Controllers : rows[c].ready = {} /\ rows[c].running = {}
      BY DEF Init, NoRows
    <2>3. \A t \in Tasks :
            IF t \in DOMAIN FirstPlan
              THEN tasks[t].deps = FirstPlan[t] /\ tasks[t].state \notin {"absent", "superseded"}
              ELSE tasks[t].state = "absent"
      BY DEF Init, StoreInit, FreshState
    <2>4. ASSUME NEW t \in Tasks, Started(t) PROVE DepsDone(t)
      <3>1. tasks[t].deps = {}
        BY <2>4 DEF Init, StoreInit, Started, PendingInput, InState, AttemptsOf, FreshState
      <3> QED
        BY <3>1 DEF DepsDone
    <2> QED
      BY <2>1, <2>2, <2>3, <2>4 DEF ContractInv, PlanHolds, DoneFirst
  <1>2. ContractInv /\ Within' /\ [Next]_vars => ContractInv'
    <2>1. ContractInv /\ UNCHANGED vars => ContractInv'
      <3> SUFFICES ASSUME ContractInv, UNCHANGED vars PROVE ContractInv'
        OBVIOUS
      <3>1. UNCHANGED <<run, tasks, atts, pc, rows, claimed, job, draft>>
        BY DEF vars, store, ledger, control
      <3>2. IInv' /\ draft' = NoDraft
        BY <3>1, InvStep DEF ContractInv
      <3>3. JobsAwaited' /\ RecoverySees' /\ PlanHolds' /\ ClosedIsQuiet'
        BY <3>1 DEF ContractInv, JobsAwaited, RecoverySees, PlanHolds, ClosedIsQuiet
      <3>4. DoneFirst'
        BY <3>1 DEF ContractInv, DoneFirst, DepsDone, Started, PendingInput, InState, AttemptsOf
      <3> QED
        BY <3>2, <3>3, <3>4 DEF ContractInv
    <2> QED
      BY <2>1, ContractInvStep
  <1>3. Init => Promise!ContractInit
    BY DEF Init, StoreInit, Promise!ContractInit, InState, FreshState, Terminal
  <1>4. ContractInv /\ Within' /\ [Next]_vars =>
          [Promise!ContractNext]_<<InState({"succeeded"}), IF run.status \in Terminal THEN run.status ELSE "open">>
    <2>1. UNCHANGED vars =>
            UNCHANGED <<InState({"succeeded"}), IF run.status \in Terminal THEN run.status ELSE "open">>
      BY DEF vars, store, ledger, InState
    <2> QED
      BY <2>1, ContractStep
  <1> HIDE DEF Within
  <1>5. Spec /\ []Within => KeepsContract
    BY <1>1, <1>2, <1>3, <1>4, PTL DEF Spec, KeepsContract, Promise!Contract
  <1> QED
    BY <1>5 DEF Within

-----------------------------------------------------------------------------
(* The attempts budget.                                                        *)

\* The budget was open when the controller went on to claim, and still is.
BudgetOpen ==
    /\ IsFiniteSet(ClaimsMade)
    /\ TotalAttempts <= MaxAttempts
    /\ \A c \in Controllers : pc[c] = "claim" => TotalAttempts < MaxAttempts

NoneClaimed == \A t \in Tasks : tasks'[t].attempts <= tasks[t].attempts

\* The rows of the attempts column that a step writes.
LEMMA OnlyClaimsCount ==
  ASSUME TypeOK, Next
  PROVE  NoneClaimed \/ \E c \in Controllers, a \in Attempts : ClaimsFor(c, a)
  <1>0. LedgerTypeOK
    BY TypeParts
  <1>t. \A t \in Tasks : tasks[t] \in TaskRow /\ tasks[t].attempts \in Nat /\ tasks[t].attempts <= tasks[t].attempts
    BY <1>0 DEF LedgerTypeOK, TaskRow
  <1>1. CASE Quiet
    BY <1>t, <1>1 DEF Quiet, NoneClaimed
  <1>2. CASE EndsRun
    <2>1. CASE CancelRun
      BY <1>0, <1>t, <2>1 DEF CancelRun, LedgerTypeOK, TaskRow, NoneClaimed
    <2>2. ASSUME NEW limit, FailBudget(limit), ~ BudgetIgnored(limit) PROVE NoneClaimed
      <3>1. tasks' = [t \in Tasks |-> [tasks[t] EXCEPT !.state = BudgetFailed(t, limit)]]
        BY <2>2 DEF FailBudget
      <3> QED
        BY <1>0, <1>t, <3>1 DEF LedgerTypeOK, TaskRow, NoneClaimed
    <2> QED
      BY <1>2, <2>1, <2>2 DEF EndsRun
  <1>3. CASE Answer
    BY <1>0, <1>t, <1>3 DEF Answer, AnswerInput, LedgerTypeOK, TaskRow, NoneClaimed
  <1>4. CASE ReviseWrite
    <2> SUFFICES ASSUME NEW t \in Tasks PROVE tasks'[t].attempts <= tasks[t].attempts
      BY DEF NoneClaimed
    <2>1. tasks' = Revised(draft.existing, draft.plan)
      BY <1>4 DEF ReviseWrite, CommitPlanRevision
    <2>2. \/ tasks'[t] = tasks[t]
          \/ tasks'[t] = [tasks[t] EXCEPT !.state = "superseded"]
          \/ \E deps : tasks'[t] = [tasks[t] EXCEPT !.state = FreshState(deps), !.deps = deps, !.attempts = 0]
      BY <2>1, Zenon DEF Revised
    <2>3. ASSUME NEW deps, tasks'[t] = [tasks[t] EXCEPT !.state = FreshState(deps), !.deps = deps, !.attempts = 0]
          PROVE  tasks'[t].attempts = 0
      <3> DEFINE s == FreshState(deps)
      <3>1. tasks'[t] = [tasks[t] EXCEPT !.state = s, !.deps = deps, !.attempts = 0]
        BY <2>3
      <3> HIDE DEF s
      <3> QED
        BY <1>t, <3>1 DEF TaskRow
    <2>4. CASE tasks'[t] = tasks[t] \/ tasks'[t] = [tasks[t] EXCEPT !.state = "superseded"]
      BY <1>t, <2>4 DEF TaskRow
    <2>5. tasks[t].attempts \in Nat /\ (tasks'[t].attempts = 0 => tasks'[t].attempts <= tasks[t].attempts)
      BY <1>t
    <2> QED
      BY <2>2, <2>3, <2>4, <2>5, Zenon
  <1>5. ASSUME NEW c \in Controllers, Promotes(c) PROVE NoneClaimed
    <2> SUFFICES ASSUME NEW t \in Tasks PROVE tasks'[t].attempts <= tasks[t].attempts
      BY DEF NoneClaimed
    <2>1. tasks'[t] \in {tasks[t], [tasks[t] EXCEPT !.state = "blocked"], [tasks[t] EXCEPT !.state = "ready"]}
      BY <1>5 DEF Promotes, PromoteRows
    <2> QED
      BY <1>t, <2>1 DEF TaskRow
  <1>6. ASSUME NEW c \in Controllers, Recovers(c) PROVE NoneClaimed
    BY <1>0, <1>t, <1>6 DEF Recovers, RecoverRunning, LedgerTypeOK, TaskRow, NoneClaimed
  <1>7. ASSUME NEW a \in Attempts, JobEnds(a) PROVE NoneClaimed
    BY <1>0, <1>t, <1>7 DEF JobEnds, Settles, RetryTask, FinishTask, AwaitInput, LedgerTypeOK, TaskRow, NoneClaimed
  <1> QED
    BY <1>1, <1>2, <1>3, <1>4, <1>5, <1>6, <1>7, StepKinds

\* Without a claim the count does not grow.
LEMMA CountShrinks ==
  ASSUME TypeOK, TypeOK', IsFiniteSet(ClaimsMade), NoneClaimed
  PROVE  IsFiniteSet(ClaimsMade)' /\ TotalAttempts' <= TotalAttempts
  <1>1. \A t \in Tasks : tasks[t].attempts \in Nat /\ tasks'[t].attempts \in Nat
    BY DEF TypeOK, StoreTypeOK, TaskRow
  <1>2. ClaimsMade' \in SUBSET ClaimsMade
    <2> SUFFICES ASSUME NEW t \in Tasks, NEW i \in 1 .. tasks'[t].attempts
                 PROVE  i \in 1 .. tasks[t].attempts
      BY DEF ClaimsMade
    <2> QED
      BY <1>1 DEF NoneClaimed
  <1> QED
    BY <1>2, FS_Subset DEF TotalAttempts

\* A claim counts for one.
LEMMA ClaimCounts ==
  ASSUME TypeOK, IsFiniteSet(ClaimsMade), NEW t \in Tasks, NEW a, ClaimTask(t, a, FALSE)
  PROVE  IsFiniteSet(ClaimsMade)' /\ TotalAttempts' = TotalAttempts + 1
  <1> DEFINE n == tasks[t].attempts + 1
  <1>0. tasks \in [Tasks -> TaskRow]
    BY DEF TypeOK, StoreTypeOK
  <1>1. tasks[t].attempts \in Nat /\ n \in Nat
    BY <1>0 DEF TaskRow
  <1>2. \A u \in Tasks : tasks'[u].attempts = IF u = t THEN n ELSE tasks[u].attempts
    BY <1>0 DEF ClaimTask, TaskRow
  <1>3. <<t, n>> \notin ClaimsMade
    BY <1>1 DEF ClaimsMade
  <1>4. ClaimsMade' = ClaimsMade \cup {<<t, n>>}
    <2>1. 1 .. n = (1 .. tasks[t].attempts) \cup {n}
      BY <1>1
    <2> HIDE DEF n
    <2>2. \A u \in Tasks : {u} \X (1 .. tasks'[u].attempts) =
                             IF u = t THEN ({t} \X (1 .. tasks[t].attempts)) \cup {<<t, n>>}
                                      ELSE {u} \X (1 .. tasks[u].attempts)
      BY <1>2, <2>1
    <2> QED
      BY <2>2 DEF ClaimsMade
  <1> HIDE DEF n
  <1>5. /\ IsFiniteSet(ClaimsMade \cup {<<t, n>>})
        /\ Cardinality(ClaimsMade \cup {<<t, n>>}) = Cardinality(ClaimsMade) + 1
    BY <1>3, FS_AddElement
  <1> QED
    BY <1>4, <1>5 DEF TotalAttempts

LEMMA BudgetInit == Init => BudgetOpen
  <1> SUFFICES ASSUME Init PROVE BudgetOpen
    OBVIOUS
  <1>1. \A t \in Tasks : tasks[t].attempts = 0
    BY DEF Init, StoreInit
  <1>2. ClaimsMade = {}
    BY <1>1 DEF ClaimsMade
  <1> QED
    BY <1>2, FS_EmptySet, SchedulerAssumption DEF BudgetOpen, TotalAttempts, Init

\* A controller reaches its claim only from the check it has just passed.
LEMMA ClaimAfterCheck ==
  ASSUME TypeOK, Next, NEW c \in Controllers, pc'[c] = "claim"
  PROVE  \/ pc[c] = "claim" /\ ~ \E a \in Attempts : ClaimsFor(c, a)
         \/ TotalAttempts < MaxAttempts /\ UNCHANGED ledger
  <1>0. ControlTypeOK
    BY TypeParts
  <1>1. ~ \E a \in Attempts : ClaimsFor(c, a)
    BY DEF ClaimsFor
  <1>2. CASE CheckBudget(c)
    BY <1>0, <1>2 DEF CheckBudget, Goto, ControlTypeOK
  <1>3. CASE Recover(c) \/ NextTaskRead(c) \/ NextTaskWrite(c) \/ Claim(c) \/ RecordTaskFailure(c) \/ WaitRound(c)
    BY <1>0, <1>1, <1>3 DEF Recover, NextTaskRead, NextTaskWrite, Claim, RecordTaskFailure, WaitRound, Goto, ControlTypeOK
  <1>4. CASE ResumeStart(c) \/ Drain(c) \/ Settle(c) \/ DeadlinePasses(c) \/ Crash(c)
    BY <1>0, <1>1, <1>4 DEF ResumeStart, Drain, Settle, DeadlinePasses, Crash, Goto, ControlTypeOK
  <1>5. ASSUME NEW d \in Controllers, ResumeStart(d) \/ MainStep(d) \/ DeadlinePasses(d) \/ Crash(d), d # c
        PROVE  pc'[c] = pc[c]
    BY <1>0, <1>5 DEF ResumeStart, MainStep, DeadlinePasses, Crash, Recover, NextTaskRead, NextTaskWrite,
                      CheckBudget, Claim, RecordTaskFailure, WaitRound, Drain, Settle, Goto, ControlTypeOK
  <1>6. ASSUME NEW a \in Attempts, JobStep(a) PROVE pc'[c] = pc[c]
    BY <1>6, JobKinds DEF control
  <1>7. CASE Cancel \/ Answer \/ ReviseRead \/ ReviseWrite
    BY <1>1, <1>7 DEF Cancel, Answer, ReviseRead, ReviseWrite, control
  <1> QED
    BY <1>1, <1>2, <1>3, <1>4, <1>5, <1>6, <1>7 DEF Next, MainStep

LEMMA BudgetStep ==
  ASSUME \A c, d \in Controllers : c = d, TypeOK, TypeOK', BudgetOpen, Next
  PROVE  BudgetOpen'
  <1>0. IsFiniteSet(ClaimsMade) /\ TotalAttempts \in Nat /\ MaxAttempts \in Nat
    BY FS_CardinalityType, SchedulerAssumption DEF BudgetOpen, TotalAttempts
  <1>1. ASSUME NEW c \in Controllers, NEW a \in Attempts, ClaimsFor(c, a) PROVE BudgetOpen'
    <2>1. IsFiniteSet(ClaimsMade)' /\ TotalAttempts' = TotalAttempts + 1 /\ TotalAttempts < MaxAttempts
      BY <1>0, <1>1, ClaimCounts DEF ClaimsFor, BudgetOpen
    <2>2. \A d \in Controllers : pc'[d] # "claim"
      BY <1>1 DEF ClaimsFor
    <2> QED
      BY <1>0, <2>1, <2>2 DEF BudgetOpen
  <1>2. CASE NoneClaimed
    <2>1. IsFiniteSet(ClaimsMade)' /\ TotalAttempts' <= TotalAttempts
      BY <1>0, <1>2, CountShrinks
    <2>2. TotalAttempts' \in Nat
      BY <2>1, FS_CardinalityType DEF TotalAttempts
    <2>3. \A c \in Controllers : pc'[c] = "claim" => TotalAttempts < MaxAttempts
      BY ClaimAfterCheck DEF BudgetOpen
    <2> QED
      BY <1>0, <2>1, <2>2, <2>3 DEF BudgetOpen
  <1> QED
    BY <1>1, <1>2, OnlyClaimsCount

\* While one controller at a time drains a run the attempts counted against max_attempts never exceed it,
\* whatever is retried, recovered, cancelled or revised: each claim follows a check that found room.
THEOREM AttemptsStayWithinBudget ==
  ASSUME \A c, d \in Controllers : c = d
  PROVE  Spec => []AttemptsWithinBudget
  <1>1. Init => TypeOK /\ BudgetOpen
    BY TypeInit, BudgetInit
  <1>2. TypeOK /\ BudgetOpen /\ [Next]_vars => (TypeOK /\ BudgetOpen)'
    <2> SUFFICES ASSUME TypeOK, BudgetOpen, [Next]_vars PROVE (TypeOK /\ BudgetOpen)'
      OBVIOUS
    <2>1. TypeOK'
      BY TypeStep
    <2>2. CASE UNCHANGED vars
      BY <2>1, <2>2 DEF vars, store, ledger, control, BudgetOpen, ClaimsMade, TotalAttempts
    <2> QED
      BY <2>1, <2>2, BudgetStep
  <1>3. BudgetOpen => AttemptsWithinBudget
    BY DEF BudgetOpen, AttemptsWithinBudget
  <1> QED
    BY <1>1, <1>2, <1>3, PTL DEF Spec
=============================================================================
