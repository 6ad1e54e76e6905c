--------------------------- MODULE WorkersProofs ---------------------------
(***************************************************************************)
(* Proofs about Workers for any worker tree, number of services, attempts,  *)
(* messages, thread slots, crashes and any set of outside events.           *)
(***************************************************************************)
EXTENDS Workers, FiniteSetTheorems, TLAPS

WorkerRow  == [phase : {"absent", "idle", "running"}, outcome : Outcomes, reason : Reasons]
AttemptRow == [worker : Workers, by : Services \cup {Nobody},
               status : {"none", "running", "finished"}, outcome : Outcomes]
ExecState  == [pc : ExecStates, result : Results \cup Reasons]
CallState  == [op : Ops, worker : Workers, ids : SUBSET Inputs, att : 0 .. NumAttempts]

-----------------------------------------------------------------------------
(* The parts of the inductive invariant.                                       *)

\* An attempt row that does not exist yet has left no trace anywhere.
UnusedIsBlank ==
    \A a \in Attempts :
       /\ att[a].status = "none" <=> att[a].by = Nobody
       /\ exec[a].pc = "none" => att[a].status = "none"
       /\ att[a].status = "none" =>
            /\ exec[a] = NoExec /\ envelope[a] = "none" /\ att[a].outcome = "none"
            /\ used[a] = {} /\ a \notin registered /\ a \notin alive

\* A call of _start that is between its two transactions has its own attempt, not submitted yet.
CallOwnsAttempt ==
    \A s \in Services : call[s].op = "submit" =>
       /\ call[s].att \in Attempts
       /\ att[call[s].att].by = s
       /\ exec[call[s].att].pc = "starting"

\* An attempt that is being reconciled belongs to a service that does not hold its lock.
ReconciledIsUnheld ==
    \A s \in Services : recon[s] # 0 =>
       att[recon[s]].by \in Services /\ ~ held[att[recon[s]].by]

\* What _execute carries to the persisted envelope, and what its handler carries to the settlement.
ResultFits ==
    \A a \in Attempts :
       /\ exec[a].pc \in {"returned", "collected", "persisted"}
             => exec[a].result \in {"succeeded", "failed", "cancelled"}
       /\ exec[a].pc \in {"failing", "failed"}
             => exec[a].result \in {"cancelled", "process_cleanup", "timeout", "runtime_error"}

Unpersisted == {"none", "starting", "queued", "entered", "run", "spawned", "observed", "serving",
                "returned", "collected", "failing"}

\* No envelope before the persisting transaction; then the envelope is the result that is settled.
EnvelopeFits ==
    \A a \in Attempts :
       /\ exec[a].pc \in Unpersisted => envelope[a] = "none"
       /\ exec[a].pc = "persisted" => envelope[a] = exec[a].result

\* Of a worker at most one attempt is running, and one is exactly while the worker is.
OneRunning ==
    /\ \A a \in Attempts : Live(a) => worker[att[a].worker].phase = "running"
    /\ \A w \in Workers : worker[w].phase = "running" =>
          \E a \in Attempts : Live(a) /\ att[a].worker = w
    /\ \A a, b \in Attempts : Live(a) /\ Live(b) /\ att[a].worker = att[b].worker => a = b

\* A message is in one queue or in one prompt.
InputsPlaced ==
    /\ \A w \in Workers : queue[w] \subseteq 1 .. sent
    /\ \A a \in Attempts : used[a] \subseteq 1 .. sent
    /\ \A i \in 1 .. sent : (\E w \in Workers : i \in queue[w]) \/ (\E a \in Attempts : i \in used[a])
    /\ \A w, v \in Workers : w # v => queue[w] \cap queue[v] = {}
    /\ \A a, b \in Attempts : a # b => used[a] \cap used[b] = {}
    /\ \A w \in Workers, a \in Attempts : queue[w] \cap used[a] = {}

\* Without failing adapters and shutdowns a thread reports "cancelled" only for an ended attempt.
CancelledHasEnded ==
    environment \cap {"fail", "close"} = {} =>
       /\ \A s \in Services : ~ closed[s]
       /\ \A a \in Attempts : exec[a].result = "cancelled" => ~ Live(a)

\* An attempt that is marked gets no further than the guard behind adapter.run.
MarkedIsCaught == \A a \in unclean : exec[a].pc \notin {"collected", "persisted"}

IInv ==
    /\ TypeOK
    /\ UnusedIsBlank
    /\ CallOwnsAttempt
    /\ ActiveHoldsLock
    /\ ReconciledIsUnheld
    /\ LostMeansAbandoned
    /\ ResultFits
    /\ EnvelopeFits
    /\ SuccessHasEnvelope
    /\ OneRunning
    /\ LiveProcessIsRegistered
    /\ MarkedIsCaught
    /\ InputsPlaced
    /\ CancelledHasEnded
    /\ CancelStopsTree

-----------------------------------------------------------------------------
(* Types.                                                                      *)

\* The bounds of the constants, as the proofs use them.
LEMMA Constants ==
  /\ NumWorkers \in Nat /\ NumAttempts \in Nat /\ NumInputs \in Nat
  /\ 1 \in Workers /\ 0 \in 0 .. NumAttempts /\ Attempts \subseteq 0 .. NumAttempts /\ 0 \notin Attempts
  /\ Nobody \notin Services
  /\ NoCall \in CallState /\ NoExec \in ExecState
  <1>1. NumWorkers \in Nat /\ NumAttempts \in Nat /\ NumInputs \in Nat /\ Nobody \notin Services
    BY WorkersAssumption
  <1>2. 1 \in Workers /\ 0 \in 0 .. NumAttempts /\ Attempts \subseteq 0 .. NumAttempts /\ 0 \notin Attempts
    BY WorkersAssumption DEF Workers, Attempts
  <1>3. NoCall \in CallState /\ NoExec \in ExecState
    BY <1>2 DEF NoCall, NoExec, CallState, ExecState, Ops, ExecStates, Results
  <1> QED
    BY <1>1, <1>2, <1>3

\* The typed variables by name, for the steps that follow.
LEMMA TypeNames ==
  TypeOK <=> /\ worker \in [Workers -> WorkerRow] /\ att \in [Attempts -> AttemptRow]
             /\ envelope \in [Attempts -> Results] /\ latest \in [Workers -> 0 .. NumAttempts]
             /\ queue \in [Workers -> SUBSET Inputs] /\ used \in [Attempts -> SUBSET Inputs]
             /\ registered \subseteq Attempts /\ alive \subseteq Attempts /\ unclean \subseteq Attempts
             /\ exec \in [Attempts -> ExecState]
             /\ up \in [Services -> BOOLEAN] /\ closed \in [Services -> BOOLEAN]
             /\ held \in [Services -> BOOLEAN] /\ call \in [Services -> CallState]
             /\ todo \in [Services -> SUBSET Attempts] /\ recon \in [Services -> 0 .. NumAttempts]
             /\ sent \in 0 .. NumInputs /\ crashes \in Nat /\ environment \in SUBSET Events
  BY DEF TypeOK, WorkerRow, AttemptRow, ExecState, CallState

LEMMA TypeInit == Init => TypeOK
  <1> SUFFICES ASSUME Init PROVE TypeOK
    OBVIOUS
  <1>1. worker \in [Workers -> WorkerRow] /\ att \in [Attempts -> AttemptRow]
    BY Constants DEF Init, WorkerRow, AttemptRow, Outcomes, Reasons
  <1>2. envelope \in [Attempts -> Results] /\ latest \in [Workers -> 0 .. NumAttempts]
    BY Constants DEF Init, Results
  <1>3. exec \in [Attempts -> ExecState] /\ call \in [Services -> CallState]
    BY Constants DEF Init
  <1>4. recon \in [Services -> 0 .. NumAttempts] /\ sent \in 0 .. NumInputs /\ crashes \in Nat
    BY Constants DEF Init
  <1>5. environment \in SUBSET Events
    BY WorkersAssumption DEF Init
  <1> QED
    BY <1>1, <1>2, <1>3, <1>4, <1>5, TypeNames DEF Init

\* What the moves of a thread, the settlements and the cleanups write has its type.
LEMMA GotoType ==
  ASSUME TypeOK, NEW a \in Attempts, NEW label \in ExecStates, Goto(a, label)
  PROVE  exec' \in [Attempts -> ExecState]
  BY TypeNames DEF Goto, ExecState

LEMMA ReportType ==
  ASSUME TypeOK, NEW a \in Attempts, NEW label \in ExecStates, NEW r \in Results \cup Reasons,
         Report(a, label, r)
  PROVE  exec' \in [Attempts -> ExecState]
  BY TypeNames DEF Report, ExecState

LEMMA AttemptUpdate ==
  \A r \in AttemptRow, o \in Outcomes :
     [r EXCEPT !.status = "finished", !.outcome = o] \in AttemptRow
  BY DEF AttemptRow

LEMMA WorkerUpdate ==
  \A r \in WorkerRow : [r EXCEPT !.phase = "running", !.reason = "none"] \in WorkerRow
  BY DEF WorkerRow, Reasons

LEMMA SettleType ==
  ASSUME TypeOK, NEW a \in Attempts, NEW o \in Outcomes, NEW r \in Reasons, SettleWorker(a, o, r)
  PROVE  worker' \in [Workers -> WorkerRow] /\ att' \in [Attempts -> AttemptRow]
  <1>1. att[a].worker \in Workers
    BY TypeNames DEF AttemptRow
  <1>2. worker' \in [Workers -> WorkerRow]
    BY <1>1, TypeNames DEF SettleWorker, WorkerRow
  <1>3. att' \in [Attempts -> AttemptRow]
    <2>1. att[a] \in AttemptRow
      BY TypeNames
    <2> DEFINE row == [att[a] EXCEPT !.status = "finished", !.outcome = o]
    <2>2. Live(a) => att' = [att EXCEPT ![a] = row]
      <3>1. [att EXCEPT ![a].status = "finished", ![a].outcome = o] = [att EXCEPT ![a] = row]
        BY TypeNames
      <3> QED
        BY <3>1 DEF SettleWorker
    <2>3. row \in AttemptRow
      BY <2>1, AttemptUpdate
    <2>4. ~ Live(a) => att' = att
      BY DEF SettleWorker
    <2> HIDE DEF row
    <2> QED
      BY <2>2, <2>3, <2>4, TypeNames
  <1> QED
    BY <1>2, <1>3

LEMMA CancelTreeType ==
  ASSUME TypeOK, NEW w \in Workers, CancelWorkerTree(w)
  PROVE  worker' \in [Workers -> WorkerRow] /\ att' \in [Attempts -> AttemptRow]
  <1>1. worker' \in [Workers -> WorkerRow]
    BY TypeNames DEF CancelWorkerTree, WorkerRow, Outcomes, Reasons
  <1>2. att' \in [Attempts -> AttemptRow]
    <2>1. "stopped" \in Outcomes
      BY DEF Outcomes
    <2> QED
      BY <2>1, TypeNames, AttemptUpdate DEF CancelWorkerTree
  <1> QED
    BY <1>1, <1>2

LEMMA PersistType ==
  ASSUME TypeOK, NEW a \in Attempts, NEW r \in Results, PersistWorkerResult(a, r)
  PROVE  envelope' \in [Attempts -> Results] /\ latest' \in [Workers -> 0 .. NumAttempts]
  <1>1. att[a].worker \in Workers /\ a \in 0 .. NumAttempts
    BY Constants, TypeNames DEF AttemptRow
  <1> QED
    BY <1>1, TypeNames DEF PersistWorkerResult

LEMMA CleanupType ==
  ASSUME TypeOK, NEW a \in Attempts, Cleaned(a) \/ CleanupFails(a)
  PROVE  registered' \subseteq Attempts /\ alive' \subseteq Attempts
  BY TypeNames DEF Cleaned, CleanupFails, process

LEMMA ReleaseType ==
  ASSUME TypeOK, NEW s \in Services, NEW S, ReleaseIdleOwner(s, S)
  PROVE  held' \in [Services -> BOOLEAN]
  BY TypeNames DEF ReleaseIdleOwner

\* Calls of a service keep the types.
LEMMA CallTypes ==
  ASSUME TypeOK, CallOwnsAttempt, NEW s \in Services, UNCHANGED environment
  PROVE  /\ (ServiceStep(s) \/ Close(s) \/ Crash(s) \/ ReconcileSettle(s)) => TypeOK'
         /\ \A w \in Workers : (CreateWorker(s, w) \/ ResumeRead(s, w) \/ Cancel(s, w)) => TypeOK'
         /\ \A a \in Attempts : (CleanupOne(s, a) \/ ReconcileLock(s, a)) => TypeOK'
  <1>0. call[s] \in CallState /\ call[s].worker \in Workers /\ call[s].ids \subseteq Inputs
    BY TypeNames DEF CallState
  <1>1. ASSUME Start(s) PROVE TypeOK'
    <2>1. PICK a \in Attempts :
             /\ StartWorkerAttempt(s, call[s].worker, a, call[s].ids)
             /\ exec' = [exec EXCEPT ![a].pc = "starting"]
             /\ call' = [call EXCEPT ![s] = [NoCall EXCEPT !.op = "submit", !.worker = call[s].worker,
                                                          !.att = a]]
      BY <1>1 DEF Start
    <2>2. att' \in [Attempts -> AttemptRow]
      BY <1>0, <2>1, TypeNames DEF StartWorkerAttempt, AttemptRow, Outcomes
    <2>3. worker' \in [Workers -> WorkerRow]
      <3> DEFINE w == call[s].worker
                 row == [worker[w] EXCEPT !.phase = "running", !.reason = "none"]
      <3>1. worker' = [worker EXCEPT ![w] = row]
        <4>1. [worker EXCEPT ![w].phase = "running", ![w].reason = "none"] = [worker EXCEPT ![w] = row]
          BY <1>0, TypeNames
        <4> QED
          BY <2>1, <4>1 DEF StartWorkerAttempt
      <3>2. row \in WorkerRow
        <4>1. worker[w] \in WorkerRow
          BY <1>0, TypeNames
        <4> QED
          BY <4>1, WorkerUpdate
      <3> HIDE DEF row
      <3> QED
        BY <1>0, <3>1, <3>2, TypeNames
    <2>4. used' \in [Attempts -> SUBSET Inputs] /\ queue' \in [Workers -> SUBSET Inputs]
      BY <1>0, <2>1, TypeNames DEF StartWorkerAttempt
    <2>5. exec' \in [Attempts -> ExecState]
      BY <2>1, TypeNames DEF ExecState, ExecStates
    <2>6. [NoCall EXCEPT !.op = "submit", !.worker = call[s].worker, !.att = a] \in CallState
      BY <1>0, Constants DEF NoCall, CallState, Ops
    <2>7. call' \in [Services -> CallState] /\ held' \in [Services -> BOOLEAN]
      BY <1>1, <2>1, <2>6, TypeNames DEF Start
    <2> QED
      BY <1>1, <2>2, <2>3, <2>4, <2>5, <2>7 DEF Start, TypeOK, WorkerRow, AttemptRow, ExecState, CallState, rows, process, services
  <1>2. ASSUME StartRefused(s) PROVE TypeOK'
    <2>1. [NoCall EXCEPT !.op = "refused", !.worker = call[s].worker] \in CallState
      BY <1>0, Constants DEF NoCall, CallState, Ops
    <2>2. call' \in [Services -> CallState]
      BY <1>2, <2>1, Constants, TypeNames DEF StartRefused
    <2> QED
      BY <1>2, <2>2 DEF StartRefused, TypeOK, WorkerRow, AttemptRow, ExecState, CallState, rows, process, services
  <1>3. ASSUME AbandonChild(s) PROVE TypeOK'
    <2>1. worker' \in [Workers -> WorkerRow] /\ att' \in [Attempts -> AttemptRow]
      BY <1>0, <1>3, CancelTreeType, TypeNames DEF AbandonChild
    <2>2. call' \in [Services -> CallState]
      BY <1>3, Constants, TypeNames DEF AbandonChild
    <2> QED
      BY <1>3, <2>1, <2>2 DEF AbandonChild, TypeOK, WorkerRow, AttemptRow, ExecState, CallState, rows, process, services
  <1>4. ASSUME Submit(s) PROVE TypeOK'
    <2>1. call' \in [Services -> CallState]
      BY <1>4, Constants, TypeNames DEF Submit
    <2>2. call[s].att \in Attempts
      BY <1>4 DEF Submit, CallOwnsAttempt
    <2>3. exec' \in [Attempts -> ExecState]
      BY <1>4, <2>2, TypeNames DEF Submit, ExecState, ExecStates
    <2> QED
      BY <1>4, <2>1, <2>3 DEF Submit, TypeOK, WorkerRow, AttemptRow, ExecState, CallState, rows, process, services
  <1>5. ASSUME StartFails(s) PROVE TypeOK'
    <2>1. call' \in [Services -> CallState]
      BY <1>5, Constants, TypeNames DEF StartFails
    <2>2. call[s].att \in Attempts
      BY <1>5 DEF StartFails, CallOwnsAttempt
    <2>3. exec' \in [Attempts -> ExecState]
      BY <1>5, <2>2, TypeNames DEF StartFails, ExecState, ExecStates
    <2>4. worker' \in [Workers -> WorkerRow] /\ att' \in [Attempts -> AttemptRow]
      BY <1>5, <2>2, SettleType DEF StartFails, Outcomes, Reasons
    <2>5. held' \in [Services -> BOOLEAN]
      BY <1>5, ReleaseType DEF StartFails
    <2> QED
      BY <1>5, <2>1, <2>3, <2>4, <2>5 DEF StartFails, TypeOK, WorkerRow, AttemptRow, ExecState, CallState, rows, process, services
  <1>6. ASSUME Close(s) PROVE TypeOK'
    <2>1. closed' \in [Services -> BOOLEAN] /\ todo' \in [Services -> SUBSET Attempts]
      BY <1>6, TypeNames DEF Close, ActiveOf
    <2> QED
      BY <1>6, <2>1 DEF Close, TypeOK, WorkerRow, AttemptRow, ExecState, CallState, rows, process, services
  <1>7. ASSUME Crash(s) PROVE TypeOK'
    <2>1. exec' \in [Attempts -> ExecState]
      BY <1>7, TypeNames DEF Crash, ExecState, ExecStates
    <2>2. /\ up' \in [Services -> BOOLEAN] /\ held' \in [Services -> BOOLEAN]
          /\ call' \in [Services -> CallState] /\ todo' \in [Services -> SUBSET Attempts]
          /\ recon' \in [Services -> 0 .. NumAttempts] /\ crashes' \in Nat
      BY <1>7, Constants, TypeNames DEF Crash
    <2> QED
      BY <1>7, <2>1, <2>2 DEF Crash, TypeOK, WorkerRow, AttemptRow, ExecState, CallState, rows, process, services
  <1>8. ASSUME ReconcileSettle(s) PROVE TypeOK'
    <2>1. recon[s] \in Attempts
      BY <1>8, TypeNames, Constants DEF ReconcileSettle, Attempts
    <2>2. registered' \subseteq Attempts /\ alive' \subseteq Attempts
      BY <1>8, <2>1, CleanupType DEF ReconcileSettle
    <2>3. worker' \in [Workers -> WorkerRow] /\ att' \in [Attempts -> AttemptRow]
      BY <1>8, <2>1, SettleType, TypeNames DEF ReconcileSettle, ReconcileWorkers, Outcomes, Reasons
    <2>4. recon' \in [Services -> 0 .. NumAttempts]
      BY <1>8, Constants, TypeNames DEF ReconcileSettle
    <2> QED
      BY <1>8, <2>2, <2>3, <2>4 DEF ReconcileSettle, TypeOK, WorkerRow, AttemptRow, ExecState, CallState, rows, process, services
  <1>9. ASSUME NEW w \in Workers, CreateWorker(s, w) PROVE TypeOK'
    <2>1. worker' \in [Workers -> WorkerRow]
      BY <1>9, TypeNames DEF CreateWorker, WorkerRow
    <2>2. [NoCall EXCEPT !.op = "dispatch", !.worker = w] \in CallState
      BY Constants DEF NoCall, CallState, Ops
    <2>3. call' \in [Services -> CallState]
      BY <1>9, <2>2, TypeNames DEF CreateWorker
    <2> QED
      BY <1>9, <2>1, <2>3 DEF CreateWorker, TypeOK, WorkerRow, AttemptRow, ExecState, CallState, rows, process, services
  <1>10. ASSUME NEW w \in Workers, ResumeRead(s, w) PROVE TypeOK'
    <2>1. [op |-> "resume", worker |-> w, ids |-> queue[w], att |-> 0] \in CallState
      BY Constants, TypeNames DEF CallState, Ops
    <2>2. call' \in [Services -> CallState]
      BY <1>10, <2>1, TypeNames DEF ResumeRead
    <2> QED
      BY <1>10, <2>2 DEF ResumeRead, TypeOK, WorkerRow, AttemptRow, ExecState, CallState, rows, process, services
  <1>11. ASSUME NEW w \in Workers, Cancel(s, w) PROVE TypeOK'
    <2>1. worker' \in [Workers -> WorkerRow] /\ att' \in [Attempts -> AttemptRow]
      BY <1>11, CancelTreeType DEF Cancel
    <2>2. todo' \in [Services -> SUBSET Attempts]
      BY <1>11, TypeNames DEF Cancel
    <2> QED
      BY <1>11, <2>1, <2>2 DEF Cancel, TypeOK, WorkerRow, AttemptRow, ExecState, CallState, rows, process, services
  <1>12. ASSUME NEW a \in Attempts, CleanupOne(s, a) PROVE TypeOK'
    <2>1. registered' \subseteq Attempts /\ alive' \subseteq Attempts
      BY <1>12, CleanupType DEF CleanupOne
    <2>2. worker' \in [Workers -> WorkerRow] /\ att' \in [Attempts -> AttemptRow]
      BY <1>12, SettleType, TypeNames DEF CleanupOne, Outcomes, Reasons
    <2>3. todo' \in [Services -> SUBSET Attempts]
      BY <1>12, TypeNames DEF CleanupOne
    <2> QED
      BY <1>12, <2>1, <2>2, <2>3 DEF CleanupOne, TypeOK, WorkerRow, AttemptRow, ExecState, CallState, rows, process, services
  <1>13. ASSUME NEW a \in Attempts, ReconcileLock(s, a) PROVE TypeOK'
    <2>1. recon' \in [Services -> 0 .. NumAttempts]
      BY <1>13, Constants, TypeNames DEF ReconcileLock
    <2> QED
      BY <1>13, <2>1 DEF ReconcileLock, TypeOK, WorkerRow, AttemptRow, ExecState, CallState, rows, process, services
  <1> QED
    BY <1>1, <1>2, <1>3, <1>4, <1>5, <1>6, <1>7, <1>8, <1>9, <1>10, <1>11, <1>12, <1>13
       DEF ServiceStep

\* A guard moves the thread on, or into its handler.
LEMMA GuardType ==
  ASSUME TypeOK, NEW a \in Attempts, NEW label \in ExecStates, Guard(a, label)
  PROVE  exec' \in [Attempts -> ExecState]
  <1>1. "failing" \in ExecStates /\ {"cancelled", "process_cleanup"} \subseteq Results \cup Reasons
    BY DEF ExecStates, Reasons, Results
  <1> QED
    BY <1>1, GotoType, ReportType DEF Guard

\* Steps of a thread keep the types.
LEMMA ThreadTypes ==
  ASSUME TypeOK, ResultFits, NEW a \in Attempts, ThreadStep(a), UNCHANGED environment
  PROVE  TypeOK'
  <1>0. /\ {"entered", "run", "spawned", "observed", "serving", "returned", "collected", "persisted",
            "failing", "failed", "final", "cleaned", "gone"} \subseteq ExecStates
        /\ {"succeeded", "failed", "cancelled"} \subseteq Results
        /\ {"cancelled", "process_cleanup", "timeout", "runtime_error"} \subseteq Reasons
    BY DEF ExecStates, Results, Reasons
  <1>1. CASE Enter(a)
    BY <1>0, <1>1, GuardType DEF Enter, TypeOK, WorkerRow, AttemptRow, ExecState, CallState, ThreadFrame, rows, process, services
  <1>2. CASE Invoke(a)
    BY <1>0, <1>2, GuardType DEF Invoke, TypeOK, WorkerRow, AttemptRow, ExecState, CallState, ThreadFrame, rows, process, services
  <1>3. CASE Spawn(a)
    <2>1. exec' \in [Attempts -> ExecState]
      BY <1>0, <1>3, GotoType DEF Spawn
    <2> QED
      BY <1>3, <2>1 DEF Spawn, TypeOK, WorkerRow, AttemptRow, ExecState, CallState, ThreadFrame, rows, process, services
  <1>4. CASE Register(a)
    <2>1. exec' \in [Attempts -> ExecState]
      BY <1>0, <1>4, GotoType DEF Register
    <2> QED
      BY <1>4, <2>1 DEF Register, TypeOK, WorkerRow, AttemptRow, ExecState, CallState, ThreadFrame, rows, process, services
  <1>5. CASE Observe(a)
    <2>1. exec' \in [Attempts -> ExecState]
      BY <1>0, <1>5, GotoType, ReportType DEF Observe
    <2>2. registered' \subseteq Attempts /\ alive' \subseteq Attempts
      BY <1>5, CleanupType, TypeNames DEF Observe, process
    <2> QED
      BY <1>5, <2>1, <2>2 DEF Observe, TypeOK, WorkerRow, AttemptRow, ExecState, CallState, ThreadFrame, rows, process, services
  <1>6. CASE Released(a)
    <2>1. registered' \subseteq Attempts /\ alive' \subseteq Attempts
      BY <1>6, CleanupType DEF Released
    <2> QED
      BY <1>6, <2>1 DEF Released, TypeOK, WorkerRow, AttemptRow, ExecState, CallState, ThreadFrame, rows, process, services
  <1>7. CASE Return(a)
    <2>1. exec' \in [Attempts -> ExecState]
      BY <1>0, <1>7, ReportType DEF Return
    <2> QED
      BY <1>7, <2>1 DEF Return, TypeOK, WorkerRow, AttemptRow, ExecState, CallState, ThreadFrame, rows, process, services
  <1>8. CASE Collect(a)
    <2>1. exec' \in [Attempts -> ExecState]
      BY <1>0, <1>8, GotoType, ReportType DEF Collect
    <2>2. registered' \subseteq Attempts /\ alive' \subseteq Attempts
      BY <1>8, CleanupType, TypeNames DEF Collect, process
    <2> QED
      BY <1>8, <2>1, <2>2 DEF Collect, TypeOK, WorkerRow, AttemptRow, ExecState, CallState, ThreadFrame, rows, process, services
  <1>9. CASE Persist(a)
    <2>1. exec' \in [Attempts -> ExecState]
      BY <1>0, <1>9, GotoType, ReportType DEF Persist
    <2>2. exec[a].result \in Results
      BY <1>0, <1>9 DEF Persist, At, ResultFits
    <2>3. envelope' \in [Attempts -> Results] /\ latest' \in [Workers -> 0 .. NumAttempts]
      BY <1>9, <2>2, PersistType, TypeNames DEF Persist
    <2> QED
      BY <1>9, <2>1, <2>3 DEF Persist, TypeOK, WorkerRow, AttemptRow, ExecState, CallState, ThreadFrame, rows, process, services
  <1>10. CASE Settle(a)
    <2>1. exec' \in [Attempts -> ExecState]
      BY <1>0, <1>10, GotoType DEF Settle
    <2>2. exec[a].result \in {"succeeded", "failed", "cancelled"}
      BY <1>10 DEF Settle, At, ResultFits
    <2>3. OutcomeOf(exec[a].result) \in Outcomes /\ ReasonOf(exec[a].result) \in Reasons
      BY <2>2 DEF OutcomeOf, ReasonOf, Outcomes, Reasons
    <2>4. worker' \in [Workers -> WorkerRow] /\ att' \in [Attempts -> AttemptRow]
      BY <1>10, <2>3, SettleType DEF Settle
    <2> QED
      BY <1>10, <2>1, <2>4 DEF Settle, TypeOK, WorkerRow, AttemptRow, ExecState, CallState, ThreadFrame, rows, process, services
  <1>11. CASE Fallback(a)
    <2> DEFINE reason == CASE closed[att[a].by] -> "cancelled"
                           [] ~ closed[att[a].by] /\ a \in unclean -> "process_cleanup"
                           [] OTHER -> exec[a].result
    <2>1. reason \in Reasons
      BY <1>0, <1>11 DEF Fallback, At, ResultFits
    <2>2. /\ Report(a, "failed", reason)
          /\ PersistWorkerResult(a, IF reason = "cancelled" THEN "cancelled" ELSE "failed")
      BY <1>11 DEF Fallback
    <2> HIDE DEF reason
    <2>3. exec' \in [Attempts -> ExecState]
      BY <1>0, <2>1, <2>2, ReportType
    <2>4. envelope' \in [Attempts -> Results] /\ latest' \in [Workers -> 0 .. NumAttempts]
      BY <1>0, <2>2, PersistType
    <2> QED
      BY <1>11, <2>3, <2>4 DEF Fallback, TypeOK, WorkerRow, AttemptRow, ExecState, CallState, ThreadFrame, rows, process, services
  <1>12. CASE SettleFailure(a)
    <2>1. exec' \in [Attempts -> ExecState]
      BY <1>0, <1>12, GotoType DEF SettleFailure
    <2>2. exec[a].result \in Reasons
      BY <1>0, <1>12 DEF SettleFailure, At, ResultFits
    <2>3. worker' \in [Workers -> WorkerRow] /\ att' \in [Attempts -> AttemptRow]
      BY <1>12, <2>2, SettleType DEF SettleFailure, Outcomes
    <2> QED
      BY <1>12, <2>1, <2>3 DEF SettleFailure, TypeOK, WorkerRow, AttemptRow, ExecState, CallState, ThreadFrame, rows, process, services
  <1>13. CASE Cleanup(a)
    <2>1. exec' \in [Attempts -> ExecState]
      BY <1>0, <1>13, GotoType DEF Cleanup
    <2>2. registered' \subseteq Attempts /\ alive' \subseteq Attempts
      BY <1>13, CleanupType DEF Cleanup
    <2> QED
      BY <1>13, <2>1, <2>2 DEF Cleanup, TypeOK, WorkerRow, AttemptRow, ExecState, CallState, ThreadFrame, rows, process, services
  <1>14. CASE Leave(a)
    <2>1. exec' \in [Attempts -> ExecState]
      BY <1>0, <1>14, GotoType DEF Leave
    <2>2. att[a].by \in Services \cup {Nobody}
      BY TypeNames DEF AttemptRow
    <2>3. held' \in [Services -> BOOLEAN]
      BY <1>14, <2>2, TypeNames DEF Leave, ReleaseIdleOwner
    <2> QED
      BY <1>14, <2>1, <2>3 DEF Leave, TypeOK, WorkerRow, AttemptRow, ExecState, CallState, ThreadFrame, rows, process, services
  <1> QED
    BY <1>1, <1>2, <1>3, <1>4, <1>5, <1>6, <1>7, <1>8, <1>9, <1>10, <1>11, <1>12, <1>13, <1>14
       DEF ThreadStep

LEMMA TypeStep ==
  ASSUME TypeOK, CallOwnsAttempt, ResultFits, [Next]_<<vars, environment>>
  PROVE  TypeOK'
  <1>1. CASE UNCHANGED <<vars, environment>>
    BY <1>1 DEF vars, TypeOK, WorkerRow, AttemptRow, ExecState, CallState, ThreadFrame, rows, process, services
  <1>2. ASSUME Next, NEW a \in Attempts, ProcessExits(a) PROVE TypeOK'
    BY <1>2 DEF Next, ProcessExits, TypeOK, WorkerRow, AttemptRow, ExecState, CallState, ThreadFrame, rows, process, services
  <1>3. ASSUME Next, NEW w \in Workers, Send(w) PROVE TypeOK'
    <2>1. sent' \in 0 .. NumInputs /\ sent + 1 \in Inputs
      BY <1>3, Constants, TypeNames DEF Send, Inputs
    <2>2. queue' \in [Workers -> SUBSET Inputs]
      BY <1>3, <2>1, TypeNames DEF Send
    <2> QED
      BY <1>3, <2>1, <2>2 DEF Next, Send, TypeOK, WorkerRow, AttemptRow, ExecState, CallState, ThreadFrame, rows, process, services
  <1> QED
    BY <1>1, <1>2, <1>3, CallTypes, ThreadTypes DEF Next, Steps

-----------------------------------------------------------------------------
(* What a step of a thread does to its own attempt and leaves to the others.   *)

\* The thread of a is in the pool; it moves on or leaves, and no other thread moves.
Moves(a) ==
    /\ exec[a].pc \in Active \ {"starting"}
    /\ exec'[a].pc \in (Active \ {"starting"}) \cup {"gone"}
    /\ \A b \in Attempts : b # a => exec'[b] = exec[b]

\* It carries a result that fits where it is.
CarriesResult(a) ==
    /\ exec'[a].pc \in {"returned", "collected", "persisted"}
          => exec'[a].result \in {"succeeded", "failed", "cancelled"}
    /\ exec'[a].pc \in {"failing", "failed"}
          => exec'[a].result \in {"cancelled", "process_cleanup", "timeout", "runtime_error"}
    /\ environment \cap {"fail", "close"} = {} /\ exec'[a].result = "cancelled"
          => exec[a].result = "cancelled" \/ ~ Live(a)

\* It stores the envelope of its own attempt, once.
StoresEnvelope(a) ==
    /\ \A b \in Attempts : b # a \/ envelope[b] # "none" => envelope'[b] = envelope[b]
    /\ exec'[a].pc \in Unpersisted => envelope'[a] = "none"
    /\ exec'[a].pc = "persisted" => envelope'[a] = exec'[a].result

\* It starts, registers and cleans the process of its own attempt.
KeepsProcess(a) ==
    /\ \A b \in Attempts : b # a => /\ b \in registered' <=> b \in registered
                                    /\ b \in alive' <=> b \in alive
    /\ a \in alive' \ registered' => exec'[a].pc = "spawned" \/ a \in unclean'

\* What the two assignments to a thread's state do.
LEMMA GotoEffect ==
  ASSUME TypeOK, NEW a \in Attempts, NEW label, Goto(a, label)
  PROVE  /\ exec'[a].pc = label /\ exec'[a].result = exec[a].result
         /\ \A b \in Attempts : b # a => exec'[b] = exec[b]
  BY TypeNames DEF Goto, ExecState

LEMMA ReportEffect ==
  ASSUME TypeOK, NEW a \in Attempts, NEW label, NEW r, Report(a, label, r)
  PROVE  /\ exec'[a].pc = label /\ exec'[a].result = r
         /\ \A b \in Attempts : b # a => exec'[b] = exec[b]
  BY TypeNames DEF Report

\* The step a thread takes, by where it is and where it goes.
LEMMA ThreadPaths ==
  ASSUME TypeOK, NEW a \in Attempts, ThreadStep(a)
  PROVE  /\ \A b \in Attempts : b # a => exec'[b] = exec[b]
         /\ \/ Enter(a) /\ exec[a].pc = "queued" /\ exec'[a].pc \in {"entered", "failing"}
            \/ Invoke(a) /\ exec[a].pc = "entered" /\ exec'[a].pc \in {"run", "failing"}
            \/ Spawn(a) /\ exec[a].pc = "run" /\ exec'[a].pc = "spawned"
            \/ Register(a) /\ exec[a].pc = "spawned" /\ exec'[a].pc \in {"observed", "serving"}
            \/ Observe(a) /\ exec[a].pc = "observed" /\ exec'[a].pc \in {"serving", "failing"}
            \/ Released(a) /\ exec[a].pc = "serving" /\ exec'[a] = exec[a]
            \/ Return(a) /\ exec[a].pc \in {"run", "serving"} /\ exec'[a].pc \in {"returned", "failing"}
            \/ Collect(a) /\ exec[a].pc = "returned" /\ exec'[a].pc \in {"collected", "failing"}
            \/ Persist(a) /\ exec[a].pc = "collected" /\ exec'[a].pc \in {"persisted", "failing"}
            \/ Settle(a) /\ exec[a].pc = "persisted" /\ exec'[a].pc = "final"
            \/ Fallback(a) /\ exec[a].pc = "failing" /\ exec'[a].pc = "failed"
            \/ SettleFailure(a) /\ exec[a].pc = "failed" /\ exec'[a].pc = "final"
            \/ Cleanup(a) /\ exec[a].pc = "final" /\ exec'[a].pc = "cleaned"
            \/ Leave(a) /\ exec[a].pc = "cleaned" /\ exec'[a].pc = "gone"
  <1>1. CASE Enter(a)
    BY <1>1, GotoEffect, ReportEffect DEF Enter, At, Guard
  <1>2. CASE Invoke(a)
    BY <1>2, GotoEffect, ReportEffect DEF Invoke, At, Guard
  <1>3. CASE Spawn(a)
    BY <1>3, GotoEffect, ReportEffect DEF Spawn, At
  <1>4. CASE Register(a)
    BY <1>4, GotoEffect, ReportEffect DEF Register, At
  <1>5. CASE Observe(a)
    BY <1>5, GotoEffect, ReportEffect DEF Observe, At
  <1>6. CASE Released(a)
    BY <1>6, GotoEffect, ReportEffect DEF Released, At
  <1>7. CASE Return(a)
    BY <1>7, GotoEffect, ReportEffect DEF Return, At
  <1>8. CASE Collect(a)
    BY <1>8, GotoEffect, ReportEffect DEF Collect, At
  <1>9. CASE Persist(a)
    BY <1>9, GotoEffect, ReportEffect DEF Persist, At
  <1>10. CASE Settle(a)
    BY <1>10, GotoEffect, ReportEffect DEF Settle, At
  <1>11. CASE Fallback(a)
    BY <1>11, GotoEffect, ReportEffect DEF Fallback, At
  <1>12. CASE SettleFailure(a)
    BY <1>12, GotoEffect, ReportEffect DEF SettleFailure, At
  <1>13. CASE Cleanup(a)
    BY <1>13, GotoEffect, ReportEffect DEF Cleanup, At
  <1>14. CASE Leave(a)
    BY <1>14, GotoEffect, ReportEffect DEF Leave, At
  <1> QED
    BY <1>1, <1>2, <1>3, <1>4, <1>5, <1>6, <1>7,
       <1>8, <1>9, <1>10, <1>11, <1>12, <1>13, <1>14 DEF ThreadStep

LEMMA ThreadMoves ==
  ASSUME TypeOK, NEW a \in Attempts, ThreadStep(a)
  PROVE  Moves(a)
  BY ThreadPaths DEF Moves, Active, ExecStates

\* A thread that reports "cancelled" saw its service closed or its attempt ended.
LEMMA ThreadCarriesResult ==
  ASSUME TypeOK, ResultFits, CancelledHasEnded, NEW a \in Attempts, att[a].by \in Services, ThreadStep(a)
  PROVE  CarriesResult(a)
  <1>0. /\ environment \cap {"fail", "close"} = {} /\ Stopped(a) => ~ Live(a)
        /\ environment \cap {"fail", "close"} = {} => ~ closed[att[a].by]
    BY DEF CancelledHasEnded, Stopped
  <1>1. CASE Enter(a)
    BY <1>0, <1>1, GotoEffect, ReportEffect DEF Enter, At, Guard, CarriesResult, ResultFits
  <1>2. CASE Invoke(a)
    BY <1>0, <1>2, GotoEffect, ReportEffect DEF Invoke, At, Guard, CarriesResult, ResultFits
  <1>3. CASE Spawn(a)
    BY <1>0, <1>3, GotoEffect, ReportEffect DEF Spawn, At, CarriesResult, ResultFits
  <1>4. CASE Register(a)
    BY <1>0, <1>4, GotoEffect, ReportEffect DEF Register, At, CarriesResult, ResultFits
  <1>5. CASE Observe(a)
    BY <1>0, <1>5, GotoEffect, ReportEffect DEF Observe, At, CarriesResult, ResultFits
  <1>6. CASE Released(a)
    BY <1>0, <1>6, GotoEffect, ReportEffect DEF Released, At, CarriesResult, ResultFits
  <1>7. CASE Return(a)
    BY <1>0, <1>7, GotoEffect, ReportEffect DEF Return, At, CarriesResult, ResultFits
  <1>8. CASE Collect(a)
    BY <1>0, <1>8, GotoEffect, ReportEffect DEF Collect, At, CarriesResult, ResultFits
  <1>9. CASE Persist(a)
    BY <1>0, <1>9, GotoEffect, ReportEffect DEF Persist, At, CarriesResult, ResultFits
  <1>10. CASE Settle(a)
    BY <1>0, <1>10, GotoEffect, ReportEffect DEF Settle, At, CarriesResult, ResultFits
  <1>11. CASE Fallback(a)
    BY <1>0, <1>11, GotoEffect, ReportEffect DEF Fallback, At, CarriesResult, ResultFits
  <1>12. CASE SettleFailure(a)
    BY <1>0, <1>12, GotoEffect, ReportEffect DEF SettleFailure, At, CarriesResult, ResultFits
  <1>13. CASE Cleanup(a)
    BY <1>0, <1>13, GotoEffect, ReportEffect DEF Cleanup, At, CarriesResult, ResultFits
  <1>14. CASE Leave(a)
    BY <1>0, <1>14, GotoEffect, ReportEffect DEF Leave, At, CarriesResult, ResultFits
  <1> QED
    BY <1>1, <1>2, <1>3, <1>4, <1>5, <1>6, <1>7,
       <1>8, <1>9, <1>10, <1>11, <1>12, <1>13, <1>14 DEF ThreadStep

LEMMA ThreadStoresEnvelope ==
  ASSUME TypeOK, EnvelopeFits, NEW a \in Attempts, ThreadStep(a)
  PROVE  StoresEnvelope(a)
  <1>0. envelope \in [Attempts -> Results] /\ (exec[a].pc \in Unpersisted => envelope[a] = "none")
    BY TypeNames DEF EnvelopeFits
  <1>1. CASE Persist(a)
    BY <1>0, <1>1, GotoEffect, ReportEffect
       DEF Persist, At, PersistWorkerResult, StoresEnvelope, Unpersisted
  <1>2. CASE Fallback(a)
    BY <1>0, <1>2, ThreadPaths
       DEF Fallback, At, PersistWorkerResult, StoresEnvelope, Unpersisted
  <1>3. CASE ~ Persist(a) /\ ~ Fallback(a)
    <2>1. envelope' = envelope
      BY <1>3 DEF ThreadStep, Enter, Invoke, Spawn, Register, Observe, Released, Return, Collect,
                  Settle, SettleFailure, Cleanup, Leave, rows
    <2>2. exec'[a].pc # "persisted" /\ (exec'[a].pc \in Unpersisted => exec[a].pc \in Unpersisted)
      BY <1>3, ThreadPaths DEF Unpersisted
    <2> QED
      BY <1>0, <2>1, <2>2 DEF StoresEnvelope
  <1> QED
    BY <1>1, <1>2, <1>3

\* What a cleanup of a does, confirmed or not.
LEMMA CleanupEffect ==
  ASSUME NEW a \in Attempts, Cleaned(a) \/ CleanupFails(a)
  PROVE  /\ \A b \in Attempts : b # a => /\ b \in registered' <=> b \in registered
                                         /\ b \in alive' <=> b \in alive
         /\ registered' \subseteq registered /\ alive' \subseteq alive
         /\ a \in alive' \ registered' => a \in alive \ registered
  BY DEF Cleaned, CleanupFails, process

\* A thread marks its own attempt, when a process cannot be registered or cleaned.
LEMMA ThreadMarks ==
  ASSUME TypeOK, NEW a \in Attempts, ThreadStep(a)
  PROVE  /\ unclean \subseteq unclean'
         /\ \/ unclean' = unclean
            \/ /\ unclean' = unclean \cup {a}
               /\ exec[a].pc \in {"spawned", "serving"} /\ exec'[a].pc = "serving"
  <1>1. CASE Register(a)
    BY <1>1, GotoEffect DEF Register, At
  <1>2. CASE Released(a)
    BY <1>2 DEF Released, At
  <1>3. CASE ~ Register(a) /\ ~ Released(a)
    BY <1>3 DEF ThreadStep, Enter, Invoke, Spawn, Observe, Return, Collect, Persist, Settle, Fallback, SettleFailure,
                Cleanup, Leave
  <1> QED
    BY <1>1, <1>2, <1>3

LEMMA ThreadKeepsProcess ==
  ASSUME TypeOK, LiveProcessIsRegistered, NEW a \in Attempts, ThreadStep(a)
  PROVE  KeepsProcess(a)
  <1>0. /\ a \in alive \ registered => exec[a].pc \in {"spawned", "dead_spawned"} \/ a \in unclean
        /\ unclean \subseteq unclean'
    BY ThreadMarks DEF LiveProcessIsRegistered
  <1>1. CASE Spawn(a)
    BY <1>1, GotoEffect DEF Spawn, KeepsProcess
  <1>2. CASE Register(a)
    BY <1>2, GotoEffect DEF Register, KeepsProcess
  <1>3. CASE (Cleaned(a) \/ CleanupFails(a)) /\ ~ Spawn(a) /\ ~ Register(a)
    BY <1>0, <1>3, CleanupEffect, ThreadPaths DEF KeepsProcess
  <1>4. CASE UNCHANGED process /\ ~ Spawn(a) /\ ~ Register(a)
    BY <1>0, <1>4, ThreadPaths DEF KeepsProcess, process
  <1> QED
    BY <1>1, <1>2, <1>3, <1>4 DEF ThreadStep, Enter, Invoke, Observe, Released, Return, Collect,
       Persist, Settle, Fallback, SettleFailure, Cleanup, Leave

-----------------------------------------------------------------------------
(* What a step does to the rows of workers and attempts.                       *)

\* The effect of settle_worker, of cancel_worker_tree and of start_worker_attempt, row by row.
LEMMA SettleEffect ==
  ASSUME TypeOK, NEW a \in Attempts, NEW o, NEW r, SettleWorker(a, o, r)
  PROVE  /\ \A b \in Attempts : b # a \/ ~ Live(a) => att'[b] = att[b]
         /\ Live(a) => /\ att'[a].status = "finished" /\ att'[a].outcome = o
                        /\ att'[a].worker = att[a].worker /\ att'[a].by = att[a].by
         /\ \A w \in Workers : w # att[a].worker \/ ~ Live(a) => worker'[w] = worker[w]
         /\ Live(a) => worker'[att[a].worker] = [phase |-> "idle", outcome |-> o, reason |-> r]
  <1>1. att[a].worker \in Workers
    BY TypeNames DEF AttemptRow
  <1>2. CASE Live(a)
    <2>1. /\ att' = [att EXCEPT ![a].status = "finished", ![a].outcome = o]
          /\ worker' = [worker EXCEPT ![att[a].worker] = [phase |-> "idle", outcome |-> o, reason |-> r]]
      BY <1>2 DEF SettleWorker
    <2>2. att'[a] = [att[a] EXCEPT !.status = "finished", !.outcome = o]
      BY <2>1, TypeNames
    <2>3. /\ att'[a].status = "finished" /\ att'[a].outcome = o
          /\ att'[a].worker = att[a].worker /\ att'[a].by = att[a].by
      BY <2>2, TypeNames DEF AttemptRow
    <2>4. \A b \in Attempts : b # a => att'[b] = att[b]
      BY <2>1, TypeNames
    <2>5. /\ \A w \in Workers : w # att[a].worker => worker'[w] = worker[w]
          /\ worker'[att[a].worker] = [phase |-> "idle", outcome |-> o, reason |-> r]
      BY <1>1, <2>1, TypeNames
    <2> QED
      BY <1>2, <2>3, <2>4, <2>5
  <1>3. CASE ~ Live(a)
    BY <1>3 DEF SettleWorker
  <1> QED
    BY <1>2, <1>3

LEMMA CancelEffect ==
  ASSUME TypeOK, NEW w \in Workers, CancelWorkerTree(w)
  PROVE  /\ \A b \in Attempts : ~ Live(b) \/ att[b].worker \notin Subtree(w) => att'[b] = att[b]
         /\ \A b \in Attempts : Live(b) /\ att[b].worker \in Subtree(w) =>
               /\ att'[b].status = "finished" /\ att'[b].outcome = "stopped"
               /\ att'[b].worker = att[b].worker /\ att'[b].by = att[b].by
         /\ \A v \in Workers : v \notin Subtree(w) => worker'[v] = worker[v]
         /\ \A v \in Subtree(w) :
               IF worker[v].phase = "running" \/ (worker[v].phase = "idle" /\ worker[v].outcome = "none")
                 THEN worker'[v].phase = "idle" /\ worker'[v].reason \in CancelReasons
                 ELSE worker'[v] = worker[v]
  <1>1. \A b \in Attempts : ~ Live(b) \/ att[b].worker \notin Subtree(w) => att'[b] = att[b]
    BY DEF CancelWorkerTree
  <1>2. ASSUME NEW b \in Attempts, Live(b), att[b].worker \in Subtree(w)
        PROVE  /\ att'[b].status = "finished" /\ att'[b].outcome = "stopped"
               /\ att'[b].worker = att[b].worker /\ att'[b].by = att[b].by
    <2>1. att'[b] = [att[b] EXCEPT !.status = "finished", !.outcome = "stopped"]
      BY <1>2 DEF CancelWorkerTree
    <2> QED
      BY <2>1, TypeNames DEF AttemptRow
  <1>3. Subtree(w) \subseteq Workers
    BY DEF Subtree
  <1>4. \A v \in Workers : v \notin Subtree(w) => worker'[v] = worker[v]
    BY DEF CancelWorkerTree
  <1>5. ASSUME NEW v \in Subtree(w)
        PROVE  IF worker[v].phase = "running" \/ (worker[v].phase = "idle" /\ worker[v].outcome = "none")
                 THEN worker'[v].phase = "idle" /\ worker'[v].reason \in CancelReasons
                 ELSE worker'[v] = worker[v]
    <2>1. v \in Workers
      BY <1>3, <1>5
    <2>2. worker'[v] = IF worker[v].phase = "running" \/ (worker[v].phase = "idle" /\ worker[v].outcome = "none")
                         THEN [phase |-> "idle", outcome |-> "stopped",
                               reason |-> IF v = w THEN "cancelled" ELSE "parent_cancelled"]
                         ELSE worker[v]
      BY <1>5, <2>1 DEF CancelWorkerTree
    <2> QED
      BY <2>2 DEF CancelReasons
  <1> QED
    BY <1>1, <1>2, <1>4, <1>5

\* What a start of attempt a by service s finds and does.
Started(s, a) ==
    /\ call[s].worker \in Workers /\ worker[call[s].worker].phase = "idle"
    /\ \A b \in Attempts : att[b].worker = call[s].worker => ~ Live(b)
    /\ call[s].ids \subseteq queue[call[s].worker]
    /\ Parent[call[s].worker] \in Workers =>
         \/ worker[Parent[call[s].worker]].phase = "running"
         \/ worker[Parent[call[s].worker]].reason \notin CancelReasons
    /\ att[a].status = "none"
    /\ att'[a] = [worker |-> call[s].worker, by |-> s, status |-> "running", outcome |-> "none"]
    /\ \A b \in Attempts : b # a => att'[b] = att[b]
    /\ worker'[call[s].worker].phase = "running" /\ worker'[call[s].worker].reason = "none"
    /\ \A v \in Workers : v # call[s].worker => worker'[v] = worker[v]
    /\ exec'[a].pc = "starting" /\ exec'[a].result = exec[a].result
    /\ \A b \in Attempts : b # a => exec'[b] = exec[b]
    /\ used'[a] = call[s].ids /\ \A b \in Attempts : b # a => used'[b] = used[b]
    /\ queue'[call[s].worker] = queue[call[s].worker] \ call[s].ids
    /\ \A v \in Workers : v # call[s].worker => queue'[v] = queue[v]
    /\ call'[s].op = "submit" /\ call'[s].att = a
    /\ \A z \in Services : z # s => call'[z] = call[z]

LEMMA StartEffect ==
  ASSUME TypeOK, NEW s \in Services, Start(s)
  PROVE  \E a \in Attempts : Started(s, a)
  <1> DEFINE w == call[s].worker
  <1>1. PICK a \in Attempts :
           /\ First(a, Unused)
           /\ StartWorkerAttempt(s, w, a, call[s].ids)
           /\ exec' = [exec EXCEPT ![a].pc = "starting"]
           /\ call' = [call EXCEPT ![s] = [NoCall EXCEPT !.op = "submit", !.worker = w, !.att = a]]
    BY DEF Start
  <1>2. w \in Workers
    BY TypeNames DEF CallState
  <1>3. /\ worker[w].phase = "idle" /\ att[a].status = "none"
        /\ \A b \in Attempts : att[b].worker = w => ~ Live(b)
        /\ call[s].ids \subseteq queue[w]
        /\ Parent[w] \in Workers => \/ worker[Parent[w]].phase = "running"
                                     \/ worker[Parent[w]].reason \notin CancelReasons
    BY <1>1 DEF Start, First, Unused, Admitted, AttemptsOf, Live
  <1>4. /\ att'[a] = [worker |-> w, by |-> s, status |-> "running", outcome |-> "none"]
        /\ \A b \in Attempts : b # a => att'[b] = att[b]
    BY <1>1, TypeNames DEF StartWorkerAttempt
  <1>5. /\ worker'[w].phase = "running" /\ worker'[w].reason = "none"
        /\ \A v \in Workers : v # w => worker'[v] = worker[v]
    <2>1. worker' = [worker EXCEPT ![w].phase = "running", ![w].reason = "none"]
      BY <1>1 DEF StartWorkerAttempt
    <2>2. worker'[w] = [worker[w] EXCEPT !.phase = "running", !.reason = "none"]
      BY <1>2, <2>1, TypeNames
    <2>3. worker'[w].phase = "running" /\ worker'[w].reason = "none"
      BY <1>2, <2>2, TypeNames DEF WorkerRow
    <2>4. \A v \in Workers : v # w => worker'[v] = worker[v]
      BY <1>2, <2>1, TypeNames
    <2> QED
      BY <2>3, <2>4
  <1>6. /\ exec'[a].pc = "starting" /\ exec'[a].result = exec[a].result
        /\ \A b \in Attempts : b # a => exec'[b] = exec[b]
    BY <1>1, TypeNames DEF ExecState
  <1>7. /\ used'[a] = call[s].ids /\ \A b \in Attempts : b # a => used'[b] = used[b]
        /\ queue'[w] = queue[w] \ call[s].ids /\ \A v \in Workers : v # w => queue'[v] = queue[v]
    BY <1>1, <1>2, TypeNames DEF StartWorkerAttempt
  <1>8. /\ call'[s].op = "submit" /\ call'[s].att = a
        /\ \A z \in Services : z # s => call'[z] = call[z]
    <2>1. /\ [NoCall EXCEPT !.op = "submit", !.worker = w, !.att = a].op = "submit"
          /\ [NoCall EXCEPT !.op = "submit", !.worker = w, !.att = a].att = a
      BY DEF NoCall
    <2> QED
      BY <1>1, <2>1, TypeNames
  <1> QED
    BY <1>2, <1>3, <1>4, <1>5, <1>6, <1>7, <1>8 DEF Started

\* A settlement and what its caller knows: a success has its envelope, a lost attempt no thread, and
\* without failing adapters and shutdowns nobody settles a running attempt as cancelled.
Settles(a, o, r) ==
    /\ SettleWorker(a, o, r)
    /\ o = "success" => envelope[a] = "succeeded" /\ exec[a].pc = "persisted"
    /\ o = "lost" => exec[a].pc \notin Active
    /\ environment \cap {"fail", "close"} = {} /\ r \in CancelReasons => ~ Live(a)

\* Every step is one of these for the two tables.
LEMMA RowSteps ==
  ASSUME IInv, Next
  PROVE  \/ UNCHANGED <<att, worker>>
         \/ \E s \in Services : Start(s)
         \/ \E s \in Services, w \in Workers : CreateWorker(s, w)
         \/ \E w \in Workers : CancelWorkerTree(w)
         \/ \E a \in Attempts, o \in Outcomes, r \in Reasons : Settles(a, o, r)
  <1> DEFINE Goal == \/ UNCHANGED <<att, worker>>
                     \/ \E s \in Services : Start(s)
                     \/ \E s \in Services, w \in Workers : CreateWorker(s, w)
                     \/ \E w \in Workers : CancelWorkerTree(w)
                     \/ \E a \in Attempts, o \in Outcomes, r \in Reasons : Settles(a, o, r)
  <1>0. /\ TypeOK /\ CallOwnsAttempt /\ ReconciledIsUnheld /\ ActiveHoldsLock /\ ResultFits
        /\ EnvelopeFits /\ CancelledHasEnded
        /\ {"failure", "stopped", "lost", "success"} \subseteq Outcomes
        /\ {"runtime_error", "cancelled", "restart", "process_cleanup", "timeout", "none"} \subseteq Reasons
    BY DEF IInv, Outcomes, Reasons
  <1>1. ASSUME NEW s \in Services, ServiceStep(s) PROVE Goal
    <2>1. CASE AbandonChild(s)
      <3>1. call[s].worker \in Workers
        BY <1>0, TypeNames DEF CallState
      <3> QED
        BY <2>1, <3>1 DEF AbandonChild
    <2>2. CASE StartFails(s)
      <3>1. Settles(call[s].att, "failure", "runtime_error")
        BY <2>2 DEF StartFails, Settles, CancelReasons
      <3>2. call[s].att \in Attempts
        BY <1>0, <2>2 DEF StartFails, CallOwnsAttempt
      <3> QED
        BY <1>0, <3>1, <3>2
    <2> QED
      BY <1>1, <2>1, <2>2 DEF ServiceStep, StartRefused, Submit, rows
  <1>2. ASSUME NEW s \in Services, ReconcileSettle(s) PROVE Goal
    <2> DEFINE a == recon[s]
    <2>1. a \in Attempts
      BY <1>0, <1>2, TypeNames, Constants DEF ReconcileSettle, Attempts
    <2>2. exec[a].pc \notin Active
      BY <1>0, <1>2, <2>1 DEF ReconcileSettle, ReconciledIsUnheld, ActiveHoldsLock
    <2>3. CASE SettleWorker(a, "lost", "restart")
      <3>1. Settles(a, "lost", "restart")
        BY <2>2, <2>3 DEF Settles, CancelReasons
      <3> QED
        BY <1>0, <2>1, <3>1
    <2> QED
      BY <1>2, <2>3 DEF ReconcileSettle, ReconcileWorkers
  <1>3. ASSUME NEW s \in Services, NEW a \in Attempts, CleanupOne(s, a) PROVE Goal
    <2>1. CASE closed[s] /\ SettleWorker(a, "stopped", "cancelled")
      <3>1. Settles(a, "stopped", "cancelled")
        BY <1>0, <2>1 DEF Settles, CancelledHasEnded
      <3> QED
        BY <1>0, <3>1
    <2> QED
      BY <1>3, <2>1 DEF CleanupOne
  <1>4. ASSUME NEW a \in Attempts, ThreadStep(a) PROVE Goal
    <2>1. CASE Settle(a)
      <3>1. /\ exec[a].result \in {"succeeded", "failed", "cancelled"} /\ envelope[a] = exec[a].result
            /\ SettleWorker(a, OutcomeOf(exec[a].result), ReasonOf(exec[a].result))
        BY <1>0, <2>1 DEF Settle, At, ResultFits, EnvelopeFits
      <3>2. /\ environment \cap {"fail", "close"} = {} /\ exec[a].result = "cancelled" => ~ Live(a)
        BY <1>0 DEF CancelledHasEnded
      <3>3. CASE exec[a].result = "succeeded"
        <4>1. Settles(a, "success", "none")
          BY <2>1, <3>1, <3>3 DEF Settles, Settle, At, OutcomeOf, ReasonOf, CancelReasons
        <4> QED
          BY <1>0, <4>1
      <3>4. CASE exec[a].result = "failed"
        <4>1. Settles(a, "failure", "runtime_error")
          BY <3>1, <3>4 DEF Settles, OutcomeOf, ReasonOf, CancelReasons
        <4> QED
          BY <1>0, <4>1
      <3>5. CASE exec[a].result = "cancelled"
        <4>1. Settles(a, "stopped", "cancelled")
          BY <3>1, <3>2, <3>5 DEF Settles, OutcomeOf, ReasonOf
        <4> QED
          BY <1>0, <4>1
      <3> QED
        BY <3>1, <3>3, <3>4, <3>5
    <2>2. CASE SettleFailure(a)
      <3> DEFINE o == IF exec[a].result = "cancelled" THEN "stopped" ELSE "failure"
      <3>1. /\ exec[a].result \in {"cancelled", "process_cleanup", "timeout", "runtime_error"}
            /\ SettleWorker(a, o, exec[a].result)
        BY <1>0, <2>2 DEF SettleFailure, At, ResultFits
      <3>2. Settles(a, o, exec[a].result)
        BY <1>0, <3>1 DEF Settles, CancelledHasEnded, CancelReasons
      <3> QED
        BY <1>0, <3>1, <3>2
    <2>3. CASE ~ Settle(a) /\ ~ SettleFailure(a)
      BY <1>4, <2>3 DEF ThreadStep, Enter, Invoke, Spawn, Register, Observe, Released, Return, Collect,
         Persist, Fallback, Cleanup, Leave, rows
    <2> QED
      BY <2>1, <2>2, <2>3
  <1>5. ASSUME NEW s \in Services, NEW w \in Workers,
               CreateWorker(s, w) \/ ResumeRead(s, w) \/ Cancel(s, w)
        PROVE  Goal
    BY <1>5 DEF ResumeRead, Cancel, rows
  <1>6. ASSUME NEW s \in Services, Close(s) \/ Crash(s) PROVE Goal
    BY <1>6 DEF Close, Crash, rows
  <1>7. ASSUME NEW s \in Services, NEW a \in Attempts, ReconcileLock(s, a) PROVE Goal
    BY <1>7 DEF ReconcileLock, rows
  <1>8. ASSUME NEW a \in Attempts, ProcessExits(a) PROVE Goal
    BY <1>8 DEF ProcessExits, rows
  <1>9. ASSUME NEW w \in Workers, Send(w) PROVE Goal
    BY <1>9 DEF Send
  <1> QED
    BY <1>1, <1>2, <1>3, <1>4, <1>5, <1>6, <1>7, <1>8, <1>9 DEF Next, Steps

\* The identity of an attempt is fixed when it is started; its status moves forward.
LEMMA AttemptsKeepIdentity ==
  ASSUME IInv, Next, NEW a \in Attempts
  PROVE  /\ att[a].status # "none" => /\ att'[a].by = att[a].by /\ att'[a].worker = att[a].worker
                                       /\ att'[a].status # "none"
         /\ Live(a)' => Live(a) \/ att[a].status = "none"
         /\ att[a].status = "none" /\ att'[a] # att[a]
               => \E s \in Services : Start(s) /\ att'[a].by = s /\ Live(a)' /\ att'[a].outcome = "none"
  <1>0. TypeOK
    BY DEF IInv
  <1>1. ASSUME NEW s \in Services, NEW b \in Attempts, Start(s), Started(s, b)
        PROVE  /\ att[a].status # "none" => att'[a] = att[a]
               /\ Live(a)' => Live(a) \/ att[a].status = "none"
               /\ att[a].status = "none" /\ att'[a] # att[a]
                     => Start(s) /\ att'[a].by = s /\ Live(a)' /\ att'[a].outcome = "none"
    BY <1>1 DEF Live, Started
  <1>2. CASE \E s \in Services : Start(s)
    BY <1>0, <1>1, <1>2, StartEffect
  <1>3. CASE \E w \in Workers : CancelWorkerTree(w)
    BY <1>0, <1>3, CancelEffect DEF Live
  <1>4. CASE \E b \in Attempts, o \in Outcomes, r \in Reasons : Settles(b, o, r)
    BY <1>0, <1>4, SettleEffect DEF Live, Settles
  <1>5. CASE UNCHANGED att
    BY <1>5 DEF Live
  <1> QED
    BY <1>2, <1>3, <1>4, <1>5, RowSteps DEF CreateWorker

-----------------------------------------------------------------------------
(* What a step does to threads, envelopes, processes and prompts.              *)

\* Only these steps move a thread.
LEMMA ExecSteps ==
  ASSUME Next
  PROVE  \/ UNCHANGED exec
         \/ \E s \in Services : Start(s) \/ Submit(s) \/ StartFails(s) \/ Crash(s)
         \/ \E a \in Attempts : ThreadStep(a)
  BY DEF Next, Steps, ServiceStep, StartRefused, AbandonChild, Close, ReconcileSettle, CreateWorker,
         ResumeRead, Cancel, CleanupOne, ReconcileLock, ProcessExits, Send

\* Steps outside the threads store no envelope, start no process and forget none that lives.
LEMMA OtherSteps ==
  ASSUME IInv, Next, \A a \in Attempts : ~ ThreadStep(a)
  PROVE  /\ UNCHANGED <<envelope, unclean>>
         /\ registered' \subseteq registered /\ alive' \subseteq alive
         /\ alive' \ registered' \subseteq alive \ registered
  <1>0. TypeOK
    BY DEF IInv
  <1>u. UNCHANGED unclean
    BY DEF Next, Steps, ServiceStep, Start, StartRefused, AbandonChild, Submit, StartFails, Close, Crash, ReconcileSettle,
           CreateWorker, ResumeRead, Cancel, CleanupOne, ReconcileLock, ProcessExits, Send
  <1>1. ASSUME NEW s \in Services, ReconcileSettle(s)
        PROVE  /\ UNCHANGED envelope
               /\ registered' \subseteq registered /\ alive' \subseteq alive
               /\ alive' \ registered' \subseteq alive \ registered
    <2>1. recon[s] \in Attempts
      BY <1>0, <1>1, TypeNames, Constants DEF ReconcileSettle, Attempts
    <2>2. Cleaned(recon[s]) \/ CleanupFails(recon[s])
      BY <1>1 DEF ReconcileSettle
    <2>3. registered \subseteq Attempts /\ alive \subseteq Attempts
      BY <1>0, TypeNames
    <2> QED
      BY <1>1, <2>1, <2>2, <2>3, CleanupEffect DEF ReconcileSettle
  <1>2. ASSUME NEW s \in Services, NEW a \in Attempts, CleanupOne(s, a)
        PROVE  /\ UNCHANGED envelope
               /\ registered' \subseteq registered /\ alive' \subseteq alive
               /\ alive' \ registered' \subseteq alive \ registered
    <2>1. registered \subseteq Attempts /\ alive \subseteq Attempts
      BY <1>0, TypeNames
    <2> QED
      BY <1>2, <2>1, CleanupEffect DEF CleanupOne
  <1>3. CASE UNCHANGED <<envelope, registered, alive>>
    BY <1>u, <1>3
  <1>4. ASSUME NEW a \in Attempts, ProcessExits(a)
        PROVE  /\ UNCHANGED envelope
               /\ registered' \subseteq registered /\ alive' \subseteq alive
               /\ alive' \ registered' \subseteq alive \ registered
    BY <1>4 DEF ProcessExits, rows
  <1> QED
    BY <1>u, <1>1, <1>2, <1>3, <1>4 DEF Next, Steps, ServiceStep, Start, StartRefused, AbandonChild, Submit,
       StartFails, Close, Crash, CreateWorker, ResumeRead, Cancel, ReconcileLock, Send, rows, process

\* Prompts are written by Start alone.
LEMMA PromptSteps ==
  ASSUME Next
  PROVE  UNCHANGED used \/ \E s \in Services : Start(s)
  BY DEF Next, Steps, ServiceStep, StartRefused, AbandonChild, Submit, StartFails, Close, Crash,
         ReconcileSettle, CreateWorker, ResumeRead, Cancel, CleanupOne, ReconcileLock, ProcessExits, Send,
         ThreadStep, Enter, Invoke, Spawn, Register, Observe, Released, Return, Collect, Persist, Settle,
         Fallback, SettleFailure, Cleanup, Leave, rows

\* A crash ends the threads of its service and no other.
LEMMA CrashEffect ==
  ASSUME TypeOK, NEW s \in Services, Crash(s), NEW a \in Attempts
  PROVE  IF a \in ActiveOf(s)
           THEN /\ exec'[a].pc = IF exec[a].pc = "spawned" THEN "dead_spawned" ELSE "dead"
                /\ exec'[a].result = exec[a].result
           ELSE exec'[a] = exec[a]
  BY TypeNames DEF Crash, ExecState

\* The submission of an attempt, or its failure, moves that attempt only.
LEMMA SubmitEffect ==
  ASSUME TypeOK, CallOwnsAttempt, NEW s \in Services, Submit(s) \/ StartFails(s)
  PROVE  /\ call[s].att \in Attempts /\ exec[call[s].att].pc = "starting" /\ att[call[s].att].by = s
         /\ exec'[call[s].att].pc \in {"queued", "gone"}
         /\ exec'[call[s].att].result = exec[call[s].att].result
         /\ \A b \in Attempts : b # call[s].att => exec'[b] = exec[b]
  <1>1. call[s].att \in Attempts /\ exec[call[s].att].pc = "starting" /\ att[call[s].att].by = s
    BY DEF Submit, StartFails, CallOwnsAttempt
  <1>2. exec' = [exec EXCEPT ![call[s].att].pc = "queued"] \/ exec' = [exec EXCEPT ![call[s].att].pc = "gone"]
    BY DEF Submit, StartFails
  <1> QED
    BY <1>1, <1>2, TypeNames DEF ExecState

\* A thread that moved was started; one that has ended stays ended.
LEMMA ThreadsEndOnce ==
  ASSUME IInv, Next, NEW a \in Attempts, \A s \in Services : ~ Start(s)
  PROVE  /\ exec[a].pc \notin Active => exec'[a] = exec[a]
         /\ exec[a].pc # "none" => exec'[a].pc # "none"
         /\ exec'[a].pc = "starting" => exec[a].pc = "starting"
         /\ exec'[a].pc = "dead_spawned" => exec[a].pc \in {"spawned", "dead_spawned"}
         /\ exec[a].pc = "spawned" => exec'[a].pc \in {"spawned", "dead_spawned"} \/ Register(a)
  <1>0. TypeOK /\ CallOwnsAttempt
    BY DEF IInv
  <1>1. ASSUME NEW b \in Attempts, ThreadStep(b)
        PROVE  /\ exec[a].pc \notin Active => exec'[a] = exec[a]
               /\ exec[a].pc # "none" => exec'[a].pc # "none"
               /\ exec'[a].pc = "starting" => exec[a].pc = "starting"
               /\ exec'[a].pc = "dead_spawned" => exec[a].pc \in {"spawned", "dead_spawned"}
               /\ exec[a].pc = "spawned" => exec'[a].pc \in {"spawned", "dead_spawned"} \/ Register(a)
    BY <1>0, <1>1, ThreadPaths DEF Active, ExecStates
  <1>2. ASSUME NEW s \in Services, Submit(s) \/ StartFails(s)
        PROVE  /\ exec[a].pc \notin Active => exec'[a] = exec[a]
               /\ exec[a].pc # "none" => exec'[a].pc # "none"
               /\ exec'[a].pc = "starting" => exec[a].pc = "starting"
               /\ exec'[a].pc = "dead_spawned" => exec[a].pc \in {"spawned", "dead_spawned"}
               /\ exec[a].pc = "spawned" => exec'[a].pc \in {"spawned", "dead_spawned"} \/ Register(a)
    BY <1>0, <1>2, SubmitEffect DEF Active, ExecStates
  <1>3. ASSUME NEW s \in Services, Crash(s)
        PROVE  /\ exec[a].pc \notin Active => exec'[a] = exec[a]
               /\ exec[a].pc # "none" => exec'[a].pc # "none"
               /\ exec'[a].pc = "starting" => exec[a].pc = "starting"
               /\ exec'[a].pc = "dead_spawned" => exec[a].pc \in {"spawned", "dead_spawned"}
               /\ exec[a].pc = "spawned" => exec'[a].pc \in {"spawned", "dead_spawned"} \/ Register(a)
    BY <1>0, <1>3, CrashEffect DEF ActiveOf
  <1>4. CASE UNCHANGED exec
    BY <1>4
  <1> QED
    BY <1>1, <1>2, <1>3, <1>4, ExecSteps

-----------------------------------------------------------------------------
(* Each part of the invariant is kept.                                         *)

\* A thread that takes a step belongs to a started attempt of a service.
LEMMA ThreadIsStarted ==
  ASSUME IInv, NEW a \in Attempts, exec[a].pc # "none"
  PROVE  att[a].status # "none" /\ att[a].by \in Services
  <1>1. att[a].by \in Services \cup {Nobody} /\ att[a].status # "none"
    BY TypeNames DEF IInv, AttemptRow, UnusedIsBlank, NoExec
  <1> QED
    BY <1>1 DEF IInv, UnusedIsBlank

LEMMA UnusedStep ==
  ASSUME IInv, Next
  PROVE  UnusedIsBlank'
  <1> SUFFICES ASSUME NEW a \in Attempts
               PROVE  /\ att'[a].status = "none" <=> att'[a].by = Nobody
                      /\ exec'[a].pc = "none" => att'[a].status = "none"
                      /\ att'[a].status = "none" =>
                           /\ exec'[a] = NoExec /\ envelope'[a] = "none" /\ att'[a].outcome = "none"
                           /\ used'[a] = {} /\ a \notin registered' /\ a \notin alive'
    BY DEF UnusedIsBlank
  <1>0. TypeOK /\ UnusedIsBlank /\ EnvelopeFits /\ LiveProcessIsRegistered
    BY DEF IInv
  <1>1. ASSUME NEW s \in Services, Start(s)
        PROVE  /\ exec'[a].pc = "none" => att'[a].status = "none"
               /\ att'[a].status = "none" => exec'[a] = exec[a] /\ used'[a] = used[a]
    <2>1. PICK b \in Attempts : Started(s, b)
      BY <1>0, <1>1, StartEffect
    <2> QED
      BY <1>0, <2>1 DEF UnusedIsBlank, Started
  <1>2. ASSUME \A s \in Services : ~ Start(s)
        PROVE  /\ exec'[a].pc = "none" => att'[a].status = "none"
               /\ att'[a].status = "none" => exec'[a] = exec[a] /\ used'[a] = used[a]
    <2>1. exec[a].pc = "none" => att[a].status = "none" /\ att'[a] = att[a]
      BY <1>0, <1>2, AttemptsKeepIdentity DEF UnusedIsBlank
    <2>2. att'[a].status = "none" => att[a].status = "none"
      BY AttemptsKeepIdentity
    <2>3. att[a].status = "none" => exec[a].pc \notin Active
      BY <1>0 DEF UnusedIsBlank, NoExec, Active
    <2> QED
      BY <1>2, <2>1, <2>2, <2>3, ThreadsEndOnce, PromptSteps
  <1>3. ASSUME att'[a].status = "none"
        PROVE  envelope'[a] = "none" /\ a \notin registered' /\ a \notin alive'
    <2>1. /\ att[a].status = "none" /\ envelope[a] = "none" /\ a \notin registered /\ a \notin alive
          /\ exec[a].pc = "none"
      BY <1>0, <1>3, AttemptsKeepIdentity DEF UnusedIsBlank, NoExec
    <2>2. ASSUME NEW b \in Attempts, ThreadStep(b)
          PROVE  envelope'[a] = "none" /\ a \notin registered' /\ a \notin alive'
      <3>1. a # b
        BY <1>0, <2>1, <2>2, ThreadMoves DEF Moves, Active
      <3> QED
        BY <1>0, <2>1, <2>2, <3>1, ThreadStoresEnvelope, ThreadKeepsProcess DEF StoresEnvelope, KeepsProcess
    <2> QED
      BY <2>1, <2>2, OtherSteps
  <1>4. att'[a].status = "none" => att[a].status = "none" /\ att'[a].outcome = "none"
    <2>1. att'[a].status = "none" => att[a].status = "none" /\ att'[a] = att[a]
      BY AttemptsKeepIdentity DEF Live
    <2> QED
      BY <1>0, <2>1 DEF UnusedIsBlank
  <1>5. att'[a].status = "none" <=> att'[a].by = Nobody
    <2>1. CASE att[a].status = "none" /\ att'[a] = att[a]
      BY <1>0, <2>1 DEF UnusedIsBlank
    <2>2. CASE att[a].status = "none" /\ att'[a] # att[a]
      BY <2>2, AttemptsKeepIdentity, Constants DEF Live
    <2>3. CASE att[a].status # "none"
      BY <1>0, <2>3, AttemptsKeepIdentity DEF UnusedIsBlank
    <2> QED
      BY <2>1, <2>2, <2>3
  <1> QED
    BY <1>0, <1>1, <1>2, <1>3, <1>4, <1>5 DEF UnusedIsBlank

\* Calls: only _start begins and ends the state "submit".
LEMMA CallStep ==
  ASSUME IInv, Next
  PROVE  CallOwnsAttempt'
  <1> SUFFICES ASSUME NEW s \in Services, call'[s].op = "submit"
               PROVE  /\ call'[s].att \in Attempts /\ att'[call'[s].att].by = s
                      /\ exec'[call'[s].att].pc = "starting"
    BY DEF CallOwnsAttempt
  <1>0. TypeOK /\ CallOwnsAttempt /\ UnusedIsBlank
    BY DEF IInv
  <1>1. CASE Start(s)
    <2>1. PICK a \in Attempts : Started(s, a)
      BY <1>0, <1>1, StartEffect
    <2> QED
      BY <2>1 DEF Started
  <1>2. ASSUME NEW z \in Services, z # s, Start(z)
        PROVE  /\ call'[s].att \in Attempts /\ att'[call'[s].att].by = s
               /\ exec'[call'[s].att].pc = "starting"
    <2>1. PICK a \in Attempts : Started(z, a)
      BY <1>0, <1>2, StartEffect
    <2>2. call'[s] = call[s] /\ att[a].status = "none"
      BY <1>2, <2>1 DEF Started
    <2>3. call[s].att \in Attempts /\ att[call[s].att].by = s /\ exec[call[s].att].pc = "starting"
      BY <1>0, <2>2 DEF CallOwnsAttempt
    <2>4. a # call[s].att
      BY <1>0, <2>2, <2>3 DEF UnusedIsBlank, NoExec
    <2> QED
      BY <2>1, <2>2, <2>3, <2>4 DEF Started
  <1>3. CASE \A z \in Services : ~ Start(z)
    <2>1. call'[s] = call[s]
      <3>1. call \in [Services -> CallState] /\ NoCall.op = "none"
        BY <1>0, TypeNames DEF NoCall
      <3>2. ASSUME NEW z \in Services, NEW r, call' = [call EXCEPT ![z] = r], r.op # "submit"
            PROVE  call'[s] = call[s]
        BY <3>1, <3>2
      <3>3. \A w \in Workers : /\ [NoCall EXCEPT !.op = "dispatch", !.worker = w].op # "submit"
                                /\ [NoCall EXCEPT !.op = "refused", !.worker = w].op # "submit"
        BY DEF NoCall
      <3>4. \A z \in Services : call[z].worker \in Workers
        BY <3>1 DEF CallState
      <3>5. ASSUME NEW z \in Services, ServiceStep(z) \/ Close(z) \/ Crash(z) \/ ReconcileSettle(z)
            PROVE  call'[s] = call[s]
        <4>1. CASE StartRefused(z)
          <5> DEFINE r == [NoCall EXCEPT !.op = "refused", !.worker = call[z].worker]
          <5>1. call' = [call EXCEPT ![z] = r] \/ call' = [call EXCEPT ![z] = NoCall]
            BY <4>1 DEF StartRefused
          <5>2. r.op # "submit"
            BY <3>3, <3>4
          <5> HIDE DEF r
          <5> QED
            BY <3>1, <3>2, <5>1, <5>2
        <4>2. CASE AbandonChild(z) \/ Submit(z) \/ StartFails(z) \/ Crash(z)
          <5>1. call' = [call EXCEPT ![z] = NoCall]
            BY <4>2 DEF AbandonChild, Submit, StartFails, Crash
          <5> QED
            BY <3>1, <3>2, <5>1
        <4> QED
          BY <1>3, <3>5, <4>1, <4>2 DEF ServiceStep, Close, ReconcileSettle
      <3>6. ASSUME NEW z \in Services, NEW w \in Workers,
                   CreateWorker(z, w) \/ ResumeRead(z, w) \/ Cancel(z, w)
            PROVE  call'[s] = call[s]
        <4> DEFINE d == [NoCall EXCEPT !.op = "dispatch", !.worker = w]
                   q == [op |-> "resume", worker |-> w, ids |-> queue[w], att |-> 0]
        <4>1. call' = call \/ call' = [call EXCEPT ![z] = d] \/ call' = [call EXCEPT ![z] = q]
          BY <3>6 DEF CreateWorker, ResumeRead, Cancel
        <4>2. d.op # "submit" /\ q.op # "submit"
          BY <3>3
        <4> HIDE DEF d, q
        <4> QED
          BY <3>2, <4>1, <4>2
      <3>7. ASSUME NEW a \in Attempts, ThreadStep(a) PROVE call'[s] = call[s]
        BY <3>7 DEF ThreadStep, Enter, Invoke, Spawn, Register, Observe, Released, Return, Collect,
           Persist, Settle, Fallback, SettleFailure, Cleanup, Leave, ThreadFrame, services
      <3> QED
        BY <3>5, <3>6, <3>7 DEF Next, Steps, CleanupOne, ReconcileLock, ProcessExits, Send, services
    <2> DEFINE a == call[s].att
    <2>2. a \in Attempts /\ att[a].by = s /\ exec[a].pc = "starting"
      BY <1>0, <2>1 DEF CallOwnsAttempt
    <2>3. att'[a].by = s
      BY <2>2, ThreadIsStarted, AttemptsKeepIdentity
    <2>4. exec'[a].pc = "starting"
      <3>1. ASSUME NEW b \in Attempts, ThreadStep(b) PROVE exec'[a].pc = "starting"
        BY <1>0, <2>2, <3>1, ThreadMoves DEF Moves
      <3>2. ASSUME NEW z \in Services, Submit(z) \/ StartFails(z) PROVE exec'[a].pc = "starting"
        <4>1. z # s
          BY <1>0, <2>1, <3>2, TypeNames DEF Submit, StartFails, NoCall
        <4> QED
          BY <1>0, <2>2, <3>2, <4>1, SubmitEffect
      <3>3. ASSUME NEW z \in Services, Crash(z) PROVE exec'[a].pc = "starting"
        <4>1. z # s
          BY <1>0, <2>1, <3>3, TypeNames DEF Crash, NoCall
        <4> QED
          BY <1>0, <2>2, <3>3, <4>1, CrashEffect DEF ActiveOf
      <3> QED
        BY <1>3, <2>2, <3>1, <3>2, <3>3, ExecSteps
    <2> QED
      BY <2>1, <2>2, <2>3, <2>4
  <1> QED
    BY <1>1, <1>2, <1>3

\* The owner lock is taken by a start and dropped by the last execution that ends, or by a crash.
LEMMA HeldSteps ==
  ASSUME Next
  PROVE  \/ UNCHANGED held
         \/ \E s \in Services : Start(s) \/ StartFails(s) \/ Crash(s)
         \/ \E a \in Attempts : Leave(a)
  BY DEF Next, Steps, ServiceStep, StartRefused, AbandonChild, Submit, Close, ReconcileSettle, CreateWorker,
         ResumeRead, Cancel, CleanupOne, ReconcileLock, ProcessExits, Send, ThreadStep, Enter, Invoke, Spawn,
         Register, Observe, Released, Return, Collect, Persist, Settle, Fallback, SettleFailure, Cleanup,
         ThreadFrame, services

LEMMA ReconSteps ==
  ASSUME Next
  PROVE  \/ UNCHANGED recon
         \/ \E s \in Services : ReconcileSettle(s) \/ Crash(s) \/ \E a \in Attempts : ReconcileLock(s, a)
  BY DEF Next, Steps, ServiceStep, Start, StartRefused, AbandonChild, Submit, StartFails, Close,
         CreateWorker, ResumeRead, Cancel, CleanupOne, ProcessExits, Send, ThreadStep, Enter, Invoke, Spawn,
         Register, Observe, Released, Return, Collect, Persist, Settle, Fallback, SettleFailure, Cleanup,
         Leave, ThreadFrame, services

\* A service that still has an execution keeps its lock.
LEMMA LockStep ==
  ASSUME IInv, Next
  PROVE  ActiveHoldsLock'
  <1> SUFFICES ASSUME NEW a \in Attempts, exec'[a].pc \in Active
               PROVE  held'[att'[a].by]
    BY DEF ActiveHoldsLock, Active, ExecStates
  <1>0. /\ TypeOK /\ CallOwnsAttempt /\ ActiveHoldsLock
        /\ held \in [Services -> BOOLEAN]
    BY TypeNames DEF IInv
  <1>1. ASSUME NEW s \in Services, Start(s) PROVE held'[att'[a].by]
    <2>1. PICK b \in Attempts : Started(s, b)
      BY <1>0, <1>1, StartEffect
    <2>2. held' = [held EXCEPT ![s] = TRUE]
      BY <1>1 DEF Start
    <2>3. CASE a = b
      BY <1>0, <2>1, <2>2, <2>3 DEF Started
    <2>4. CASE a # b
      <3>1. att'[a] = att[a] /\ exec'[a] = exec[a]
        BY <2>1, <2>4 DEF Started
      <3>2. held[att[a].by] /\ att[a].by \in Services
        BY <1>0, <3>1, ThreadIsStarted DEF ActiveHoldsLock, Active
      <3> QED
        BY <1>0, <2>2, <3>1, <3>2
    <2> QED
      BY <2>3, <2>4
  <1>2. CASE \A s \in Services : ~ Start(s)
    <2>1. exec[a].pc \in Active
      BY <1>2, ThreadsEndOnce
    <2>2. att[a].by \in Services /\ att'[a].by = att[a].by /\ held[att[a].by]
      BY <1>0, <2>1, ThreadIsStarted, AttemptsKeepIdentity DEF ActiveHoldsLock, Active
    <2>3. ASSUME NEW s \in Services, Crash(s) PROVE held'[att[a].by]
      <3>1. s # att[a].by
        <4>1. a \notin ActiveOf(s)
          BY <1>0, <2>3, CrashEffect DEF Active
        <4> QED
          BY <2>1, <4>1 DEF ActiveOf
      <3> QED
        BY <1>0, <2>2, <2>3, <3>1 DEF Crash
    <2>4. ASSUME NEW s \in Services, NEW b \in Attempts, ReleaseIdleOwner(s, ActiveOf(s) \ {b}), a # b
          PROVE  held'[att[a].by]
      <3>1. a \in ActiveOf(att[a].by)
        BY <2>1 DEF ActiveOf
      <3> QED
        BY <1>0, <2>2, <2>4, <3>1 DEF ReleaseIdleOwner
    <2>5. ASSUME NEW s \in Services, StartFails(s) PROVE held'[att[a].by]
      <3>1. call[s].att \in Attempts
        BY <1>0, <2>5 DEF StartFails, CallOwnsAttempt
      <3>2. exec'[call[s].att].pc = "gone"
        BY <1>0, <2>5, <3>1, TypeNames DEF StartFails, ExecState
      <3>3. a # call[s].att
        BY <3>2 DEF Active
      <3> QED
        BY <2>4, <2>5, <3>1, <3>3 DEF StartFails
    <2>6. ASSUME NEW b \in Attempts, Leave(b) PROVE held'[att[a].by]
      <3>1. att[b].by \in Services
        BY <2>6, ThreadIsStarted DEF Leave, At
      <3>2. exec'[b].pc = "gone"
        BY <1>0, <2>6, GotoEffect DEF Leave
      <3>3. a # b
        BY <3>2 DEF Active
      <3> QED
        BY <2>4, <2>6, <3>1, <3>3 DEF Leave
    <2> QED
      BY <1>2, <2>2, <2>3, <2>5, <2>6, HeldSteps
  <1> QED
    BY <1>1, <1>2

\* A service cannot take its lock back while one of its attempts is being reconciled.
LEMMA ReconStep ==
  ASSUME IInv, Next
  PROVE  ReconciledIsUnheld'
  <1> SUFFICES ASSUME NEW s \in Services, recon'[s] # 0
               PROVE  att'[recon'[s]].by \in Services /\ ~ held'[att'[recon'[s]].by]
    BY DEF ReconciledIsUnheld
  <1>0. /\ TypeOK /\ ReconciledIsUnheld /\ UnusedIsBlank /\ recon \in [Services -> 0 .. NumAttempts]
        /\ held \in [Services -> BOOLEAN]
    BY TypeNames DEF IInv
  <1>1. ASSUME NEW a \in Attempts, ReconcileLock(s, a)
        PROVE  att'[recon'[s]].by \in Services /\ ~ held'[att'[recon'[s]].by]
    BY <1>0, <1>1 DEF ReconcileLock, rows
  <1>2. CASE recon'[s] = recon[s]
    <2> DEFINE a == recon[s]
    <2>1. a \in Attempts
      BY <1>0, <1>2, Constants DEF Attempts
    <2>2. att[a].by \in Services /\ ~ held[att[a].by]
      BY <1>0, <1>2 DEF ReconciledIsUnheld
    <2>3. att'[a].by = att[a].by
      BY <1>0, <2>1, <2>2, Constants, AttemptsKeepIdentity DEF UnusedIsBlank
    <2>4. Reconciled(att[a].by)
      BY <1>2 DEF Reconciled
    <2>5. ASSUME NEW z \in Services, Start(z) PROVE ~ held'[att[a].by]
      <3>1. z # att[a].by
        BY <2>2, <2>4, <2>5 DEF Start
      <3> QED
        BY <1>0, <2>2, <2>5, <3>1 DEF Start
    <2>6. ASSUME NEW z \in Services, StartFails(z) \/ Crash(z) PROVE ~ held'[att[a].by]
      BY <1>0, <2>2, <2>6 DEF StartFails, Crash, ReleaseIdleOwner
    <2>7. ASSUME NEW b \in Attempts, Leave(b) PROVE ~ held'[att[a].by]
      BY <1>0, <2>2, <2>7 DEF Leave, ReleaseIdleOwner
    <2> QED
      BY <1>2, <2>2, <2>3, <2>5, <2>6, <2>7, HeldSteps
  <1>3. ASSUME NEW z \in Services, ReconcileSettle(z) \/ Crash(z) PROVE recon'[s] = recon[s]
    BY <1>0, <1>3 DEF ReconcileSettle, Crash
  <1>4. ASSUME NEW z \in Services, NEW a \in Attempts, ReconcileLock(z, a), z # s PROVE recon'[s] = recon[s]
    BY <1>0, <1>4 DEF ReconcileLock
  <1> QED
    BY <1>1, <1>2, <1>3, <1>4, ReconSteps

\* A lost attempt has no thread, and no thread comes back.
LEMMA LostStep ==
  ASSUME IInv, Next
  PROVE  LostMeansAbandoned'
  <1> SUFFICES ASSUME NEW a \in Attempts, att'[a].outcome = "lost"
               PROVE  exec'[a].pc \notin Active
    BY DEF LostMeansAbandoned, Active, ExecStates
  <1>0. TypeOK /\ LostMeansAbandoned /\ UnusedIsBlank
    BY DEF IInv
  <1>1. ASSUME NEW s \in Services, Start(s) PROVE exec'[a].pc \notin Active
    <2>1. PICK b \in Attempts : Started(s, b)
      BY <1>0, <1>1, StartEffect
    <2>2. a # b /\ att'[a] = att[a] /\ exec'[a] = exec[a]
      BY <2>1 DEF Started
    <2> QED
      BY <1>0, <2>2 DEF LostMeansAbandoned
  <1>2. CASE \A s \in Services : ~ Start(s)
    <2>1. exec[a].pc \notin Active
      <3>1. CASE att[a].outcome = "lost"
        BY <1>0, <3>1 DEF LostMeansAbandoned
      <3>2. CASE att[a].outcome # "lost"
        <4>1. \A w \in Workers : ~ CancelWorkerTree(w)
          BY <1>0, <3>2, CancelEffect
        <4>2. ASSUME NEW b \in Attempts, NEW o \in Outcomes, NEW r \in Reasons, Settles(b, o, r)
              PROVE  exec[a].pc \notin Active
          <5>0. SettleWorker(b, o, r)
            BY <4>2 DEF Settles
          <5>1. att'[a] = att[a] \/ (a = b /\ att'[a].outcome = o)
            BY <1>0, <5>0, SettleEffect
          <5>2. a = b /\ o = "lost"
            BY <3>2, <5>1
          <5> QED
            BY <4>2, <5>2 DEF Settles
        <4>3. ~ UNCHANGED att
          BY <3>2
        <4>4. \A s \in Services, w \in Workers : ~ CreateWorker(s, w)
          BY <4>3 DEF CreateWorker
        <4> QED
          <5>1. \E b \in Attempts, o \in Outcomes, r \in Reasons : Settles(b, o, r)
            BY <1>2, <4>1, <4>3, <4>4, RowSteps
          <5> QED
            BY <4>2, <5>1
      <3> QED
        BY <3>1, <3>2
    <2> QED
      BY <1>2, <2>1, ThreadsEndOnce
  <1> QED
    BY <1>1, <1>2

\* Without a start, a submission and a failed start, an attempt keeps its result unless its thread moves.
LEMMA ResultSteps ==
  ASSUME IInv, Next, NEW a \in Attempts
  PROVE  \/ ThreadStep(a)
         \/ /\ exec'[a].result = exec[a].result
            /\ exec'[a].pc = exec[a].pc \/ exec'[a].pc \in {"starting", "queued", "gone", "dead", "dead_spawned"}
            /\ exec'[a].pc \in Unpersisted => exec[a].pc \in Unpersisted
  <1> DEFINE Same == /\ exec'[a].result = exec[a].result
                     /\ exec'[a].pc = exec[a].pc
                           \/ exec'[a].pc \in {"starting", "queued", "gone", "dead", "dead_spawned"}
                     /\ exec'[a].pc \in Unpersisted => exec[a].pc \in Unpersisted
  <1>0. TypeOK /\ CallOwnsAttempt /\ UnusedIsBlank
    BY DEF IInv
  <1>1. ASSUME NEW s \in Services, Start(s) PROVE Same
    <2>1. PICK b \in Attempts : Started(s, b)
      BY <1>0, <1>1, StartEffect
    <2>2. CASE a = b
      <3>1. exec[a].pc = "none"
        BY <1>0, <2>1, <2>2 DEF Started, UnusedIsBlank, NoExec
      <3> QED
        BY <2>1, <2>2, <3>1 DEF Started, Unpersisted
    <2>3. CASE a # b
      BY <2>1, <2>3 DEF Started
    <2> QED
      BY <2>2, <2>3
  <1>2. ASSUME NEW s \in Services, Submit(s) \/ StartFails(s) PROVE Same
    BY <1>0, <1>2, SubmitEffect DEF Unpersisted
  <1>3. ASSUME NEW s \in Services, Crash(s) PROVE Same
    BY <1>0, <1>3, CrashEffect DEF Unpersisted
  <1>4. ASSUME NEW b \in Attempts, ThreadStep(b), a # b PROVE Same
    BY <1>0, <1>4, ThreadMoves DEF Moves
  <1>5. ASSUME UNCHANGED exec PROVE Same
    BY <1>5
  <1> HIDE DEF Same
  <1>6. ASSUME NEW b \in Attempts, ThreadStep(b) PROVE ThreadStep(a) \/ Same
    BY <1>4, <1>6
  <1>7. ThreadStep(a) \/ Same
    <2>1. CASE \E s \in Services : Start(s) \/ Submit(s) \/ StartFails(s) \/ Crash(s)
      BY <1>1, <1>2, <1>3, <2>1
    <2>2. CASE \E b \in Attempts : ThreadStep(b)
      BY <1>6, <2>2
    <2> QED
      BY <1>5, <2>1, <2>2, ExecSteps
  <1> QED
    BY <1>7 DEF Same

LEMMA ResultStep ==
  ASSUME IInv, Next
  PROVE  ResultFits'
  <1> SUFFICES ASSUME NEW a \in Attempts
               PROVE  /\ exec'[a].pc \in {"returned", "collected", "persisted"}
                            => exec'[a].result \in {"succeeded", "failed", "cancelled"}
                      /\ exec'[a].pc \in {"failing", "failed"}
                            => exec'[a].result \in {"cancelled", "process_cleanup", "timeout", "runtime_error"}
    BY DEF ResultFits
  <1>0. TypeOK /\ ResultFits /\ CancelledHasEnded
    BY DEF IInv
  <1>1. CASE ThreadStep(a)
    <2>1. att[a].by \in Services
      BY <1>0, <1>1, ThreadMoves, ThreadIsStarted DEF Moves, Active
    <2> QED
      BY <1>0, <1>1, <2>1, ThreadCarriesResult DEF CarriesResult
  <1>2. CASE ~ ThreadStep(a)
    BY <1>0, <1>2, ResultSteps DEF ResultFits
  <1> QED
    BY <1>1, <1>2

\* Envelopes change by their own thread only, and once stored they stay.
LEMMA EnvelopesStay ==
  ASSUME IInv, Next, NEW a \in Attempts
  PROVE  /\ envelope[a] # "none" => envelope'[a] = envelope[a]
         /\ ~ ThreadStep(a) => envelope'[a] = envelope[a]
  <1>0. TypeOK /\ EnvelopeFits
    BY DEF IInv
  <1>1. ASSUME NEW b \in Attempts, ThreadStep(b)
        PROVE  b # a \/ envelope[a] # "none" => envelope'[a] = envelope[a]
    BY <1>0, <1>1, ThreadStoresEnvelope DEF StoresEnvelope
  <1> QED
    BY <1>1, OtherSteps

LEMMA EnvelopeStep ==
  ASSUME IInv, Next
  PROVE  EnvelopeFits'
  <1> SUFFICES ASSUME NEW a \in Attempts
               PROVE  /\ exec'[a].pc \in Unpersisted => envelope'[a] = "none"
                      /\ exec'[a].pc = "persisted" => envelope'[a] = exec'[a].result
    BY DEF EnvelopeFits, Unpersisted
  <1>0. TypeOK /\ EnvelopeFits
    BY DEF IInv
  <1>1. CASE ThreadStep(a)
    BY <1>0, <1>1, ThreadStoresEnvelope DEF StoresEnvelope
  <1>2. CASE ~ ThreadStep(a)
    BY <1>0, <1>2, ResultSteps, EnvelopesStay DEF EnvelopeFits
  <1> QED
    BY <1>1, <1>2

LEMMA SuccessStep ==
  ASSUME IInv, Next
  PROVE  SuccessHasEnvelope'
  <1> SUFFICES ASSUME NEW a \in Attempts, att'[a].outcome = "success"
               PROVE  envelope'[a] = "succeeded"
    BY DEF SuccessHasEnvelope
  <1>0. TypeOK /\ SuccessHasEnvelope
    BY DEF IInv
  <1>1. envelope[a] = "succeeded"
    <2>1. CASE att'[a] = att[a]
      BY <1>0, <2>1 DEF SuccessHasEnvelope
    <2>2. CASE att'[a] # att[a]
      <3>1. ASSUME NEW s \in Services, Start(s) PROVE FALSE
        <4>1. PICK b \in Attempts : Started(s, b)
          BY <1>0, <3>1, StartEffect
        <4> QED
          BY <2>2, <4>1 DEF Started
      <3>2. ASSUME NEW w \in Workers, CancelWorkerTree(w) PROVE FALSE
        BY <1>0, <2>2, <3>2, CancelEffect
      <3>3. ASSUME NEW b \in Attempts, NEW o \in Outcomes, NEW r \in Reasons, Settles(b, o, r)
            PROVE  envelope[a] = "succeeded"
        BY <1>0, <2>2, <3>3, SettleEffect DEF Settles
      <3>4. ~ UNCHANGED att
        BY <2>2
      <3>5. \A s \in Services, w \in Workers : ~ CreateWorker(s, w)
        BY <3>4 DEF CreateWorker
      <3> QED
        BY <3>1, <3>2, <3>3, <3>4, <3>5, RowSteps
    <2> QED
      BY <2>1, <2>2
  <1> QED
    BY <1>1, EnvelopesStay

\* Racing starts, settlements and cancellations leave one running attempt for a running worker.
LEMMA RunningStep ==
  ASSUME IInv, Next
  PROVE  OneRunning'
  <1>0. /\ TypeOK /\ OneRunning
        /\ \A a \in Attempts : att[a].worker \in Workers
    BY TypeNames DEF IInv, AttemptRow
  <1>1. ASSUME NEW s \in Services, Start(s) PROVE OneRunning'
    <2>1. PICK a \in Attempts : Started(s, a)
      BY <1>0, <1>1, StartEffect
    <2> DEFINE w == call[s].worker
    <2>2. /\ att'[a].worker = w /\ att'[a].status = "running"
          /\ \A b \in Attempts : b # a => att'[b] = att[b]
          /\ \A b \in Attempts : att[b].worker = w => att[b].status # "running"
          /\ worker'[w].phase = "running" /\ \A v \in Workers : v # w => worker'[v] = worker[v]
      BY <2>1 DEF Started, Live
    <2>3. w \in Workers
      BY <2>1 DEF Started
    <2> HIDE DEF w
    <2>4. \A b \in Attempts : att'[b].status = "running" => worker'[att'[b].worker].phase = "running"
      <3> SUFFICES ASSUME NEW b \in Attempts, att'[b].status = "running"
                   PROVE  worker'[att'[b].worker].phase = "running"
        OBVIOUS
      <3>1. CASE b = a
        BY <2>2, <3>1
      <3>2. CASE b # a
        <4>1. att'[b] = att[b] /\ att[b].worker # w /\ worker[att[b].worker].phase = "running"
          BY <1>0, <2>2, <3>2 DEF OneRunning, Live
        <4> QED
          BY <1>0, <2>2, <4>1
      <3> QED
        BY <3>1, <3>2
    <2>5. \A v \in Workers : worker'[v].phase = "running" =>
             \E b \in Attempts : att'[b].status = "running" /\ att'[b].worker = v
      <3> SUFFICES ASSUME NEW v \in Workers, worker'[v].phase = "running", v # w
                   PROVE  \E b \in Attempts : att'[b].status = "running" /\ att'[b].worker = v
        BY <2>2
      <3>1. PICK b \in Attempts : att[b].status = "running" /\ att[b].worker = v
        BY <1>0, <2>2 DEF OneRunning, Live
      <3>2. b # a
        BY <2>1, <3>1 DEF Started
      <3> QED
        BY <2>2, <3>1, <3>2
    <2>6. \A b, c \in Attempts : att'[b].status = "running" /\ att'[c].status = "running"
                                   /\ att'[b].worker = att'[c].worker => b = c
      BY <1>0, <2>2 DEF OneRunning, Live
    <2> QED
      BY <2>4, <2>5, <2>6 DEF OneRunning, Live
  <1>2. ASSUME NEW s \in Services, NEW w \in Workers, CreateWorker(s, w) PROVE OneRunning'
    <2>1. /\ worker[w].phase = "absent" /\ worker'[w].phase = "idle" /\ att' = att
          /\ \A v \in Workers : v # w => worker'[v] = worker[v]
      BY <1>0, <1>2, TypeNames DEF CreateWorker, WorkerRow
    <2> QED
      BY <1>0, <2>1 DEF OneRunning, Live
  <1>3. ASSUME NEW w \in Workers, CancelWorkerTree(w) PROVE OneRunning'
    <2>1. \A b \in Attempts :
             /\ att'[b].worker = att[b].worker
             /\ (att'[b].status = "running") <=> (Live(b) /\ att[b].worker \notin Subtree(w))
      BY <1>0, <1>3, CancelEffect DEF Live
    <2>2. \A v \in Workers : (worker'[v].phase = "running")
                                 <=> (worker[v].phase = "running" /\ v \notin Subtree(w))
      BY <1>0, <1>3, CancelEffect
    <2>3. ASSUME NEW a \in Attempts, att'[a].status = "running"
          PROVE  worker'[att'[a].worker].phase = "running"
      <3>1. Live(a) /\ att[a].worker \notin Subtree(w) /\ att'[a].worker = att[a].worker
        BY <2>1, <2>3
      <3> QED
        BY <1>0, <2>2, <3>1 DEF OneRunning
    <2>4. \A a, b \in Attempts : (att'[a].status = "running" /\ att'[b].status = "running"
                                   /\ att'[a].worker = att'[b].worker) => a = b
      BY <1>0, <2>1 DEF OneRunning
    <2>5. \A v \in Workers : worker'[v].phase = "running"
             => \E a \in Attempts : att'[a].status = "running" /\ att'[a].worker = v
      BY <1>0, <2>1, <2>2 DEF OneRunning
    <2> QED
      BY <2>3, <2>4, <2>5 DEF OneRunning, Live
  <1>4. ASSUME NEW a \in Attempts, NEW o \in Outcomes, NEW r \in Reasons, Settles(a, o, r)
        PROVE  OneRunning'
    <2>0. SettleWorker(a, o, r)
      BY <1>4 DEF Settles
    <2>1. \A b \in Attempts : att'[b].worker = att[b].worker /\ (Live(b)' <=> Live(b) /\ b # a)
      BY <1>0, <2>0, SettleEffect DEF Live
    <2>2. \A v \in Workers : worker'[v].phase = "running"
                                 <=> worker[v].phase = "running" /\ ~ (Live(a) /\ v = att[a].worker)
      <3> SUFFICES ASSUME NEW v \in Workers
                   PROVE  worker'[v].phase = "running"
                             <=> worker[v].phase = "running" /\ ~ (Live(a) /\ v = att[a].worker)
        OBVIOUS
      <3>1. CASE Live(a) /\ v = att[a].worker
        <4>1. worker'[v] = [phase |-> "idle", outcome |-> o, reason |-> r]
          BY <1>0, <2>0, <3>1, SettleEffect
        <4> QED
          BY <3>1, <4>1
      <3>2. CASE ~ (Live(a) /\ v = att[a].worker)
        <4>1. worker'[v] = worker[v]
          BY <1>0, <2>0, <3>2, SettleEffect
        <4> QED
          BY <3>2, <4>1
      <3> QED
        BY <3>1, <3>2
    <2> QED
      BY <1>0, <2>1, <2>2 DEF OneRunning, Live
  <1>5. CASE UNCHANGED <<att, worker>>
    BY <1>0, <1>5 DEF OneRunning, Live
  <1> QED
    BY <1>1, <1>2, <1>3, <1>4, <1>5, RowSteps

\* A marked attempt stays short of its settlement as a success.
LEMMA MarkedStep ==
  ASSUME IInv, Next
  PROVE  MarkedIsCaught' /\ \A a \in unclean' : att'[a].outcome # "success"
  <1> SUFFICES ASSUME NEW a \in unclean'
               PROVE  exec'[a].pc \notin {"collected", "persisted"} /\ att'[a].outcome # "success"
    BY DEF MarkedIsCaught
  <1>0. /\ TypeOK /\ EnvelopeFits /\ SuccessHasEnvelope /\ LiveProcessIsRegistered /\ MarkedIsCaught
        /\ a \in Attempts
    BY TypeStep DEF IInv, TypeOK
  <1>1. /\ exec[a].pc \notin {"collected", "persisted"} /\ att[a].outcome # "success"
        /\ exec'[a].pc \notin {"collected", "persisted"}
    <2>1. CASE a \in unclean
      <3>1. exec[a].pc \notin {"collected", "persisted"} /\ att[a].outcome # "success"
        BY <1>0, <2>1 DEF MarkedIsCaught, LiveProcessIsRegistered
      <3>2. CASE ThreadStep(a)
        <4>1. CASE Collect(a)
          <5>1. Report(a, "failing", "cancelled") \/ Report(a, "failing", "process_cleanup")
            BY <2>1, <4>1 DEF Collect
          <5>2. exec'[a].pc = "failing"
            BY <1>0, <5>1, ReportEffect
          <5> QED
            BY <3>1, <5>2
        <4>2. CASE ~ Collect(a)
          BY <1>0, <3>1, <3>2, <4>2, ThreadPaths
        <4> QED
          BY <4>1, <4>2
      <3>3. CASE ~ ThreadStep(a)
        BY <1>0, <3>1, <3>3, ResultSteps
      <3> QED
        BY <3>1, <3>2, <3>3
    <2>2. CASE a \notin unclean
      <3>1. PICK b \in Attempts : ThreadStep(b) /\ unclean' # unclean
        BY <2>2, OtherSteps, <1>0
      <3>2. a = b /\ exec[a].pc \in {"spawned", "serving"} /\ exec'[a].pc = "serving"
        BY <1>0, <2>2, <3>1, ThreadMarks
      <3> QED
        BY <1>0, <3>2 DEF EnvelopeFits, SuccessHasEnvelope, Unpersisted
    <2> QED
      BY <2>1, <2>2
  <1>2. att'[a].outcome # "success"
    <2>1. ASSUME NEW s \in Services, Start(s) PROVE att'[a].outcome # "success"
      <3>1. PICK b \in Attempts : Started(s, b)
        BY <1>0, <2>1, StartEffect
      <3> QED
        BY <1>0, <1>1, <3>1 DEF Started
    <2>2. ASSUME NEW w \in Workers, CancelWorkerTree(w) PROVE att'[a].outcome # "success"
      BY <1>0, <1>1, <2>2, CancelEffect
    <2>3. ASSUME NEW b \in Attempts, NEW o \in Outcomes, NEW r \in Reasons, Settles(b, o, r)
          PROVE  att'[a].outcome # "success"
      <3>1. SettleWorker(b, o, r) /\ (o = "success" => exec[b].pc = "persisted")
        BY <2>3 DEF Settles
      <3>2. att'[a] = att[a] \/ (a = b /\ att'[a].outcome = o)
        BY <1>0, <3>1, SettleEffect
      <3> QED
        BY <1>1, <3>1, <3>2
    <2>4. ASSUME NEW s \in Services, NEW w \in Workers, CreateWorker(s, w) PROVE UNCHANGED att
      BY <2>4 DEF CreateWorker
    <2> QED
      BY <1>1, <2>1, <2>2, <2>3, <2>4, RowSteps
  <1> QED
    BY <1>1, <1>2

\* A live process is not on record between its start and the observer, and when the observer failed.
LEMMA ProcessStep ==
  ASSUME IInv, Next
  PROVE  LiveProcessIsRegistered'
  <1> SUFFICES ASSUME NEW a \in alive' \ registered', a \notin unclean'
               PROVE  exec'[a].pc \in {"spawned", "dead_spawned"}
    BY MarkedStep DEF LiveProcessIsRegistered
  <1>0. /\ TypeOK /\ CallOwnsAttempt /\ ResultFits /\ UnusedIsBlank /\ LiveProcessIsRegistered
        /\ alive \subseteq Attempts
    BY TypeNames DEF IInv
  <1>1. a \in Attempts
    BY <1>0, TypeStep DEF TypeOK
  <1>2. ASSUME NEW b \in Attempts, ThreadStep(b) PROVE exec'[a].pc \in {"spawned", "dead_spawned"}
    <2>1. KeepsProcess(b) /\ Moves(b) /\ a \notin unclean
      BY <1>0, <1>2, ThreadKeepsProcess, ThreadMoves, ThreadMarks
    <2> QED
      BY <1>0, <1>1, <2>1 DEF KeepsProcess, Moves, LiveProcessIsRegistered
  <1>3. CASE \A b \in Attempts : ~ ThreadStep(b)
    <2>1. a \in alive \ registered /\ exec[a].pc \in {"spawned", "dead_spawned"}
      BY <1>0, <1>3, OtherSteps DEF LiveProcessIsRegistered
    <2>2. ASSUME NEW s \in Services, Start(s) PROVE exec'[a] = exec[a]
      <3>1. PICK b \in Attempts : Started(s, b)
        BY <1>0, <2>2, StartEffect
      <3>2. a # b
        BY <1>0, <2>1, <3>1 DEF Started, UnusedIsBlank
      <3> QED
        BY <1>1, <3>1, <3>2 DEF Started
    <2>3. CASE \A s \in Services : ~ Start(s)
      <3>1. ~ Register(a)
        BY <1>1, <1>3 DEF ThreadStep
      <3>2. "dead_spawned" \notin Active
        BY DEF Active
      <3> QED
        BY <1>1, <2>1, <2>3, <3>1, <3>2, ThreadsEndOnce
    <2> QED
      BY <2>1, <2>2, <2>3
  <1> QED
    BY <1>2, <1>3

\* Queues change by a start and by a message that is sent.
LEMMA QueueSteps ==
  ASSUME Next
  PROVE  \/ UNCHANGED <<queue, used, sent>>
         \/ \E s \in Services : Start(s)
         \/ \E w \in Workers : Send(w)
  <1>1. ASSUME NEW a \in Attempts, ThreadStep(a) PROVE UNCHANGED <<queue, used, sent>>
    BY <1>1 DEF ThreadStep, Enter, Invoke, Spawn, Register, Observe, Released, Return, Collect, Persist,
       Settle, Fallback, SettleFailure, Cleanup, Leave, ThreadFrame, rows
  <1>2. ASSUME NEW s \in Services, ServiceStep(s), ~ Start(s) PROVE UNCHANGED <<queue, used, sent>>
    BY <1>2 DEF ServiceStep, StartRefused, AbandonChild, Submit, StartFails, rows
  <1>3. ASSUME NEW s \in Services, Close(s) \/ Crash(s) \/ ReconcileSettle(s)
        PROVE  UNCHANGED <<queue, used, sent>>
    BY <1>3 DEF Close, Crash, ReconcileSettle, rows
  <1>4. ASSUME NEW s \in Services, NEW w \in Workers, CreateWorker(s, w) \/ ResumeRead(s, w) \/ Cancel(s, w)
        PROVE  UNCHANGED <<queue, used, sent>>
    BY <1>4 DEF CreateWorker, ResumeRead, Cancel, rows
  <1>5. ASSUME NEW s \in Services, NEW a \in Attempts, CleanupOne(s, a) \/ ReconcileLock(s, a)
        PROVE  UNCHANGED <<queue, used, sent>>
    BY <1>5 DEF CleanupOne, ReconcileLock, rows
  <1>6. ASSUME NEW a \in Attempts, ProcessExits(a) PROVE UNCHANGED <<queue, used, sent>>
    BY <1>6 DEF ProcessExits, rows
  <1> QED
    BY <1>1, <1>2, <1>3, <1>4, <1>5, <1>6 DEF Next, Steps

LEMMA InputStep ==
  ASSUME IInv, Next
  PROVE  InputsPlaced'
  <1>0. /\ TypeOK /\ UnusedIsBlank /\ InputsPlaced
        /\ queue \in [Workers -> SUBSET Inputs] /\ sent \in Nat
    BY TypeNames, Constants DEF IInv
  <1>1. ASSUME NEW s \in Services, Start(s) PROVE InputsPlaced'
    <2>1. PICK a \in Attempts : Started(s, a)
      BY <1>0, <1>1, StartEffect
    <2> DEFINE w == call[s].worker
               ids == call[s].ids
    <2>2. /\ w \in Workers /\ ids \subseteq queue[w] /\ used[a] = {} /\ sent' = sent
          /\ used'[a] = ids /\ \A b \in Attempts : b # a => used'[b] = used[b]
          /\ queue'[w] = queue[w] \ ids /\ \A v \in Workers : v # w => queue'[v] = queue[v]
      BY <1>0, <1>1, <2>1 DEF Started, UnusedIsBlank, Start
    <2> HIDE DEF w, ids
    <2>3. \A v \in Workers : queue'[v] \subseteq queue[v]
      BY <2>2
    <2>4. \A b \in Attempts : used'[b] = used[b] \/ (b = a /\ used'[b] = ids)
      BY <2>2
    <2>5. /\ \A v \in Workers : queue'[v] \subseteq 1 .. sent'
          /\ \A b \in Attempts : used'[b] \subseteq 1 .. sent'
      BY <1>0, <2>2, <2>3, <2>4 DEF InputsPlaced
    <2>6. \A i \in 1 .. sent' : (\E v \in Workers : i \in queue'[v]) \/ (\E b \in Attempts : i \in used'[b])
      <3> SUFFICES ASSUME NEW i \in 1 .. sent
                   PROVE  (\E v \in Workers : i \in queue'[v]) \/ (\E b \in Attempts : i \in used'[b])
        BY <2>2
      <3>1. (\E v \in Workers : i \in queue[v]) \/ (\E b \in Attempts : i \in used[b])
        BY <1>0 DEF InputsPlaced
      <3>2. ASSUME NEW v \in Workers, i \in queue[v] PROVE i \in queue'[v] \/ i \in used'[a]
        BY <2>2, <3>2
      <3>3. ASSUME NEW b \in Attempts, i \in used[b] PROVE i \in used'[b]
        BY <2>2, <3>3
      <3> QED
        BY <3>1, <3>2, <3>3
    <2>7. \A u, v \in Workers : u # v => queue'[u] \cap queue'[v] = {}
      BY <1>0, <2>3 DEF InputsPlaced
    <2>8. \A b, c \in Attempts : b # c => used'[b] \cap used'[c] = {}
      BY <1>0, <2>2, <2>4 DEF InputsPlaced
    <2>9. \A v \in Workers, b \in Attempts : queue'[v] \cap used'[b] = {}
      BY <1>0, <2>2, <2>3, <2>4 DEF InputsPlaced
    <2> QED
      BY <2>5, <2>6, <2>7, <2>8, <2>9 DEF InputsPlaced
  <1>2. ASSUME NEW w \in Workers, Send(w) PROVE InputsPlaced'
    <2>1. /\ sent' = sent + 1 /\ used' = used
          /\ queue'[w] = queue[w] \cup {sent + 1} /\ \A v \in Workers : v # w => queue'[v] = queue[v]
      BY <1>0, <1>2 DEF Send
    <2>2. /\ 1 .. sent + 1 = (1 .. sent) \cup {sent + 1} /\ sent + 1 \notin 1 .. sent
      BY <1>0
    <2>3. /\ \A v \in Workers : queue'[v] \subseteq 1 .. sent'
          /\ \A b \in Attempts : used'[b] \subseteq 1 .. sent'
      BY <1>0, <2>1, <2>2 DEF InputsPlaced
    <2>4. \A i \in 1 .. sent' : (\E v \in Workers : i \in queue'[v]) \/ (\E b \in Attempts : i \in used'[b])
      <3> SUFFICES ASSUME NEW i \in 1 .. sent'
                   PROVE  (\E v \in Workers : i \in queue'[v]) \/ (\E b \in Attempts : i \in used'[b])
        OBVIOUS
      <3>1. CASE i = sent + 1
        BY <2>1, <3>1
      <3>2. CASE i \in 1 .. sent
        BY <1>0, <2>1, <3>2 DEF InputsPlaced
      <3> QED
        BY <2>1, <2>2, <3>1, <3>2
    <2>5. \A u, v \in Workers : u # v => queue'[u] \cap queue'[v] = {}
      BY <1>0, <2>1, <2>2 DEF InputsPlaced
    <2>6. /\ \A b, c \in Attempts : b # c => used'[b] \cap used'[c] = {}
          /\ \A v \in Workers, b \in Attempts : queue'[v] \cap used'[b] = {}
      BY <1>0, <2>1, <2>2 DEF InputsPlaced
    <2> QED
      BY <2>3, <2>4, <2>5, <2>6 DEF InputsPlaced
  <1>3. CASE UNCHANGED <<queue, used, sent>>
    BY <1>0, <1>3 DEF InputsPlaced
  <1> QED
    BY <1>1, <1>2, <1>3, QueueSteps

\* Without failing adapters and shutdowns, "cancelled" is reported for attempts that have ended, which
\* never run again.
LEMMA CancelledStep ==
  ASSUME IInv, Next
  PROVE  CancelledHasEnded'
  <1> SUFFICES ASSUME environment' \cap {"fail", "close"} = {}
               PROVE  /\ \A s \in Services : ~ closed'[s]
                      /\ \A a \in Attempts : exec'[a].result = "cancelled" => ~ Live(a)'
    BY DEF CancelledHasEnded
  <1>0. /\ TypeOK /\ ResultFits /\ CancelledHasEnded /\ UnusedIsBlank
        /\ environment \cap {"fail", "close"} = {}
        /\ \A s \in Services : ~ closed[s]
        /\ \A a \in Attempts : exec[a].result = "cancelled" => ~ Live(a)
    BY DEF IInv, CancelledHasEnded, Next
  <1>1. closed' = closed
    <2>1. ASSUME NEW a \in Attempts, ThreadStep(a) PROVE closed' = closed
      BY <2>1 DEF ThreadStep, Enter, Invoke, Spawn, Register, Observe, Released, Return, Collect, Persist,
         Settle, Fallback, SettleFailure, Cleanup, Leave, ThreadFrame, services
    <2>2. \A s \in Services : ~ Close(s)
      BY <1>0 DEF Close
    <2> QED
      BY <2>1, <2>2 DEF Next, Steps, ServiceStep, Start, StartRefused, AbandonChild, Submit, StartFails,
         Crash, ReconcileSettle, CreateWorker, ResumeRead, Cancel, CleanupOne, ReconcileLock, ProcessExits,
         Send, services
  <1>2. ASSUME NEW a \in Attempts, exec'[a].result = "cancelled" PROVE ~ Live(a)'
    <2>1. CASE ThreadStep(a)
      <3>1. att[a].status # "none" /\ att[a].by \in Services
        BY <1>0, <2>1, ThreadMoves, ThreadIsStarted DEF Moves, Active
      <3>2. CarriesResult(a)
        BY <1>0, <2>1, <3>1, ThreadCarriesResult
      <3>3. ~ Live(a)
        BY <1>0, <1>2, <3>2 DEF CarriesResult
      <3> QED
        BY <3>1, <3>3, AttemptsKeepIdentity
    <2>2. CASE ~ ThreadStep(a)
      <3>1. exec[a].result = "cancelled"
        BY <1>2, <2>2, ResultSteps
      <3>2. att[a].status # "none"
        BY <1>0, <3>1 DEF UnusedIsBlank, NoExec
      <3> QED
        BY <1>0, <3>1, <3>2, AttemptsKeepIdentity
    <2> QED
      BY <2>1, <2>2
  <1> QED
    BY <1>0, <1>1, <1>2

\* A subtree contains the children of its members.
LEMMA SubtreeClosed ==
  ASSUME NEW u \in Workers, NEW w \in Subtree(u), NEW v \in Workers, Parent[v] = w
  PROVE  v \in Subtree(u)
  BY DEF Subtree

\* Starts look the parent up in their own transaction, so that a cancelled tree stays stopped.
LEMMA TreeStep ==
  ASSUME IInv, Next
  PROVE  CancelStopsTree'
  <1> SUFFICES ASSUME environment' \cap {"fail", "close"} = {},
                      NEW w \in Workers, NEW v \in Workers, Parent[v] = w,
                      worker'[w].phase # "running", worker'[w].reason \in CancelReasons
               PROVE  worker'[v].phase # "running"
    BY DEF CancelStopsTree, CancelReasons
  <1>0. /\ TypeOK /\ environment \cap {"fail", "close"} = {}
        /\ worker[w].phase # "running" /\ worker[w].reason \in CancelReasons => worker[v].phase # "running"
        /\ \A a \in Attempts : att[a].worker \in Workers
    BY TypeNames DEF IInv, CancelStopsTree, Next, AttemptRow
  <1>1. ASSUME NEW s \in Services, Start(s) PROVE worker'[v].phase # "running"
    <2>1. PICK a \in Attempts : Started(s, a)
      BY <1>0, <1>1, StartEffect
    <2>2. w # call[s].worker /\ worker'[w] = worker[w]
      BY <2>1 DEF Started
    <2>3. v # call[s].worker
      BY <2>1, <2>2 DEF Started
    <2> QED
      BY <1>0, <2>1, <2>2, <2>3 DEF Started
  <1>2. ASSUME NEW s \in Services, NEW u \in Workers, CreateWorker(s, u) PROVE worker'[v].phase # "running"
    <2>1. /\ worker[u].phase = "absent" /\ worker'[u].phase = "idle" /\ worker'[u].reason = worker[u].reason
          /\ \A x \in Workers : x # u => worker'[x] = worker[x]
      BY <1>0, <1>2, TypeNames DEF CreateWorker, WorkerRow
    <2> QED
      BY <1>0, <2>1
  <1>3. ASSUME NEW u \in Workers, CancelWorkerTree(u) PROVE worker'[v].phase # "running"
    <2>1. CASE v \in Subtree(u)
      BY <1>0, <1>3, <2>1, CancelEffect
    <2>2. CASE v \notin Subtree(u)
      <3>1. w \notin Subtree(u)
        BY <2>2, SubtreeClosed
      <3> QED
        BY <1>0, <1>3, <2>2, <3>1, CancelEffect
    <2> QED
      BY <2>1, <2>2
  <1>4. ASSUME NEW a \in Attempts, NEW o \in Outcomes, NEW r \in Reasons, Settles(a, o, r)
        PROVE  worker'[v].phase # "running"
    <2>0. SettleWorker(a, o, r) /\ (r \in CancelReasons => ~ Live(a))
      BY <1>0, <1>4 DEF Settles
    <2>1. \A x \in Workers :
            \/ worker'[x] = worker[x]
            \/ worker'[x] = [phase |-> "idle", outcome |-> o, reason |-> r] /\ Live(a)
      BY <1>0, <2>0, SettleEffect
    <2>2. worker'[w] = worker[w]
      <3>1. CASE worker'[w] = [phase |-> "idle", outcome |-> o, reason |-> r] /\ Live(a)
        BY <2>0, <3>1
      <3> QED
        BY <2>1, <3>1
    <2>3. CASE worker'[v] = [phase |-> "idle", outcome |-> o, reason |-> r]
      BY <2>3
    <2>4. CASE worker'[v] = worker[v]
      BY <1>0, <2>2, <2>4
    <2> QED
      BY <2>1, <2>3, <2>4
  <1>5. CASE UNCHANGED <<att, worker>>
    BY <1>0, <1>5
  <1> QED
    BY <1>1, <1>2, <1>3, <1>4, <1>5, RowSteps

-----------------------------------------------------------------------------
(* The theorems.                                                               *)

LEMMA InvInit == Init => IInv
  <1> SUFFICES ASSUME Init PROVE IInv
    OBVIOUS
  <1>1. /\ TypeOK
        /\ \A a \in Attempts : /\ att[a].status = "none" /\ att[a].by = Nobody /\ att[a].outcome = "none"
                               /\ exec[a] = NoExec /\ exec[a].pc = "none" /\ exec[a].result = "none"
                               /\ envelope[a] = "none" /\ used[a] = {}
        /\ \A w \in Workers : worker[w].phase = "absent" /\ worker[w].reason = "none" /\ queue[w] = {}
    BY TypeInit DEF Init, NoExec
  <1>2. /\ \A s \in Services : call[s].op = "none" /\ recon[s] = 0 /\ ~ closed[s]
        /\ registered = {} /\ alive = {} /\ unclean = {} /\ sent = 0
    BY DEF Init, NoCall
  <1>3. UnusedIsBlank /\ CallOwnsAttempt /\ ActiveHoldsLock /\ ReconciledIsUnheld
    BY <1>1, <1>2 DEF UnusedIsBlank, CallOwnsAttempt, ActiveHoldsLock, ReconciledIsUnheld, Active
  <1>4. LostMeansAbandoned /\ ResultFits /\ EnvelopeFits /\ SuccessHasEnvelope
    BY <1>1 DEF LostMeansAbandoned, ResultFits, EnvelopeFits, SuccessHasEnvelope
  <1>5. OneRunning /\ LiveProcessIsRegistered /\ MarkedIsCaught /\ InputsPlaced
    BY <1>1, <1>2 DEF OneRunning, LiveProcessIsRegistered, MarkedIsCaught, InputsPlaced, Live
  <1>6. CancelledHasEnded /\ CancelStopsTree
    BY <1>1, <1>2 DEF CancelledHasEnded, CancelStopsTree, CancelReasons
  <1> QED
    BY <1>1, <1>3, <1>4, <1>5, <1>6 DEF IInv

LEMMA InvStutter ==
  ASSUME IInv, UNCHANGED <<vars, environment>>
  PROVE  IInv'
  <1>1. UNCHANGED <<worker, att, envelope, latest, queue, used>>
    BY DEF vars, rows
  <1>2. UNCHANGED <<registered, alive, exec, unclean, sent, crashes, environment>>
    BY DEF vars, process
  <1>3. UNCHANGED <<up, closed, held, call, todo, recon>>
    BY DEF vars, services
  <1>4. TypeOK' /\ UnusedIsBlank' /\ CallOwnsAttempt' /\ ActiveHoldsLock' /\ ReconciledIsUnheld'
    BY <1>1, <1>2, <1>3
       DEF IInv, TypeOK, UnusedIsBlank, CallOwnsAttempt, ActiveHoldsLock, ReconciledIsUnheld
  <1>5. LostMeansAbandoned' /\ ResultFits' /\ EnvelopeFits' /\ SuccessHasEnvelope'
    BY <1>1, <1>2 DEF IInv, LostMeansAbandoned, ResultFits, EnvelopeFits, SuccessHasEnvelope
  <1>6. OneRunning' /\ LiveProcessIsRegistered' /\ MarkedIsCaught' /\ InputsPlaced'
    BY <1>1, <1>2 DEF IInv, OneRunning, LiveProcessIsRegistered, MarkedIsCaught, InputsPlaced, Live
  <1>7. CancelledHasEnded' /\ CancelStopsTree'
    BY <1>1, <1>2, <1>3 DEF IInv, CancelledHasEnded, CancelStopsTree, Live
  <1> QED
    BY <1>4, <1>5, <1>6, <1>7 DEF IInv

\* Every step of the services, threads, callers and crashes keeps the inductive invariant.
LEMMA InvStep ==
  ASSUME IInv, [Next]_<<vars, environment>>
  PROVE  IInv'
  <1>1. CASE Next
    <2>1. TypeOK'
      BY <1>1, TypeStep DEF IInv
    <2>2. UnusedIsBlank' /\ CallOwnsAttempt' /\ ActiveHoldsLock' /\ ReconciledIsUnheld'
      BY <1>1, UnusedStep, CallStep, LockStep, ReconStep
    <2>3. LostMeansAbandoned' /\ ResultFits' /\ EnvelopeFits' /\ SuccessHasEnvelope'
      BY <1>1, LostStep, ResultStep, EnvelopeStep, SuccessStep
    <2>4. OneRunning' /\ LiveProcessIsRegistered' /\ MarkedIsCaught' /\ InputsPlaced'
      BY <1>1, RunningStep, ProcessStep, MarkedStep, InputStep
    <2>5. CancelledHasEnded' /\ CancelStopsTree'
      BY <1>1, CancelledStep, TreeStep
    <2> QED
      BY <2>1, <2>2, <2>3, <2>4, <2>5 DEF IInv
  <1>2. CASE UNCHANGED <<vars, environment>>
    BY <1>2, InvStutter
  <1> QED
    BY <1>1, <1>2

\* The inductive invariant holds in every state the services reach.
THEOREM Invariant == Spec => []IInv
  BY InvInit, InvStep, PTL DEF Spec

LEMMA PhasesMatch ==
  ASSUME OneRunning
  PROVE  PhaseMatchesAttempt
  <1> SUFFICES ASSUME NEW w \in Workers
               PROVE  LET open == {a \in AttemptsOf(w) : Live(a)} IN
                      /\ worker[w].phase = "running" <=> open # {}
                      /\ Cardinality(open) <= 1
    BY DEF PhaseMatchesAttempt
  <1> DEFINE open == {a \in AttemptsOf(w) : Live(a)}
  <1>1. (worker[w].phase = "running") <=> (open # {})
    BY DEF OneRunning, AttemptsOf, Live
  <1>2. \A a, b \in open : a = b
    BY DEF OneRunning, AttemptsOf
  <1>3. Cardinality(open) <= 1
    <2>1. CASE open = {}
      BY <2>1, FS_EmptySet
    <2>2. CASE open # {}
      <3>1. PICK a \in open : TRUE
        BY <2>2
      <3>2. open = {a}
        BY <1>2, <3>1
      <3> QED
        BY <3>2, FS_Singleton
    <2> QED
      BY <2>1, <2>2
  <1> QED
    BY <1>1, <1>3

\* settle_worker, cancel_worker_tree, _start and reconcile, whichever way their transactions interleave:
\* a worker is running exactly while one attempt of it is, a success has its envelope, and a service
\* with executions holds its owner lock.
THEOREM RowsAlwaysAgree == Spec => []RowsAgree
  <1>1. IInv => RowsAgree
    BY PhasesMatch DEF IInv, RowsAgree
  <1> QED
    BY <1>1, Invariant, PTL

\* reconcile against a live owner: an attempt it settled as lost has no thread left in _execute.
THEOREM LostIsAbandoned == Spec => []LostMeansAbandoned
  <1>1. IInv => LostMeansAbandoned
    BY DEF IInv
  <1> QED
    BY <1>1, Invariant, PTL

\* The process observer: outside the moment between the start of a process and its report, a live
\* process is on record for reconcile to terminate, or its attempt is marked and never succeeds.
THEOREM ProcessesAreRegistered == Spec => []LiveProcessIsRegistered
  <1>1. IInv => LiveProcessIsRegistered
    BY DEF IInv
  <1> QED
    BY <1>1, Invariant, PTL

LEMMA PlacedIsOnce ==
  ASSUME InputsPlaced
  PROVE  InputsConsumedOnce
  <1> SUFFICES ASSUME NEW i \in 1 .. sent
               PROVE  Cardinality({w \in Workers : i \in queue[w]})
                        + Cardinality({a \in Attempts : i \in used[a]}) = 1
    BY DEF InputsConsumedOnce
  <1> DEFINE Q == {w \in Workers : i \in queue[w]}
             U == {a \in Attempts : i \in used[a]}
  <1>1. \/ (\E w \in Workers : Q = {w}) /\ U = {}
        \/ (\E a \in Attempts : U = {a}) /\ Q = {}
    <2>1. ASSUME NEW w \in Workers, i \in queue[w] PROVE Q = {w} /\ U = {}
      BY <2>1 DEF InputsPlaced
    <2>2. ASSUME NEW a \in Attempts, i \in used[a] PROVE U = {a} /\ Q = {}
      BY <2>2 DEF InputsPlaced
    <2> QED
      BY <2>1, <2>2 DEF InputsPlaced
  <1> HIDE DEF Q, U
  <1>2. Cardinality(Q) + Cardinality(U) = 1
    <2>1. /\ Cardinality({}) = 0
          /\ \A w \in Workers : Cardinality({w}) = 1
          /\ \A a \in Attempts : Cardinality({a}) = 1
      BY FS_EmptySet, FS_Singleton
    <2> QED
      BY <1>1, <2>1
  <1> QED
    BY <1>2 DEF Q, U

\* send_input, the prompt that consumes the queue, and the resumption that takes what is left: no
\* message is lost and none is read twice, however calls, threads and crashes interleave.
THEOREM InputsAreConsumedOnce == Spec => []InputsConsumedOnce
  <1>1. IInv => InputsConsumedOnce
    BY PlacedIsOnce DEF IInv
  <1> QED
    BY <1>1, Invariant, PTL

\* cancel against a dispatch or resume of a descendant that is between its check and its transaction:
\* no child of a cancelled worker runs.
THEOREM CancelledTreesStop == Spec => []CancelStopsTree
  <1>1. IInv => CancelStopsTree
    BY DEF IInv
  <1> QED
    BY <1>1, Invariant, PTL
=============================================================================
