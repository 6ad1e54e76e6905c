--------------------------- MODULE DelegateProofs ---------------------------
(***************************************************************************)
(* Proofs about Delegate for any number of controller processes, attempts,  *)
(* crashes and outside events.                                              *)
(***************************************************************************)
EXTENDS Delegate, StoreProofs, TLAPS

-----------------------------------------------------------------------------
(* Who works for which attempt.                                                *)

\* The places of a call before it has an attempt, or between two.
NoAttYet  == {"idle", "reconcile", "lost", "settle_call", "attach", "budget", "claim"}
Between   == NoAttYet \cup {"cancel_list", "drop_next"}
Starting  == {"dispatch", "bind", "inputs"}
Observing == {"wait", "look", "sleep"}
Taking    == {"locked", "reserve"}
Cleaning  == {"clean", "clean_file"}
Undoing   == {"undo", "undo_file", "undone"}
Dropping  == {"drop", "drop_file"}
Leaving   == {"stop", "settle", "finish", "late", "late_file", "settle_run"}
Handling  == {"failing"} \cup Leaving
Canceling == {"cancel_stop", "cancel_settle"} \cup Dropping
Reserving == Cleaning \cup Staging \cup Undoing
Locking   == Taking \cup Reserving \cup Dropping

Used(a)          == atts[a].status # "none"
Refers(p, a)     == proc[p].pc \notin Between /\ proc[p].att = a
Dispatches(p, a) == Refers(p, a) /\ proc[p].pc \notin Canceling /\ ~ proc[p].attached
Shows(a)         == a \in results \cup outputs \/ file[task] = a

\* A call that works for an attempt has one; before, it knows nothing of a worker.
CallHasAttempt(p) ==
    /\ proc[p].pc \notin Between => proc[p].att \in Attempts /\ Used(proc[p].att)
    /\ proc[p].pc \in NoAttYet \cup Starting => ~ proc[p].attached /\ ~ proc[p].known
    /\ proc[p].pc \in Observing \cup Taking \cup Reserving \/ proc[p].attached => proc[p].known
    /\ proc[p].pc \in {"cancel_list", "drop_next"} \cup Canceling => ~ proc[p].attached

CallsHaveAttempts == \A p \in Procs : CallHasAttempt(p)

\* What a call will do next, or the outcome it will commit.
OutcomeDecided(p) ==
    /\ proc[p].pc \in {"stop", "settle"} => proc[p].then \in {"finish", "late"}
    /\ proc[p].pc \in {"prepare", "copy", "record", "promote"} => proc[p].then = "succeeded"
    /\ proc[p].pc = "complete" => proc[p].then \in {"succeeded", "failed", "retry"}

OutcomesDecided == \A p \in Procs : OutcomeDecided(p)

\* An attempt nobody claimed has no worker, no envelope and no evidence.
UnusedIsBlank ==
    \A a \in Attempts : ~ Used(a) =>
      /\ bound[a] = "none" /\ work[a] = "none" /\ env[a] = "none" /\ exec[a] = "none"
      /\ a \notin results \cup prepared

\* One call dispatches an attempt, and until the binding exists nobody else knows of it.
OneDispatcher ==
    /\ \A p, q \in Procs, a \in Attempts : Dispatches(p, a) /\ Dispatches(q, a) => p = q
    /\ \A p \in Procs, a \in Attempts :
         /\ Refers(p, a) /\ bound[a] = "none" => Dispatches(p, a) /\ ~ proc[p].known
         /\ Refers(p, a) /\ proc[p].pc \in {"dispatch", "bind"} => bound[a] = "none"
         /\ Refers(p, a) /\ proc[p].pc = "dispatch" => work[a] = "none"
         /\ Refers(p, a) /\ proc[p].pc = "inputs" => bound[a] # "none"
         /\ Dispatches(p, a) /\ ~ proc[p].known => env[a] = "none" /\ exec[a] = "none"

\* A worker that is delivered, discarded or lost has finished.
WorkersFinished ==
    /\ \A a \in Attempts :
         /\ bound[a] # "none" => work[a] # "none"
         /\ bound[a] \in {"delivering", "settled", "discarded", "lost"} => work[a] = "finished"
    /\ \A p \in Procs :
         /\ proc[p].pc \in {"look", "sleep"} => work[proc[p].att] = "finished"
         /\ proc[p].pc \in {"settle", "cancel_settle"} => work[proc[p].att] # "running"

\* The delivery lock of an attempt is held by one call, which works for that attempt.
LocksAreHeld ==
    /\ \A p \in Procs : proc[p].pc \in Locking => dlock[proc[p].att] = p
    /\ \A a \in Attempts : dlock[a] # Nobody =>
         /\ proc[dlock[a]].att = a /\ proc[dlock[a]].pc \in Locking \cup Handling
         /\ bound[a] \in Open \cup {"discarded"} /\ work[a] = "finished"
    /\ \A p \in Procs : proc[p].pc \in Leaving /\ proc[p].attached => dlock[proc[p].att] = p

\* Under the reservation the binding is open or was discarded by somebody else meanwhile.
ReservationHolds ==
    \A p \in Procs :
      /\ proc[p].pc \in Reserving => bound[proc[p].att] \in {"delivering", "discarded"}
      /\ proc[p].pc \in {"drop_next"} \cup Dropping => \A a \in proc[p].todo : bound[a] = "discarded"
      /\ proc[p].pc \in Dropping => bound[proc[p].att] = "discarded"

\* What is delivered comes from an envelope.
EnvelopesRead ==
    /\ \A p \in Procs : proc[p].pc \in Staging \ {"stage"} => env[proc[p].att] # "none"
    /\ \A a \in Attempts : bound[a] = "settled" => env[a] # "none"

\* Output rows and files are announced before they are written.
OutputsPrepared ==
    /\ outputs \subseteq prepared
    /\ \A a \in Attempts : file[task] = a => a \in prepared
    /\ \A p \in Procs : proc[p].pc \in {"copy", "record", "promote"} => proc[p].att \in prepared

\* Evidence of an undecided attempt is removed before its lock is released.
Answering == Staging \cup Undoing \cup (Handling \ {"settle_run"})
EvidenceIsAnsweredFor ==
    /\ \A a \in Attempts :
         Shows(a) /\ bound[a] # "settled" /\ a \notin dropped =>
           dlock[a] # Nobody /\ proc[dlock[a]].pc \in Answering
    /\ \A p \in Procs :
         proc[p].pc \in {"clean_file", "late_file"} /\ dlock[proc[p].att] = p =>
           proc[p].att \notin results \cup outputs

OwnInv ==
    /\ TypeOK /\ CallsHaveAttempts /\ OutcomesDecided /\ UnusedIsBlank /\ OneDispatcher /\ WorkersFinished
    /\ LocksAreHeld /\ ReservationHolds /\ EnvelopesRead /\ OutputsPrepared /\ EvidenceIsAnsweredFor

-----------------------------------------------------------------------------
(* What a committed delivery rests on.                                         *)

\* Of two attempts of the task at least one has its outcome, a new one starts only when all have,
\* and the one that succeeded is the last.
OneUndecided ==
    /\ \A a, b \in Attempts : Used(a) /\ Used(b) /\ a # b => bound[a] = "settled" \/ bound[b] = "settled"
    /\ tasks[task].state \in {"pending", "ready", "uncertain"} =>
         \A a \in Attempts : Used(a) => bound[a] = "settled"
    /\ \A a \in Attempts : atts[a].status = "succeeded" =>
         /\ tasks[task].state = "succeeded"
         /\ \A b \in Attempts : Used(b) => bound[b] = "settled"

\* Without rejected results there is no second attempt.
NoRejectNoRetry ==
    "reject" \notin Environment =>
      /\ \A p \in Procs : proc[p].pc = "complete" => proc[p].then # "retry"
      /\ tasks[task].state \in {"pending", "ready", "uncertain"} => \A a \in Attempts : ~ Used(a)
      /\ \A a, b \in Attempts : Used(a) /\ Used(b) => a = b

\* A handler that does not hold the lock has lost its binding already, or never bound it, but for
\* the dispatcher that failed while it waited.
HandlersWithoutLock ==
    \A p \in Procs :
      /\ proc[p].pc \in {"finish", "late", "late_file"} /\ bound[proc[p].att] \in Open => ~ proc[p].known
      /\ /\ proc[p].pc \in Handling /\ proc[p].known /\ dlock[proc[p].att] # p
         /\ bound[proc[p].att] \in Open \cup {"settled"}
         => "race" \in Environment

Succeeding(p) == proc[p].pc = "complete" /\ proc[p].then = "succeeded"

\* What the deliverer has staged so far is there, unless the binding was discarded under it.
StagedIsThere ==
    \A p \in Procs :
      /\ proc[p].pc \in Staging /\ bound[proc[p].att] = "delivering" =>
           /\ proc[p].pc \in Staging \ {"stage"} => proc[p].att \in results
           /\ proc[p].pc \in {"record", "promote"} \/ Succeeding(p) => file[task] = proc[p].att
           /\ proc[p].pc = "promote" \/ Succeeding(p) => proc[p].att \in outputs
      /\ proc[p].pc \in {"stage", "evaluate", "prepare"} \/ (proc[p].pc = "complete" /\ ~ Succeeding(p)) =>
           proc[p].att \notin outputs /\ file[task] # proc[p].att

\* An attempt settled without success shows no output.
SettledWithoutOutput ==
    \A a \in Attempts :
      /\ atts[a].status = "succeeded" => bound[a] = "settled"
      /\ bound[a] = "settled" /\ atts[a].status # "succeeded" => a \notin outputs /\ file[task] # a

KeptInv == OneUndecided /\ NoRejectNoRetry /\ HandlersWithoutLock /\ StagedIsThere /\ SettledWithoutOutput

-----------------------------------------------------------------------------
(* Type correctness.                                                           *)

CallRow == [pc : Pcs, att : 0 .. NumAttempts, attached : BOOLEAN, known : BOOLEAN,
            tries : Nat, todo : SUBSET Attempts,
            then : {"none", "finish", "late", "succeeded", "failed", "retry"}]

DeliveryTypeOK ==
    /\ bound \in [Attempts -> Open \cup {"none", "settled", "discarded", "lost"}]
    /\ stale \subseteq Attempts /\ prepared \subseteq Attempts /\ dropped \subseteq Attempts
    /\ work \in [Attempts -> {"none", "running", "finished"}]
    /\ env \in [Attempts -> {"none", "succeeded", "failed"}]
    /\ exec \in [Attempts -> {"none", "running", "returned", "persisted"}]
    /\ host \in [Attempts -> Procs \cup {Nobody}] /\ dlock \in [Attempts -> Procs \cup {Nobody}]
    /\ crashes \in Nat

CallsTypeOK == proc \in [Procs -> CallRow]

LEMMA TypeParts ==
  TypeOK <=> LedgerTypeOK /\ ArtifactsTypeOK /\ DeliveryTypeOK /\ CallsTypeOK
  BY DEF TypeOK, StoreTypeOK, LedgerTypeOK, ArtifactsTypeOK, DeliveryTypeOK, CallsTypeOK, RunRow, AttemptRow, CallRow

LEMMA TypePartsNext ==
  TypeOK' <=> LedgerTypeOK' /\ ArtifactsTypeOK' /\ DeliveryTypeOK' /\ CallsTypeOK'
  BY DEF TypeOK, StoreTypeOK, LedgerTypeOK, ArtifactsTypeOK, DeliveryTypeOK, CallsTypeOK, RunRow, AttemptRow, CallRow

\* The one task is a task, attempts are numbers from 1 on, and nobody is no process.
LEMMA Names ==
  /\ task \in Tasks /\ Tasks = {task} /\ Attempts \subseteq 0 .. NumAttempts /\ 0 \notin Attempts
  /\ Nobody \notin Procs /\ NoAttempt \notin Attempts
  BY StoreAssumption, DelegateAssumption DEF task, Tasks, Attempts

\* A call moves alone.  A step that only moves it keeps the rest of what it knows.
Alone(p)    == \A q \in Procs : q # p => proc'[q] = proc[q]
Keeps(p)    == /\ proc'[p].att = proc[p].att /\ proc'[p].attached = proc[p].attached
               /\ proc'[p].known = proc[p].known
Moved(p, l) == /\ Alone(p) /\ Keeps(p) /\ proc'[p].pc = l
               /\ proc'[p].then = proc[p].then /\ proc'[p].todo = proc[p].todo
Returned(p) == Alone(p) /\ proc'[p] = Idle

LEMMA GoMoves ==
  ASSUME CallsTypeOK, NEW p \in Procs, NEW l, Go(p, l)
  PROVE  Moved(p, l)
  BY DEF CallsTypeOK, CallRow, Go, Moved, Alone, Keeps

LEMMA ReturnMoves ==
  ASSUME CallsTypeOK, NEW p \in Procs, Return(p)
  PROVE  Returned(p)
  BY DEF CallsTypeOK, Return, Alone, Returned

\* The steps that also change what the call knows.
LEMMA AttachMoves ==
  ASSUME CallsTypeOK, NEW p \in Procs, Attach(p)
  PROVE  \/ Returned(p)
         \/ \E a \in OpenBindings :
              /\ atts[a].status = "running" /\ Alone(p) /\ proc'[p].pc = "wait" /\ proc'[p].att = a
              /\ proc'[p].attached /\ proc'[p].known
  <1>1. \/ Returned(p)
        \/ \E a \in OpenBindings :
             /\ atts[a].status = "running"
             /\ proc' = [proc EXCEPT ![p] = [Idle EXCEPT !.pc = "wait", !.att = a, !.attached = TRUE, !.known = TRUE,
                                                         !.tries = tasks[task].attempts]]
    BY ReturnMoves DEF Attach
  <1> QED
    BY <1>1 DEF Alone, Idle, CallsTypeOK

LEMMA ClaimMoves ==
  ASSUME CallsTypeOK, NEW p \in Procs, Claim(p)
  PROVE  \/ Returned(p) /\ UNCHANGED ledger
         \/ \E a \in Attempts :
              /\ First(a, Unused) /\ ClaimTask(task, a, FALSE) /\ Alone(p)
              /\ proc'[p].pc = "dispatch" /\ proc'[p].att = a
              /\ proc'[p].attached = proc[p].attached /\ proc'[p].known = proc[p].known
  <1>1. \/ Returned(p) /\ UNCHANGED ledger
        \/ \E a \in Attempts : /\ First(a, Unused) /\ ClaimTask(task, a, FALSE)
                               /\ proc' = [proc EXCEPT ![p].pc = "dispatch", ![p].att = a]
    BY ReturnMoves DEF Claim
  <1>2. ASSUME NEW a, proc' = [proc EXCEPT ![p].pc = "dispatch", ![p].att = a]
        PROVE  /\ Alone(p) /\ proc'[p].pc = "dispatch" /\ proc'[p].att = a
               /\ proc'[p].attached = proc[p].attached /\ proc'[p].known = proc[p].known
    BY <1>2 DEF Alone, CallsTypeOK, CallRow
  <1> QED
    BY <1>1, <1>2

LEMMA SelectMoves ==
  ASSUME CallsTypeOK, NEW p \in Procs, Select(p)
  PROVE  Returned(p) \/ Moved(p, "budget")
  BY ReturnMoves DEF Select, Moved, Keeps, Alone, CallsTypeOK, CallRow

LEMMA SubmitMoves ==
  ASSUME CallsTypeOK, NEW p \in Procs, Submit(p)
  PROVE  /\ Alone(p) /\ proc'[p].pc = "wait" /\ proc'[p].known
         /\ proc'[p].att = proc[p].att /\ proc'[p].attached = proc[p].attached
  BY DEF Submit, Alone, CallsTypeOK, CallRow

LEMMA DiscardRowsMoves ==
  ASSUME CallsTypeOK, NEW p \in Procs, DiscardRows(p)
  PROVE  \/ At(p, "clean") /\ Moved(p, "clean_file")
         \/ At(p, "undo")  /\ Moved(p, "undo_file")
         \/ At(p, "late")  /\ Moved(p, "late_file")
         \/ At(p, "drop")  /\ Moved(p, "drop_file")
  BY DEF DiscardRows, At, Moved, Alone, Keeps, CallsTypeOK, CallRow

LEMMA DiscardFilesMoves ==
  ASSUME CallsTypeOK, NEW p \in Procs, DiscardFiles(p)
  PROVE  /\ Alone(p) /\ Keeps(p) /\ proc'[p].then = proc[p].then
         /\ proc'[p].todo = proc[p].todo \ {proc[p].att}
         /\ \/ At(p, "clean_file") /\ proc'[p].pc = "stage"
            \/ At(p, "undo_file")  /\ proc'[p].pc = "undone"
            \/ At(p, "late_file")  /\ proc'[p].pc = "settle_run"
            \/ At(p, "drop_file")  /\ proc'[p].pc = "drop_next"
  BY DEF DiscardFiles, At, Alone, Keeps, CallsTypeOK, CallRow

LEMMA EvaluateMoves ==
  ASSUME CallsTypeOK, NEW p \in Procs, Evaluate(p)
  PROVE  /\ Alone(p) /\ Keeps(p) /\ proc'[p].todo = proc[p].todo /\ env[proc[p].att] # "none"
         /\ \/ proc'[p].pc = "complete" /\ proc'[p].then = "failed"
            \/ proc'[p].pc = "prepare" /\ proc'[p].then = "succeeded"
            \/ proc'[p].pc = "complete" /\ proc'[p].then \in {"retry", "failed"} /\ "reject" \in Environment
  BY DEF Evaluate, Alone, Keeps, CallsTypeOK, CallRow

LEMMA OverBudgetMoves ==
  ASSUME CallsTypeOK, NEW p \in Procs, OverBudget(p)
  PROVE  Alone(p) /\ Keeps(p) /\ proc'[p].pc = "stop" /\ proc'[p].then = "late" /\ proc'[p].todo = proc[p].todo
  BY DEF OverBudget, Alone, Keeps, CallsTypeOK, CallRow

Leaves(p) == \/ proc[p].attached /\ ~ Holds(p)
             \/ proc[p].known /\ bound[proc[p].att] = "settled"

LEMMA FailingMoves ==
  ASSUME CallsTypeOK, NEW p \in Procs, Failing(p)
  PROVE  \/ Leaves(p) /\ Release(p) /\ Returned(p)
         \/ /\ ~ Leaves(p) /\ UNCHANGED dlock /\ Alone(p) /\ Keeps(p) /\ proc'[p].todo = proc[p].todo
            /\ proc'[p].then = "finish"
            /\ proc'[p].pc = IF proc[p].known \/ bound[proc[p].att] = "active" THEN "stop" ELSE "finish"
  <1>1. CASE Leaves(p)
    BY <1>1, ReturnMoves DEF Failing, Leaves
  <1>2. CASE ~ Leaves(p)
    <2>1. /\ proc' = [proc EXCEPT ![p].pc = IF proc[p].known \/ bound[proc[p].att] = "active" THEN "stop" ELSE "finish",
                                  ![p].then = "finish"]
          /\ UNCHANGED dlock
      BY <1>2 DEF Failing, Leaves
    <2> QED
      BY <1>2, <2>1 DEF Alone, Keeps, CallsTypeOK, CallRow
  <1> QED
    BY <1>1, <1>2

LEMMA CancelListMoves ==
  ASSUME CallsTypeOK, NEW p \in Procs, CancelList(p)
  PROVE  /\ Alone(p) /\ proc'[p].attached = proc[p].attached /\ proc'[p].known = proc[p].known
         /\ \/ /\ proc'[p].pc = "drop_next" /\ proc'[p].todo = {a \in Attempts : bound[a] = "discarded"}
               /\ proc'[p].att = proc[p].att
            \/ /\ proc'[p].pc = "cancel_stop" /\ proc'[p].todo = proc[p].todo
               /\ proc'[p].att \in OpenBindings
  BY DEF CancelList, First, Alone, CallsTypeOK, CallRow

LEMMA DropNextMoves ==
  ASSUME CallsTypeOK, NEW p \in Procs, DropNext(p)
  PROVE  \/ Returned(p) /\ UNCHANGED dlock
         \/ /\ Alone(p) /\ proc'[p].attached = proc[p].attached /\ proc'[p].known = proc[p].known
            /\ \/ /\ proc'[p].att \in proc[p].todo /\ proc'[p].att \in Attempts
                  /\ dlock[proc'[p].att] = Nobody /\ Lock(p, proc'[p].att)
                  /\ proc'[p].pc = "drop" /\ proc'[p].todo = proc[p].todo
               \/ /\ UNCHANGED dlock /\ proc'[p].pc = "drop_next" /\ proc'[p].todo \subseteq proc[p].todo
                  /\ proc'[p].att = proc[p].att
  <1>1. CASE proc[p].todo = {} /\ Return(p) /\ UNCHANGED dlock
    BY <1>1, ReturnMoves
  <1>2. ASSUME NEW a \in Attempts, First(a, proc[p].todo), At(p, "drop_next"), dlock[a] = Nobody,
               Lock(p, a), proc' = [proc EXCEPT ![p].pc = "drop", ![p].att = a]
        PROVE  /\ Alone(p) /\ proc'[p].attached = proc[p].attached /\ proc'[p].known = proc[p].known
               /\ proc'[p].att = a /\ a \in proc[p].todo /\ proc'[p].pc = "drop" /\ proc'[p].todo = proc[p].todo
    BY <1>2 DEF First, Alone, CallsTypeOK, CallRow
  <1>3. ASSUME NEW a \in Attempts, At(p, "drop_next"), proc' = [proc EXCEPT ![p].todo = @ \ {a}], UNCHANGED dlock
        PROVE  /\ Alone(p) /\ proc'[p].attached = proc[p].attached /\ proc'[p].known = proc[p].known
               /\ proc'[p].att = proc[p].att /\ proc'[p].pc = "drop_next" /\ proc'[p].todo \subseteq proc[p].todo
    BY <1>3 DEF At, Alone, CallsTypeOK, CallRow
  <1> QED
    BY <1>1, <1>2, <1>3 DEF DropNext

-----------------------------------------------------------------------------
(* The steps keep the types.                                                   *)

LEMMA GoType ==
  ASSUME CallsTypeOK, NEW p \in Procs, NEW l \in Pcs, Go(p, l)
  PROVE  CallsTypeOK'
  BY DEF CallsTypeOK, CallRow, Go

LEMMA ReturnType ==
  ASSUME CallsTypeOK, NEW p \in Procs, Return(p)
  PROVE  CallsTypeOK'
  BY StoreAssumption DEF CallsTypeOK, CallRow, Return, Idle, Pcs

LEMMA Places ==
  {"idle", "reconcile", "lost", "settle_call", "attach", "budget", "claim", "dispatch", "bind", "inputs", "wait",
   "look", "sleep", "locked", "reserve", "clean", "clean_file", "undo", "undo_file", "undone", "failing", "stop",
   "settle", "finish", "late", "late_file", "settle_run", "cancel_list", "cancel_stop", "cancel_settle", "drop_next",
   "drop", "drop_file", "stage", "evaluate", "prepare", "copy", "record", "promote", "complete"} \subseteq Pcs
  BY DEF Pcs, Staging

LEMMA CallRowUpdates ==
  /\ \A r \in CallRow, l \in Pcs, a \in Attempts : [r EXCEPT !.pc = l, !.att = a] \in CallRow
  /\ \A r \in CallRow, l \in Pcs, S \in SUBSET Attempts : [r EXCEPT !.pc = l, !.todo = S] \in CallRow
  <1>1. ASSUME NEW r \in CallRow, NEW l \in Pcs, NEW a \in 0 .. NumAttempts PROVE [r EXCEPT !.pc = l, !.att = a] \in CallRow
    BY <1>1 DEF CallRow
  <1>2. ASSUME NEW r \in CallRow, NEW l \in Pcs, NEW S \in SUBSET Attempts PROVE [r EXCEPT !.pc = l, !.todo = S] \in CallRow
    BY <1>2 DEF CallRow
  <1> QED
    BY <1>1, <1>2, Names

LEMMA RowType ==
  ASSUME CallsTypeOK, NEW p \in Procs, NEW r \in CallRow, proc' = [proc EXCEPT ![p] = r]
  PROVE  CallsTypeOK'
  BY DEF CallsTypeOK

\* Where a call goes is a place of the program.
LEMMA CallsType ==
  ASSUME TypeOK, OutcomesDecided, Next \/ Revise
  PROVE  CallsTypeOK'
  <1>0. CallsTypeOK /\ LedgerTypeOK
    BY TypeParts
  <1>a. tasks[task].attempts \in Nat
    BY <1>0, Names DEF LedgerTypeOK, TaskRow
  <1> SUFFICES ASSUME NEW p \in Procs,
                      \/ Step(p) \/ Call(p) \/ Cancel(p) \/ ObservationTimeout(p) \/ DispatcherRaises(p)
                      \/ DeliveryRaises(p) \/ OverBudget(p) \/ Crash(p)
               PROVE  CallsTypeOK'
    BY <1>0 DEF Next, Revise, Execution, AdapterReturns, ExecutionStops, PersistResult, SettleWorker, LeaseExpires, CallsTypeOK
  <1>1. CASE Call(p) \/ Reconcile(p) \/ SettleLost(p) \/ SettleCall(p) \/ CheckBudget(p) \/ Dispatch(p) \/ Bind(p)
             \/ StartFails(p) \/ Cancel(p) \/ ObservationTimeout(p) \/ DispatcherRaises(p) \/ DeliveryRaises(p)
    BY <1>0, <1>1, GoType, ReturnType, Places DEF Call, Reconcile, SettleLost, SettleCall, CheckBudget, Dispatch, Bind,
       StartFails, Cancel, ObservationTimeout, DispatcherRaises, DeliveryRaises
  <1>2. CASE Wait(p) \/ Look(p) \/ Sleep(p) \/ Locked(p) \/ Reserve(p) \/ Stage(p) \/ PrepareOutput(p) \/ CopyOutput(p)
             \/ RecordOutput(p) \/ PromoteOutput(p) \/ Complete(p) \/ Stop(p) \/ Finish(p) \/ FailureEnds(p) \/ Crash(p)
    BY <1>0, <1>2, GoType, ReturnType, Places DEF Wait, Look, Sleep, Locked, Reserve, Stage, PrepareOutput, CopyOutput,
       RecordOutput, PromoteOutput, Complete, Stop, Finish, FailureEnds, Crash
  <1>3. CASE Attach(p)
    <2>1. Return(p) \/ \E a \in Attempts :
             proc' = [proc EXCEPT ![p] = [Idle EXCEPT !.pc = "wait", !.att = a, !.attached = TRUE, !.known = TRUE,
                                                      !.tries = tasks[task].attempts]]
      BY <1>3 DEF Attach, OpenBindings
    <2>2. ASSUME NEW a \in Attempts
          PROVE  [Idle EXCEPT !.pc = "wait", !.att = a, !.attached = TRUE, !.known = TRUE,
                              !.tries = tasks[task].attempts] \in CallRow
      BY <1>a, Names, Places DEF CallRow, Idle
    <2> QED
      BY <1>0, <2>1, <2>2, ReturnType DEF CallsTypeOK
  <1>4. CASE Select(p)
    BY <1>0, <1>a, <1>4, ReturnType, Places DEF Select, CallsTypeOK, CallRow
  <1>5. CASE Claim(p)
    <2>1. Return(p) \/ \E a \in Attempts : proc' = [proc EXCEPT ![p].pc = "dispatch", ![p].att = a]
      BY <1>5 DEF Claim
    <2>2. ASSUME NEW a \in Attempts, proc' = [proc EXCEPT ![p].pc = "dispatch", ![p].att = a] PROVE CallsTypeOK'
      <3> DEFINE r == [proc[p] EXCEPT !.pc = "dispatch", !.att = a]
      <3>1. r \in CallRow
        BY <1>0, CallRowUpdates, Places DEF CallsTypeOK
      <3>2. proc' = [proc EXCEPT ![p] = r]
        BY <2>2
      <3> HIDE DEF r
      <3> QED
        BY <1>0, <3>1, <3>2, RowType
    <2> QED
      BY <1>0, <2>1, <2>2, ReturnType
  <1>6. CASE Submit(p)
    BY <1>0, <1>6, Places DEF Submit, CallsTypeOK, CallRow
  <1>7. CASE DiscardRows(p)
    BY <1>0, <1>7, Places DEF DiscardRows, CallsTypeOK, CallRow
  <1>8. CASE DiscardFiles(p)
    <2> DEFINE a == proc[p].att
    <2>1. PICK l \in {"stage", "undone", "settle_run", "drop_next"} :
             proc' = [proc EXCEPT ![p].pc = l, ![p].todo = @ \ {a}]
      BY <1>8 DEF DiscardFiles
    <2> DEFINE S == proc[p].todo \ {a}
               r == [proc[p] EXCEPT !.pc = l, !.todo = S]
    <2>2. S \in SUBSET Attempts /\ proc[p] \in CallRow
      BY <1>0 DEF CallsTypeOK, CallRow
    <2>3. proc' = [proc EXCEPT ![p] = r]
      BY <2>1
    <2> HIDE DEF a, S
    <2>4. r \in CallRow
      BY <2>2, CallRowUpdates, Places
    <2> HIDE DEF r
    <2> QED
      BY <1>0, <2>3, <2>4, RowType
  <1>9. CASE Evaluate(p)
    BY <1>0, <1>9, Places DEF Evaluate, CallsTypeOK, CallRow
  <1>10. CASE OverBudget(p)
    BY <1>0, <1>10, Places DEF OverBudget, CallsTypeOK, CallRow
  <1>11. CASE Failing(p)
    BY <1>0, <1>11, ReturnType, Places DEF Failing, CallsTypeOK, CallRow
  <1>12. CASE SettleDiscarded(p)
    <2>1. CASE At(p, "settle")
      <3>1. Go(p, proc[p].then) /\ proc[p].then \in {"finish", "late"}
        BY <1>12, <2>1 DEF SettleDiscarded, At, OutcomesDecided, OutcomeDecided
      <3> QED
        BY <1>0, <3>1, GoType, Places
    <2>2. CASE ~ At(p, "settle")
      BY <1>0, <1>12, <2>2, GoType, Places DEF SettleDiscarded, At
    <2> QED
      BY <2>1, <2>2
  <1>13. CASE CancelList(p)
    BY <1>0, <1>13, Places, Names DEF CancelList, CallsTypeOK, CallRow
  <1>14. CASE DropNext(p)
    BY <1>0, <1>14, ReturnType, Places, Names DEF DropNext, Lock, CallsTypeOK, CallRow
  <1> QED
    BY <1>1, <1>2, <1>3, <1>4, <1>5, <1>6, <1>7, <1>8, <1>9, <1>10, <1>11, <1>12, <1>13, <1>14 DEF Step

\* An attempt row that was written stays written.
LEMMA UsedStays ==
  ASSUME TypeOK, OutcomesDecided, Next \/ Revise, NEW a \in Attempts, Used(a)
  PROVE  Used(a)'
  <1>0. LedgerTypeOK /\ CallsTypeOK
    BY TypeParts
  <1>1. \A limit : FailBudget(limit) => Used(a)'
    BY <1>0 DEF FailBudget, EndRunningAttempts, ledger, LedgerTypeOK, AttemptRow, Used
  <1>2. CancelRun => Used(a)'
    BY <1>0 DEF CancelRun, EndRunningAttempts, LedgerTypeOK, AttemptRow, Used
  <1>3. \A b : FinishTask(task, b, FALSE) => Used(a)'
    BY <1>0 DEF FinishTask, LedgerTypeOK, AttemptRow, Used
  <1>4. SettleRun => Used(a)'
    BY DEF SettleRun, Used
  <1>5. UNCHANGED ledger => Used(a)'
    BY DEF ledger, Used
  <1>6. \A b \in Attempts : ClaimTask(task, b, FALSE) => Used(a)'
    BY <1>0 DEF ClaimTask, LedgerTypeOK, Used
  <1>7. ASSUME NEW b, NEW o \in {"succeeded", "failed", "retry"}, CompleteWorkerBinding(b, o) PROVE Used(a)'
    BY <1>0, <1>7 DEF CompleteWorkerBinding, LedgerTypeOK, AttemptRow, Used
  <1>8. ASSUME NEW p \in Procs, Step(p) PROVE Used(a)'
    <2>1. CASE Complete(p)
      BY <1>5, <1>7, <2>1 DEF Complete, OutcomesDecided, OutcomeDecided, At, ledger
    <2>2. CASE Claim(p)
      BY <1>5, <1>6, <2>2 DEF Claim
    <2>3. CASE SettleLost(p) \/ SettleCall(p) \/ CheckBudget(p) \/ Finish(p) \/ FailureEnds(p)
      BY <1>1, <1>3, <1>4, <1>5, <2>3 DEF SettleLost, SettleCall, CheckBudget, Finish, FailureEnds
    <2>4. CASE Reconcile(p) \/ Attach(p) \/ Select(p) \/ Dispatch(p) \/ Bind(p) \/ Submit(p) \/ StartFails(p) \/ Wait(p)
               \/ Look(p) \/ Sleep(p) \/ Locked(p) \/ Reserve(p)
      BY <1>5, <2>4 DEF Reconcile, Attach, Select, Dispatch, Bind, Submit, StartFails, Wait, Look, Sleep, Locked, Reserve, store
    <2>5. CASE DiscardRows(p) \/ DiscardFiles(p) \/ Stage(p) \/ Evaluate(p) \/ PrepareOutput(p) \/ CopyOutput(p)
               \/ RecordOutput(p) \/ PromoteOutput(p) \/ Failing(p) \/ Stop(p) \/ SettleDiscarded(p) \/ CancelList(p) \/ DropNext(p)
      BY <1>5, <2>5 DEF DiscardRows, DiscardFiles, Stage, Evaluate, PrepareOutput, CopyOutput, RecordOutput, PromoteOutput,
         Failing, Stop, SettleDiscarded, CancelList, DropNext, store
    <2> QED
      BY <1>8, <2>1, <2>2, <2>3, <2>4, <2>5 DEF Step
  <1>9. ASSUME NEW p \in Procs, \/ Call(p) \/ Cancel(p) \/ ObservationTimeout(p) \/ DispatcherRaises(p)
                                \/ DeliveryRaises(p) \/ OverBudget(p) \/ Crash(p)
        PROVE  Used(a)'
    BY <1>1, <1>2, <1>5, <1>9 DEF Call, Cancel, ObservationTimeout, DispatcherRaises, DeliveryRaises, OverBudget, Crash, store
  <1>10. CASE Revise
    BY <1>10 DEF Revise, CommitPlanRevision, Used
  <1>11. ASSUME NEW b \in Attempts, Execution(b) \/ LeaseExpires(b) PROVE Used(a)'
    BY <1>5, <1>11 DEF Execution, LeaseExpires, AdapterReturns, ExecutionStops, PersistResult, SettleWorker, store
  <1> QED
    BY <1>8, <1>9, <1>10, <1>11 DEF Next

LEMMA LedgerType ==
  ASSUME TypeOK, OutcomesDecided, CallsHaveAttempts, Next \/ Revise
  PROVE  LedgerTypeOK'
  <1>0. LedgerTypeOK /\ CallsTypeOK /\ {"max_attempts", "max_runtime_seconds"} \subseteq Limits
    BY TypeParts DEF Limits
  <1>1. UNCHANGED ledger => LedgerTypeOK'
    BY <1>0 DEF ledger, LedgerTypeOK
  <1>2. ASSUME NEW b \in Attempts, NEW o \in {"succeeded", "failed", "retry"}, CompleteWorkerBinding(b, o) PROVE LedgerTypeOK'
    <2>1. tasks' \in [Tasks -> TaskRow] /\ atts' \in [Attempts -> AttemptRow]
      BY <1>0, <1>2, RowUpdates, Constants DEF CompleteWorkerBinding, LedgerTypeOK
    <2> DEFINE s == IF run.status = "cancelled" THEN run.status ELSE DerivedStatus'
    <2>2. s \in RunStatus
      <3>1. (DerivedStatus \in RunStatus)'
        BY DEF DerivedStatus, RunStatus
      <3> QED
        BY <1>0, <3>1 DEF LedgerTypeOK, RunRow
    <2>3. run' = [run EXCEPT !.status = s]
      BY <1>2 DEF CompleteWorkerBinding
    <2> HIDE DEF s
    <2> QED
      BY <1>0, <2>1, <2>2, <2>3, RunUpdates DEF LedgerTypeOK
  <1>3. ASSUME NEW p \in Procs, Step(p) PROVE LedgerTypeOK'
    <2>1. CASE Complete(p)
      <3>1. proc[p].att \in Attempts
        BY <2>1 DEF Complete, CallsHaveAttempts, CallHasAttempt, At, Between, NoAttYet
      <3> QED
        BY <1>1, <1>2, <2>1, <3>1 DEF Complete, OutcomesDecided, OutcomeDecided, At, ledger
    <2>2. CASE Claim(p)
      BY <1>0, <1>1, <2>2, ClaimTaskType, Names DEF Claim
    <2>3. CASE SettleLost(p)
      BY <1>0, <1>1, <2>3, FinishTaskType, Names DEF SettleLost
    <2>4. CASE Finish(p)
      <3>1. proc[p].att \in Attempts
        BY <2>4 DEF Finish, CallsHaveAttempts, CallHasAttempt, At, Between, NoAttYet
      <3> QED
        BY <1>0, <1>1, <2>4, <3>1, FinishTaskType, Names DEF Finish
    <2>5. CASE SettleCall(p) \/ CheckBudget(p) \/ FailureEnds(p)
      BY <1>0, <1>1, <2>5, FailBudgetType, SettleRunType DEF SettleCall, CheckBudget, FailureEnds
    <2>6. CASE Reconcile(p) \/ Attach(p) \/ Select(p) \/ Dispatch(p) \/ Bind(p) \/ Submit(p) \/ StartFails(p) \/ Wait(p)
               \/ Look(p) \/ Sleep(p) \/ Locked(p) \/ Reserve(p)
      BY <1>1, <2>6 DEF Reconcile, Attach, Select, Dispatch, Bind, Submit, StartFails, Wait, Look, Sleep, Locked, Reserve, store
    <2>7. CASE DiscardRows(p) \/ DiscardFiles(p) \/ Stage(p) \/ Evaluate(p) \/ PrepareOutput(p) \/ CopyOutput(p)
               \/ RecordOutput(p) \/ PromoteOutput(p) \/ Failing(p) \/ Stop(p) \/ SettleDiscarded(p) \/ CancelList(p) \/ DropNext(p)
      BY <1>1, <2>7 DEF DiscardRows, DiscardFiles, Stage, Evaluate, PrepareOutput, CopyOutput, RecordOutput, PromoteOutput,
         Failing, Stop, SettleDiscarded, CancelList, DropNext, store
    <2> QED
      BY <1>3, <2>1, <2>2, <2>3, <2>4, <2>5, <2>6, <2>7 DEF Step
  <1>4. ASSUME NEW p \in Procs, \/ Call(p) \/ Cancel(p) \/ ObservationTimeout(p) \/ DispatcherRaises(p)
                                \/ DeliveryRaises(p) \/ OverBudget(p) \/ Crash(p)
        PROVE  LedgerTypeOK'
    BY <1>0, <1>1, <1>4, CancelRunType, FailBudgetType
       DEF Call, Cancel, ObservationTimeout, DispatcherRaises, DeliveryRaises, OverBudget, Crash, store
  <1>5. CASE Revise
    <2>1. run.version \in Nat /\ tasks \in [Tasks -> TaskRow]
      BY <1>0 DEF LedgerTypeOK, RunRow
    <2>2. \A t \in DOMAIN FirstPlan : FirstPlan[t] \subseteq Tasks
      BY StoreAssumption
    <2> QED
      BY <1>0, <1>5, <2>1, <2>2, CommitPlanRevisionType DEF Revise
  <1>6. ASSUME NEW b \in Attempts, Execution(b) \/ LeaseExpires(b) PROVE LedgerTypeOK'
    BY <1>1, <1>6 DEF Execution, LeaseExpires, AdapterReturns, ExecutionStops, PersistResult, SettleWorker, store
  <1> QED
    BY <1>3, <1>4, <1>5, <1>6 DEF Next

\* Bindings, workers, locks and artifacts are written within their types.
LEMMA DeliveryType ==
  ASSUME TypeOK, CallsHaveAttempts, Next \/ Revise
  PROVE  DeliveryTypeOK' /\ ArtifactsTypeOK'
  <1>0. DeliveryTypeOK /\ CallsTypeOK /\ ArtifactsTypeOK
    BY TypeParts
  <1>a. \A p \in Procs : proc[p].pc \notin Between => proc[p].att \in Attempts
    BY DEF CallsHaveAttempts, CallHasAttempt
  <1>b. UNCHANGED <<bound, stale, worker, dlock, prepared, dropped, crashes>> => DeliveryTypeOK'
    BY <1>0 DEF DeliveryTypeOK, worker
  <1>c. UNCHANGED artifacts => ArtifactsTypeOK'
    BY <1>0 DEF ArtifactsTypeOK, artifacts
  <1>d. ASSUME NEW p \in Procs, NEW a \in Attempts, Release(p) \/ Lock(p, a)
        PROVE  dlock' \in [Attempts -> Procs \cup {Nobody}]
    BY <1>0, <1>d DEF Release, Lock, DeliveryTypeOK
  <1>1. ASSUME NEW p \in Procs, SettleLost(p) \/ SettleCall(p) \/ Attach(p) \/ Select(p) \/ CheckBudget(p) \/ Claim(p)
                 \/ Wait(p) \/ Sleep(p) \/ Evaluate(p) \/ Finish(p) \/ CancelList(p)
                 \/ Call(p) \/ Cancel(p) \/ ObservationTimeout(p) \/ DispatcherRaises(p) \/ DeliveryRaises(p) \/ OverBudget(p)
        PROVE  DeliveryTypeOK' /\ ArtifactsTypeOK'
    BY <1>b, <1>c, <1>1 DEF SettleLost, SettleCall, Attach, Select, CheckBudget, Claim, Wait, Sleep, Evaluate, Finish,
       CancelList, Call, Cancel, ObservationTimeout, DispatcherRaises, DeliveryRaises, OverBudget, store
  <1>2. ASSUME NEW p \in Procs, Reconcile(p) \/ Dispatch(p) \/ Bind(p) \/ Submit(p) \/ StartFails(p) \/ Stop(p) \/ SettleDiscarded(p)
        PROVE  DeliveryTypeOK' /\ ArtifactsTypeOK'
    BY <1>0, <1>c, <1>2 DEF Reconcile, Dispatch, Bind, BindWorker, Submit, StartFails, Stop, SettleDiscarded,
       SettleWorkerBinding, CancelWorker, Abandoned, store, worker, DeliveryTypeOK, Open
  <1>3. ASSUME NEW p \in Procs, Look(p) \/ Failing(p) \/ FailureEnds(p) \/ DropNext(p)
        PROVE  DeliveryTypeOK' /\ ArtifactsTypeOK'
    <2>1. dlock' \in [Attempts -> Procs \cup {Nobody}]
      BY <1>0, <1>3 DEF Look, Failing, FailureEnds, DropNext, Release, Lock, DeliveryTypeOK
    <2> QED
      BY <1>0, <1>c, <1>3, <2>1 DEF Look, Failing, FailureEnds, DropNext, store, worker, DeliveryTypeOK
  <1>4. ASSUME NEW p \in Procs, Locked(p) \/ Reserve(p) \/ Complete(p)
        PROVE  DeliveryTypeOK' /\ ArtifactsTypeOK'
    <2>1. dlock' \in [Attempts -> Procs \cup {Nobody}]
      BY <1>0, <1>4 DEF Locked, Reserve, Complete, Release, DeliveryTypeOK
    <2>2. bound' \in [Attempts -> Open \cup {"none", "settled", "discarded", "lost"}] /\ stale' \subseteq Attempts
      BY <1>0, <1>4 DEF Locked, Reserve, Complete, CompleteWorkerBinding, DeliveryTypeOK, Open
    <2>3. passed' \subseteq Attempts
      <3>1. At(p, "complete") => proc[p].att \in Attempts
        BY <1>a DEF At, Between, NoAttYet
      <3> QED
        BY <1>0, <1>4, <3>1 DEF Locked, Reserve, Complete, CompleteWorkerBinding, ArtifactsTypeOK, artifacts, store
    <2>4. UNCHANGED <<results, outputs, promoted, file, worker, prepared, dropped, crashes>>
      BY <1>4 DEF Locked, Reserve, Complete, artifacts, store
    <2> QED
      BY <1>0, <2>1, <2>2, <2>3, <2>4 DEF DeliveryTypeOK, ArtifactsTypeOK, worker
  <1>5. ASSUME NEW p \in Procs, DiscardRows(p) \/ DiscardFiles(p) \/ Stage(p) \/ PrepareOutput(p) \/ CopyOutput(p)
                 \/ RecordOutput(p) \/ PromoteOutput(p)
        PROVE  DeliveryTypeOK' /\ ArtifactsTypeOK'
    <2>1. proc[p].att \in Attempts
      BY <1>a, <1>5 DEF DiscardRows, DiscardFiles, Stage, PrepareOutput, CopyOutput, RecordOutput, PromoteOutput, At, Between, NoAttYet
    <2>2. dlock' \in [Attempts -> Procs \cup {Nobody}]
      BY <1>0, <1>5 DEF DiscardRows, DiscardFiles, Stage, PrepareOutput, CopyOutput, RecordOutput, PromoteOutput, Release, DeliveryTypeOK
    <2>3. ArtifactsTypeOK'
      BY <1>0, <1>5, <2>1 DEF DiscardRows, DiscardFiles, Stage, PrepareOutput, CopyOutput, RecordOutput, PromoteOutput,
         ArtifactsTypeOK, artifacts, store
    <2>4. UNCHANGED <<bound, stale, worker, dropped, crashes>> /\ prepared' \subseteq Attempts
      BY <1>0, <1>5, <2>1 DEF DiscardRows, DiscardFiles, Stage, PrepareOutput, CopyOutput, RecordOutput, PromoteOutput, DeliveryTypeOK
    <2> QED
      BY <1>0, <2>2, <2>3, <2>4 DEF DeliveryTypeOK, worker
  <1>6. ASSUME NEW p \in Procs, Crash(p) PROVE DeliveryTypeOK' /\ ArtifactsTypeOK'
    BY <1>0, <1>c, <1>6 DEF Crash, Release, store, DeliveryTypeOK
  <1>7. CASE Revise
    BY <1>b, <1>c, <1>7 DEF Revise
  <1>8. ASSUME NEW a \in Attempts, Execution(a) \/ LeaseExpires(a) PROVE DeliveryTypeOK' /\ ArtifactsTypeOK'
    BY <1>0, <1>c, <1>8 DEF Execution, LeaseExpires, AdapterReturns, ExecutionStops, PersistResult, SettleWorker, CancelWorker,
       worker, store, DeliveryTypeOK
  <1> QED
    BY <1>1, <1>2, <1>3, <1>4, <1>5, <1>6, <1>7, <1>8 DEF Next, Step

LEMMA TypeStep ==
  ASSUME TypeOK, CallsHaveAttempts, OutcomesDecided, Next \/ Revise
  PROVE  TypeOK'
  BY TypePartsNext, CallsType, LedgerType, DeliveryType

-----------------------------------------------------------------------------
(* Where a call can be, with which attempt and which outcome.                  *)

\* Every step of a call but those that change what it knows is a move or a return.
LEMMA Moves ==
  ASSUME CallsTypeOK, NEW p \in Procs
  PROVE  /\ Call(p)          => At(p, "idle") /\ Moved(p, "reconcile")
         /\ Reconcile(p)     => At(p, "reconcile") /\ Moved(p, "lost")
         /\ SettleLost(p)    => At(p, "lost") /\ Moved(p, "settle_call")
         /\ SettleCall(p)    => At(p, "settle_call") /\ Moved(p, "attach")
         /\ CheckBudget(p)   => At(p, "budget") /\ (Returned(p) \/ Moved(p, "claim"))
         /\ Dispatch(p)      => At(p, "dispatch") /\ Moved(p, "bind")
         /\ Bind(p)          => At(p, "bind") /\ Moved(p, "inputs")
         /\ StartFails(p)    => proc[p].pc \in {"bind", "inputs"} /\ Moved(p, "failing")
         /\ Wait(p)          => At(p, "wait") /\ Moved(p, "look")
         /\ Look(p)          => At(p, "look") /\ (Returned(p) \/ \E l \in {"failing", "locked", "sleep"} : Moved(p, l))
         /\ Sleep(p)         => At(p, "sleep") /\ Moved(p, "look")
         /\ Locked(p)        => At(p, "locked") /\ \E l \in {"reserve", "sleep", "look"} : Moved(p, l)
         /\ Reserve(p)       => At(p, "reserve") /\ (Moved(p, "clean") \/ Moved(p, "sleep"))
         /\ Stage(p)         => At(p, "stage") /\ (Moved(p, "failing") \/ Moved(p, "evaluate"))
         /\ PrepareOutput(p) => At(p, "prepare") /\ Moved(p, "copy")
         /\ CopyOutput(p)    => At(p, "copy") /\ Moved(p, "record")
         /\ RecordOutput(p)  => At(p, "record") /\ Moved(p, "promote")
         /\ PromoteOutput(p) => At(p, "promote") /\ Moved(p, "complete")
         /\ Complete(p)      => At(p, "complete") /\ (Returned(p) \/ Moved(p, "undo"))
         /\ Stop(p)          => \/ At(p, "stop") /\ Moved(p, "settle")
                                \/ At(p, "cancel_stop") /\ Moved(p, "cancel_settle")
         /\ SettleDiscarded(p) => \/ At(p, "undone") /\ Moved(p, "failing")
                                  \/ At(p, "settle") /\ Moved(p, proc[p].then)
                                  \/ At(p, "cancel_settle") /\ Moved(p, "cancel_list")
         /\ Finish(p)        => At(p, "finish") /\ Moved(p, "late")
         /\ FailureEnds(p)   => At(p, "settle_run") /\ Returned(p)
         /\ Cancel(p)        => At(p, "idle") /\ Moved(p, "cancel_list")
         /\ ObservationTimeout(p) => proc[p].pc \in {"wait", "sleep"} /\ Returned(p)
         /\ DispatcherRaises(p) => At(p, "wait") /\ ~ proc[p].attached /\ Moved(p, "failing")
         /\ DeliveryRaises(p)   => /\ proc[p].pc \in Staging \cup {"locked", "reserve", "clean", "clean_file"}
                                   /\ Moved(p, "failing")
         /\ Crash(p)         => Returned(p)
  <1>1. \A l : Go(p, l) => Moved(p, l)
    BY GoMoves
  <1>2. Return(p) => Returned(p)
    BY ReturnMoves
  <1>3. /\ Call(p)          => At(p, "idle") /\ Moved(p, "reconcile")
        /\ Reconcile(p)     => At(p, "reconcile") /\ Moved(p, "lost")
        /\ SettleLost(p)    => At(p, "lost") /\ Moved(p, "settle_call")
        /\ SettleCall(p)    => At(p, "settle_call") /\ Moved(p, "attach")
        /\ CheckBudget(p)   => At(p, "budget") /\ (Returned(p) \/ Moved(p, "claim"))
        /\ Dispatch(p)      => At(p, "dispatch") /\ Moved(p, "bind")
        /\ Bind(p)          => At(p, "bind") /\ Moved(p, "inputs")
        /\ StartFails(p)    => proc[p].pc \in {"bind", "inputs"} /\ Moved(p, "failing")
    BY <1>1, <1>2 DEF Call, Reconcile, SettleLost, SettleCall, CheckBudget, Dispatch, Bind, StartFails, At
  <1>4. /\ Wait(p)          => At(p, "wait") /\ Moved(p, "look")
        /\ Look(p)          => At(p, "look") /\ (Returned(p) \/ \E l \in {"failing", "locked", "sleep"} : Moved(p, l))
        /\ Sleep(p)         => At(p, "sleep") /\ Moved(p, "look")
        /\ Locked(p)        => At(p, "locked") /\ \E l \in {"reserve", "sleep", "look"} : Moved(p, l)
        /\ Reserve(p)       => At(p, "reserve") /\ (Moved(p, "clean") \/ Moved(p, "sleep"))
        /\ Stage(p)         => At(p, "stage") /\ (Moved(p, "failing") \/ Moved(p, "evaluate"))
    BY <1>1, <1>2 DEF Wait, Look, Sleep, Locked, Reserve, Stage
  <1>5. /\ PrepareOutput(p) => At(p, "prepare") /\ Moved(p, "copy")
        /\ CopyOutput(p)    => At(p, "copy") /\ Moved(p, "record")
        /\ RecordOutput(p)  => At(p, "record") /\ Moved(p, "promote")
        /\ PromoteOutput(p) => At(p, "promote") /\ Moved(p, "complete")
        /\ Complete(p)      => At(p, "complete") /\ (Returned(p) \/ Moved(p, "undo"))
    BY <1>1, <1>2 DEF PrepareOutput, CopyOutput, RecordOutput, PromoteOutput, Complete
  <1>6. /\ Stop(p)          => \/ At(p, "stop") /\ Moved(p, "settle")
                               \/ At(p, "cancel_stop") /\ Moved(p, "cancel_settle")
        /\ SettleDiscarded(p) => \/ At(p, "undone") /\ Moved(p, "failing")
                                 \/ At(p, "settle") /\ Moved(p, proc[p].then)
                                 \/ At(p, "cancel_settle") /\ Moved(p, "cancel_list")
    BY <1>1 DEF Stop, SettleDiscarded, At
  <1>7. /\ Finish(p)        => At(p, "finish") /\ Moved(p, "late")
        /\ FailureEnds(p)   => At(p, "settle_run") /\ Returned(p)
        /\ Cancel(p)        => At(p, "idle") /\ Moved(p, "cancel_list")
        /\ ObservationTimeout(p) => proc[p].pc \in {"wait", "sleep"} /\ Returned(p)
        /\ DispatcherRaises(p) => At(p, "wait") /\ ~ proc[p].attached /\ Moved(p, "failing")
        /\ DeliveryRaises(p)   => /\ proc[p].pc \in Staging \cup {"locked", "reserve", "clean", "clean_file"}
                                  /\ Moved(p, "failing")
        /\ Crash(p)         => Returned(p)
    BY <1>1, <1>2 DEF Finish, FailureEnds, Cancel, ObservationTimeout, DispatcherRaises, DeliveryRaises, Crash, At
  <1> QED
    BY <1>3, <1>4, <1>5, <1>6, <1>7

\* The steps of one process.
ActsFor(p) == \/ Step(p) \/ Call(p) \/ Cancel(p) \/ ObservationTimeout(p) \/ DispatcherRaises(p)
              \/ DeliveryRaises(p) \/ OverBudget(p) \/ Crash(p)

LEMMA OnlyCallsMove ==
  ASSUME Next \/ Revise, ~ \E p \in Procs : ActsFor(p)
  PROVE  UNCHANGED proc
  BY DEF Next, ActsFor, Revise, Execution, AdapterReturns, ExecutionStops, PersistResult, SettleWorker, LeaseExpires

LEMMA CallsHaveAttemptsStep ==
  ASSUME TypeOK, OutcomesDecided, CallsHaveAttempts, UnusedIsBlank, ReservationHolds, Next \/ Revise
  PROVE  CallsHaveAttempts'
  <1>0. CallsTypeOK
    BY TypeParts
  <1>a. \A a \in Attempts : Used(a) => Used(a)'
    BY UsedStays
  <1>b. CASE ~ \E p \in Procs : ActsFor(p)
    BY <1>a, <1>b, OnlyCallsMove DEF CallsHaveAttempts, CallHasAttempt
  <1>c. ASSUME NEW p \in Procs, Alone(p), CallHasAttempt(p)' PROVE CallsHaveAttempts'
    BY <1>a, <1>c DEF CallsHaveAttempts, CallHasAttempt, Alone
  <1> SUFFICES ASSUME NEW p \in Procs, ActsFor(p) PROVE CallsHaveAttempts'
    BY <1>b
  <1>h. CallHasAttempt(p)
    BY DEF CallsHaveAttempts
  <1>r. Returned(p) => CallsHaveAttempts'
    BY <1>c DEF Returned, Idle, CallHasAttempt, Between, NoAttYet, Starting, Observing, Taking, Reserving, Cleaning,
       Staging, Undoing, Canceling, Dropping
  <1>m. ASSUME NEW l, Moved(p, l),
               \/ l \in NoAttYet /\ proc[p].pc \in NoAttYet
               \/ l \in {"bind", "inputs"} /\ proc[p].pc \in Starting
               \/ l = "failing" /\ proc[p].pc \notin Between
               \/ l \in Observing \cup Taking \cup Reserving /\ proc[p].pc \in Observing \cup Taking \cup Reserving
        PROVE  CallsHaveAttempts'
    <2>1. Alone(p) /\ proc'[p].pc = l /\ proc'[p].att = proc[p].att /\ proc'[p].attached = proc[p].attached
          /\ proc'[p].known = proc[p].known
      BY <1>m DEF Moved, Keeps
    <2> QED
      BY <1>a, <1>c, <1>h, <1>m, <2>1 DEF CallHasAttempt, Used, Between, NoAttYet, Starting, Observing, Taking, Reserving, Cleaning,
         Staging, Undoing, Canceling, Dropping
  <1>1. CASE Call(p) \/ Reconcile(p) \/ SettleLost(p) \/ SettleCall(p) \/ CheckBudget(p) \/ Dispatch(p) \/ Bind(p) \/ StartFails(p)
    BY <1>0, <1>1, <1>r, <1>m, Moves DEF NoAttYet, Starting, Between, At
  <1>2. CASE Wait(p) \/ Look(p) \/ Sleep(p) \/ Locked(p) \/ Reserve(p) \/ Stage(p) \/ PrepareOutput(p) \/ CopyOutput(p)
             \/ RecordOutput(p) \/ PromoteOutput(p) \/ Complete(p)
    BY <1>0, <1>2, <1>r, <1>m, Moves DEF NoAttYet, Between, At, Observing, Taking, Reserving, Cleaning, Staging, Undoing
  <1>3. CASE \/ DiscardRows(p) \/ Stop(p) \/ SettleDiscarded(p) \/ Finish(p) \/ Cancel(p)
    <2>1. PICK l : /\ Moved(p, l)
                   /\ \/ l \in {"clean_file", "undo_file"} /\ proc[p].pc \in Reserving
                      \/ l = "drop_file" /\ proc[p].pc \in Dropping
                      \/ l \in {"late_file", "settle", "finish", "late", "failing"} /\ proc[p].pc \notin Between \cup Canceling
                      \/ l = "cancel_settle" /\ proc[p].pc \in Canceling
                      \/ l = "cancel_list" /\ proc[p].pc \in Canceling
                      \/ l = "cancel_list" /\ proc[p].pc = "idle"
      BY <1>0, <1>3, DiscardRowsMoves, Moves DEF At, Between, NoAttYet, Canceling, Dropping, Reserving, Cleaning, Undoing,
         OutcomesDecided, OutcomeDecided
    <2>2. /\ Alone(p) /\ proc'[p].pc = l /\ proc'[p].att = proc[p].att /\ proc'[p].attached = proc[p].attached
          /\ proc'[p].known = proc[p].known
      BY <2>1 DEF Moved, Keeps
    <2> QED
      BY <1>a, <1>c, <1>h, <2>1, <2>2 DEF CallHasAttempt, Used, Between, NoAttYet, Starting, Observing, Taking, Reserving,
         Cleaning, Staging, Undoing, Canceling, Dropping
  <1>4. CASE FailureEnds(p) \/ ObservationTimeout(p) \/ Crash(p)
    BY <1>0, <1>4, <1>r, Moves
  <1>5. CASE DispatcherRaises(p) \/ DeliveryRaises(p)
    BY <1>0, <1>5, <1>m, Moves DEF Between, NoAttYet, Staging, At
  <1>6. CASE Attach(p)
    <2>1. CASE Returned(p)
      BY <1>r, <2>1
    <2>2. ASSUME NEW b \in OpenBindings, atts[b].status = "running", Alone(p), proc'[p].pc = "wait", proc'[p].att = b,
                 proc'[p].attached, proc'[p].known
          PROVE  CallsHaveAttempts'
      <3>1. b \in Attempts /\ Used(b)
        BY <2>2 DEF OpenBindings, Used
      <3> QED
        BY <1>a, <1>c, <2>2, <3>1 DEF CallHasAttempt, Used, Between, NoAttYet, Starting, Observing, Canceling, Dropping
    <2> QED
      BY <1>0, <1>6, <2>1, <2>2, AttachMoves
  <1>7. CASE Claim(p)
    <2>1. CASE Returned(p)
      BY <1>r, <2>1
    <2>2. ASSUME NEW b \in Attempts, ClaimTask(task, b, FALSE), Alone(p), proc'[p].pc = "dispatch", proc'[p].att = b,
                 proc'[p].attached = proc[p].attached, proc'[p].known = proc[p].known
          PROVE  CallsHaveAttempts'
      <3>1. atts'[b].status = "running" /\ At(p, "claim")
        BY <1>0, <1>7, <2>2, TypeParts DEF ClaimTask, Claim, LedgerTypeOK
      <3> QED
        BY <1>c, <1>h, <2>2, <3>1 DEF CallHasAttempt, Used, At, Between, NoAttYet, Starting, Observing, Taking, Reserving,
           Cleaning, Staging, Undoing, Canceling, Dropping
    <2> QED
      BY <1>0, <1>7, <2>1, <2>2, ClaimMoves
  <1>8. CASE Select(p)
    BY <1>0, <1>8, <1>r, <1>m, SelectMoves DEF Select, At, NoAttYet
  <1>9. CASE Submit(p)
    BY <1>0, <1>9, <1>a, <1>c, <1>h, SubmitMoves DEF Submit, At, CallHasAttempt, Used, Between, NoAttYet, Starting,
       Observing, Taking, Reserving, Cleaning, Staging, Undoing, Canceling, Dropping
  <1>10. CASE DiscardFiles(p) \/ Evaluate(p) \/ OverBudget(p)
    <2> DEFINE l == proc'[p].pc
    <2>1. Alone(p) /\ Keeps(p)
      BY <1>0, <1>10, DiscardFilesMoves, EvaluateMoves, OverBudgetMoves
    <2>2. CASE DiscardFiles(p)
      <3>1. \/ l \in {"stage", "undone"} /\ proc[p].pc \in {"clean_file", "undo_file"}
            \/ l = "settle_run" /\ proc[p].pc = "late_file"
            \/ l = "drop_next" /\ proc[p].pc = "drop_file"
        BY <1>0, <2>2, DiscardFilesMoves DEF At
      <3> QED
        BY <1>a, <1>c, <1>h, <2>1, <3>1 DEF Alone, Keeps, CallHasAttempt, Used, Between, NoAttYet, Starting, Observing, Taking,
           Reserving, Cleaning, Staging, Undoing, Canceling, Dropping
    <2>3. CASE Evaluate(p) \/ OverBudget(p)
      <3>1. l \in {"complete", "prepare", "stop"} /\ proc[p].pc \in {"stage", "evaluate", "complete"}
        <4>1. Evaluate(p) => At(p, "evaluate")
          BY DEF Evaluate
        <4>2. OverBudget(p) => proc[p].pc \in {"stage", "evaluate", "complete"}
          BY DEF OverBudget
        <4> QED
          BY <1>0, <2>3, <4>1, <4>2, EvaluateMoves, OverBudgetMoves DEF At
      <3> QED
        BY <1>a, <1>c, <1>h, <2>1, <3>1 DEF Alone, Keeps, CallHasAttempt, Used, Between, NoAttYet, Starting, Observing, Taking,
           Reserving, Cleaning, Staging, Undoing, Canceling, Dropping
    <2> QED
      BY <1>10, <2>2, <2>3
  <1>11. CASE Failing(p)
    <2>1. CASE Returned(p)
      BY <1>r, <2>1
    <2>2. CASE Alone(p) /\ Keeps(p) /\ proc'[p].pc \in {"stop", "finish"}
      BY <1>11, <1>a, <1>c, <1>h, <2>2 DEF Failing, At, Keeps, CallHasAttempt, Used, Between, NoAttYet, Starting, Observing,
         Taking, Reserving, Cleaning, Staging, Undoing, Canceling, Dropping
    <2> QED
      BY <1>0, <1>11, <2>1, <2>2, FailingMoves
  <1>12. CASE CancelList(p)
    <2>1. \A b \in OpenBindings : b \in Attempts /\ Used(b)
      BY DEF OpenBindings, UnusedIsBlank, Open
    <2> QED
      BY <1>0, <1>12, <1>a, <1>c, <1>h, <2>1, CancelListMoves DEF CancelList, At, CallHasAttempt, Used, Between, NoAttYet,
         Starting, Observing, Taking, Reserving, Cleaning, Staging, Undoing, Canceling, Dropping
  <1>13. CASE DropNext(p)
    <2>1. CASE Returned(p)
      BY <1>r, <2>1
    <2>2. ASSUME ~ Returned(p) PROVE CallsHaveAttempts'
      <3>1. /\ At(p, "drop_next") /\ Alone(p) /\ proc'[p].attached = proc[p].attached /\ proc'[p].known = proc[p].known
            /\ \/ proc'[p].pc = "drop" /\ proc'[p].att \in proc[p].todo /\ proc'[p].att \in Attempts
               \/ proc'[p].pc = "drop_next"
        BY <1>0, <1>13, <2>2, DropNextMoves DEF DropNext
      <3>2. \A b \in proc[p].todo : b \in Attempts => Used(b)
        BY <3>1 DEF ReservationHolds, At, UnusedIsBlank, Dropping
      <3> QED
        BY <1>a, <1>c, <1>h, <3>1, <3>2 DEF At, CallHasAttempt, Used, Between, NoAttYet,
           Starting, Observing, Taking, Reserving, Cleaning, Staging, Undoing, Canceling, Dropping
    <2> QED
      BY <2>1, <2>2
  <1> QED
    BY <1>1, <1>2, <1>3, <1>4, <1>5, <1>6, <1>7, <1>8, <1>9, <1>10, <1>11, <1>12, <1>13 DEF ActsFor, Step

LEMMA OutcomesDecidedStep ==
  ASSUME TypeOK, OutcomesDecided, Next \/ Revise
  PROVE  OutcomesDecided'
  <1>0. CallsTypeOK
    BY TypeParts
  <1>b. CASE ~ \E p \in Procs : ActsFor(p)
    BY <1>b, OnlyCallsMove DEF OutcomesDecided, OutcomeDecided
  <1>c. ASSUME NEW p \in Procs, Alone(p), OutcomeDecided(p)' PROVE OutcomesDecided'
    BY <1>c DEF OutcomesDecided, OutcomeDecided, Alone
  <1> SUFFICES ASSUME NEW p \in Procs, ActsFor(p) PROVE OutcomesDecided'
    BY <1>b
  <1>h. OutcomeDecided(p)
    BY DEF OutcomesDecided
  \* Elsewhere nothing is said about the outcome.
  <1> DEFINE Deciding == {"stop", "settle", "prepare", "copy", "record", "promote", "complete"}
  <1>e. Alone(p) /\ proc'[p].pc \notin Deciding => OutcomesDecided'
    BY <1>c DEF OutcomeDecided
  <1>m. \A l : Moved(p, l) /\ l \notin Deciding => OutcomesDecided'
    BY <1>e DEF Moved
  <1>r. Returned(p) => OutcomesDecided'
    BY <1>e DEF Returned, Idle
  <1>1. CASE Call(p) \/ Reconcile(p) \/ SettleLost(p) \/ SettleCall(p) \/ CheckBudget(p) \/ Dispatch(p) \/ Bind(p) \/ StartFails(p)
    BY <1>0, <1>1, <1>r, <1>m, Moves
  <1>2. CASE Wait(p) \/ Look(p) \/ Sleep(p) \/ Locked(p) \/ Reserve(p) \/ Stage(p)
    BY <1>0, <1>2, <1>r, <1>m, Moves
  <1>3. CASE FailureEnds(p) \/ ObservationTimeout(p) \/ Crash(p) \/ DispatcherRaises(p) \/ DeliveryRaises(p)
             \/ Complete(p) \/ Cancel(p) \/ Finish(p)
    BY <1>0, <1>3, <1>r, <1>m, Moves
  <1>4. CASE PrepareOutput(p) \/ CopyOutput(p) \/ RecordOutput(p) \/ PromoteOutput(p)
    <2>1. PICK l \in {"copy", "record", "promote", "complete"} : Moved(p, l) /\ proc[p].pc \in {"prepare", "copy", "record", "promote"}
      BY <1>0, <1>4, Moves DEF At
    <2> QED
      BY <1>c, <1>h, <2>1 DEF Moved, OutcomeDecided
  <1>5. CASE Stop(p) \/ SettleDiscarded(p)
    BY <1>0, <1>5, <1>m, <1>c, <1>h, Moves DEF Moved, OutcomeDecided, At
  <1>6. CASE Attach(p) \/ Claim(p) \/ Select(p) \/ Submit(p)
    BY <1>0, <1>6, <1>r, <1>e, <1>m, AttachMoves, ClaimMoves, SelectMoves, SubmitMoves
  <1>7. CASE DiscardRows(p) \/ DiscardFiles(p)
    BY <1>0, <1>7, <1>m, <1>e, DiscardRowsMoves, DiscardFilesMoves
  <1>8. CASE Evaluate(p) \/ OverBudget(p)
    BY <1>0, <1>8, <1>c, EvaluateMoves, OverBudgetMoves DEF OutcomeDecided
  <1>9. CASE Failing(p)
    BY <1>0, <1>9, <1>c, <1>r, FailingMoves DEF OutcomeDecided
  <1>10. CASE CancelList(p) \/ DropNext(p)
    BY <1>0, <1>10, <1>r, <1>e, CancelListMoves, DropNextMoves
  <1> QED
    BY <1>1, <1>2, <1>3, <1>4, <1>5, <1>6, <1>7, <1>8, <1>9, <1>10 DEF ActsFor, Step

-----------------------------------------------------------------------------
(* Who may change what.                                                        *)

\* Steps of a call that touch neither bindings nor workers, locks or artifacts.
Watching(p) == \/ SettleLost(p) \/ SettleCall(p) \/ Attach(p) \/ Select(p) \/ CheckBudget(p) \/ Claim(p)
               \/ Wait(p) \/ Sleep(p) \/ Evaluate(p) \/ Finish(p) \/ CancelList(p) \/ Call(p) \/ Cancel(p)
               \/ ObservationTimeout(p) \/ DispatcherRaises(p) \/ DeliveryRaises(p) \/ OverBudget(p)

Delivery == <<bound, work, env, exec, dlock, results, outputs, file, prepared, dropped>>

LEMMA WatchingKeeps ==
  ASSUME NEW p \in Procs, Watching(p) \/ Revise
  PROVE  UNCHANGED Delivery
  <1>1. CASE SettleLost(p) \/ SettleCall(p) \/ Attach(p) \/ Select(p) \/ CheckBudget(p) \/ Claim(p) \/ Wait(p) \/ Sleep(p) \/ Evaluate(p)
    BY <1>1 DEF SettleLost, SettleCall, Attach, Select, CheckBudget, Claim, Wait, Sleep, Evaluate, Delivery, worker, store, artifacts
  <1>2. CASE Finish(p) \/ CancelList(p) \/ Call(p) \/ Cancel(p) \/ ObservationTimeout(p) \/ DispatcherRaises(p)
             \/ DeliveryRaises(p) \/ OverBudget(p) \/ Revise
    BY <1>2 DEF Finish, CancelList, Call, Cancel, ObservationTimeout, DispatcherRaises, DeliveryRaises, OverBudget, Revise,
       Delivery, worker, store, artifacts
  <1> QED
    BY <1>1, <1>2 DEF Watching

\* The others.
LEMMA OtherSteps ==
  ASSUME Next \/ Revise
  PROVE  \/ UNCHANGED Delivery
         \/ \E p \in Procs : \/ Reconcile(p) \/ Dispatch(p) \/ Bind(p) \/ Submit(p) \/ StartFails(p) \/ Look(p) \/ Locked(p)
                             \/ Reserve(p) \/ DiscardRows(p) \/ DiscardFiles(p) \/ Stage(p) \/ PrepareOutput(p)
                             \/ CopyOutput(p) \/ RecordOutput(p) \/ PromoteOutput(p) \/ Complete(p) \/ Failing(p)
                             \/ Stop(p) \/ SettleDiscarded(p) \/ FailureEnds(p) \/ DropNext(p) \/ Crash(p)
         \/ \E a \in Attempts : Execution(a)
  <1>1. Revise => UNCHANGED Delivery
    BY DEF Revise, Delivery, worker, store, artifacts
  <1>2. \A p \in Procs : Watching(p) => UNCHANGED Delivery
    BY WatchingKeeps
  <1>3. \A a \in Attempts : LeaseExpires(a) => UNCHANGED Delivery
    BY DEF LeaseExpires, Delivery, worker, store, artifacts
  <1> QED
    BY <1>1, <1>2, <1>3 DEF Next, Step, Watching

\* The steps that leave the binding alone.
LEMMA BoundKept ==
  ASSUME Next \/ Revise,
         ~ \E p \in Procs : Reconcile(p) \/ Bind(p) \/ Locked(p) \/ Reserve(p) \/ Complete(p) \/ SettleDiscarded(p)
  PROVE  UNCHANGED bound
  <1>1. ASSUME NEW p \in Procs,
               \/ Dispatch(p) \/ Submit(p) \/ StartFails(p) \/ Look(p) \/ DiscardRows(p) \/ DiscardFiles(p) \/ Stage(p)
               \/ PrepareOutput(p) \/ CopyOutput(p) \/ RecordOutput(p) \/ PromoteOutput(p) \/ Failing(p) \/ Stop(p)
               \/ FailureEnds(p) \/ DropNext(p) \/ Crash(p)
        PROVE  UNCHANGED bound
    BY <1>1 DEF Dispatch, Submit, StartFails, Look, DiscardRows, DiscardFiles, Stage, PrepareOutput, CopyOutput, RecordOutput,
       PromoteOutput, Failing, Stop, FailureEnds, DropNext, Crash
  <1>2. ASSUME NEW a \in Attempts, Execution(a) PROVE UNCHANGED bound
    BY <1>2 DEF Execution, AdapterReturns, ExecutionStops, PersistResult, SettleWorker
  <1> QED
    BY <1>1, <1>2, OtherSteps DEF Delivery

\* A binding is made by the dispatcher, reserved and settled by whoever is in the delivery, and
\* given up by a handler, by cancel, or with the process that ran the worker.
Bound(p, a) == Bind(p) /\ proc[p].att = a /\ bound[a] = "none" /\ bound'[a] = "active" /\ work[a] = "running"
Lost(a)     == bound[a] \in Open /\ bound'[a] = "lost" /\ work[a] = "running" /\ work'[a] = "finished"
Reopened(p, a) == Locked(p) /\ proc[p].att = a /\ bound[a] \in Open /\ bound'[a] = "active"
Reserved(p, a) == Reserve(p) /\ proc[p].att = a /\ bound[a] = "active" /\ bound'[a] = "delivering"
Settled(p, a)  == /\ Complete(p) /\ proc[p].att = a /\ Deliverable(a) /\ CompleteWorkerBinding(a, proc[p].then)
                  /\ bound'[a] = "settled" /\ Release(p) /\ Returned(p)
Discarded(p, a) == SettleDiscarded(p) /\ proc[p].att = a /\ bound[a] \in Open /\ bound'[a] = "discarded"

LEMMA BoundChanges ==
  ASSUME TypeOK, Next \/ Revise, NEW a \in Attempts, bound'[a] # bound[a]
  PROVE  \/ Lost(a)
         \/ \E p \in Procs : \/ Bound(p, a) \/ Reopened(p, a) \/ Reserved(p, a) \/ Settled(p, a) \/ Discarded(p, a)
  <1>0. DeliveryTypeOK /\ CallsTypeOK
    BY TypeParts
  <1>1. PICK p \in Procs : Reconcile(p) \/ Bind(p) \/ Locked(p) \/ Reserve(p) \/ Complete(p) \/ SettleDiscarded(p)
    BY BoundKept
  <1>2. CASE Reconcile(p)
    BY <1>0, <1>2 DEF Reconcile, Abandoned, Lost, DeliveryTypeOK
  <1>3. CASE Bind(p)
    BY <1>0, <1>3 DEF Bind, BindWorker, Bindable, Bound, DeliveryTypeOK
  <1>4. CASE Locked(p)
    BY <1>0, <1>4 DEF Locked, Takable, Reopened, Open, DeliveryTypeOK
  <1>5. CASE Reserve(p)
    BY <1>0, <1>5 DEF Reserve, Reserved, DeliveryTypeOK
  <1>6. CASE Complete(p)
    <2>1. Deliverable(proc[p].att) /\ CompleteWorkerBinding(proc[p].att, proc[p].then) /\ Release(p) /\ Return(p)
      BY <1>6 DEF Complete
    <2>2. proc[p].att = a /\ bound'[a] = "settled"
      BY <1>0, <2>1 DEF CompleteWorkerBinding, DeliveryTypeOK
    <2> QED
      BY <1>0, <1>6, <2>1, <2>2, ReturnMoves DEF Settled
  <1>7. CASE SettleDiscarded(p)
    BY <1>0, <1>7 DEF SettleDiscarded, SettleWorkerBinding, Discarded, DeliveryTypeOK
  <1> QED
    BY <1>1, <1>2, <1>3, <1>4, <1>5, <1>6, <1>7

\* A worker starts with its dispatch and finishes once.
LEMMA WorkChanges ==
  ASSUME TypeOK, Next \/ Revise, NEW a \in Attempts, work'[a] # work[a]
  PROVE  \/ work[a] = "running" /\ work'[a] = "finished"
         \/ \E p \in Procs : Dispatch(p) /\ proc[p].att = a /\ work'[a] = "running"
  <1>0. DeliveryTypeOK /\ CallsTypeOK
    BY TypeParts
  <1>1. ASSUME NEW p \in Procs, Reconcile(p) \/ Dispatch(p) \/ StartFails(p) \/ Stop(p)
        PROVE  \/ work[a] = "running" /\ work'[a] = "finished"
               \/ Dispatch(p) /\ proc[p].att = a /\ work'[a] = "running"
    BY <1>0, <1>1 DEF Reconcile, Abandoned, Dispatch, StartFails, Stop, CancelWorker, DeliveryTypeOK
  <1>2. ASSUME NEW p \in Procs,
               \/ Bind(p) \/ Submit(p) \/ Look(p) \/ Locked(p) \/ Reserve(p) \/ DiscardRows(p) \/ DiscardFiles(p)
               \/ Stage(p) \/ PrepareOutput(p) \/ CopyOutput(p) \/ RecordOutput(p) \/ PromoteOutput(p) \/ Complete(p)
               \/ Failing(p) \/ SettleDiscarded(p) \/ FailureEnds(p) \/ DropNext(p) \/ Crash(p)
        PROVE  UNCHANGED work
    BY <1>2 DEF Bind, Submit, Look, Locked, Reserve, DiscardRows, DiscardFiles, Stage, PrepareOutput, CopyOutput, RecordOutput,
       PromoteOutput, Complete, Failing, SettleDiscarded, FailureEnds, DropNext, Crash, worker
  <1>3. ASSUME NEW b \in Attempts, Execution(b)
        PROVE  (work[a] = "running" /\ work'[a] = "finished") \/ UNCHANGED work
    BY <1>0, <1>3 DEF Execution, AdapterReturns, ExecutionStops, PersistResult, SettleWorker, CancelWorker, worker, DeliveryTypeOK
  <1> QED
    BY <1>1, <1>2, <1>3, OtherSteps DEF Delivery

\* An execution starts when the dispatcher submits it; an envelope is the execution's.
LEMMA ExecutionChanges ==
  ASSUME TypeOK, Next \/ Revise, NEW a \in Attempts
  PROVE  /\ exec'[a] # exec[a] => exec[a] # "none" \/ \E p \in Procs : Submit(p) /\ proc[p].att = a
         /\ env'[a] # env[a] => exec[a] # "none" /\ env'[a] # "none"
  <1>0. DeliveryTypeOK /\ CallsTypeOK
    BY TypeParts
  <1>1. ASSUME NEW p \in Procs,
               \/ Reconcile(p) \/ Dispatch(p) \/ StartFails(p) \/ Stop(p)
               \/ Bind(p) \/ Look(p) \/ Locked(p) \/ Reserve(p) \/ DiscardRows(p) \/ DiscardFiles(p)
               \/ Stage(p) \/ PrepareOutput(p) \/ CopyOutput(p) \/ RecordOutput(p) \/ PromoteOutput(p) \/ Complete(p)
               \/ Failing(p) \/ SettleDiscarded(p) \/ FailureEnds(p) \/ DropNext(p)
        PROVE  UNCHANGED <<env, exec>>
    BY <1>1 DEF Reconcile, Dispatch, StartFails, Stop, Bind, Look, Locked, Reserve, DiscardRows, DiscardFiles, Stage,
       PrepareOutput, CopyOutput, RecordOutput, PromoteOutput, Complete, Failing, SettleDiscarded, FailureEnds, DropNext, worker
  <1>2. ASSUME NEW p \in Procs, Submit(p)
        PROVE  UNCHANGED env /\ (exec'[a] # exec[a] => proc[p].att = a)
    BY <1>0, <1>2 DEF Submit, DeliveryTypeOK
  <1>3. ASSUME NEW p \in Procs, Crash(p)
        PROVE  UNCHANGED env /\ (exec'[a] # exec[a] => exec[a] # "none")
    BY <1>0, <1>3 DEF Crash, DeliveryTypeOK
  <1>4. ASSUME NEW b \in Attempts, Execution(b)
        PROVE  /\ exec'[a] # exec[a] => exec[a] # "none"
               /\ env'[a] # env[a] => exec[a] # "none" /\ env'[a] # "none"
    BY <1>0, <1>4 DEF Execution, AdapterReturns, ExecutionStops, PersistResult, SettleWorker, DeliveryTypeOK
  <1> QED
    BY <1>1, <1>2, <1>3, <1>4, OtherSteps DEF Delivery

\* A lock is taken when it is free, by whoever starts to deliver or to drop, and is given back by
\* its holder alone.
Taken(p, a) == /\ dlock[a] = Nobody /\ dlock'[a] = p /\ Alone(p) /\ proc'[p].att = a
               /\ \/ Look(p) /\ Moved(p, "locked") /\ bound[a] \in Open
                  \/ DropNext(p) /\ proc'[p].pc = "drop" /\ a \in proc[p].todo
Releasing(p) == \/ Locked(p) \/ Reserve(p) \/ Complete(p) \/ (At(p, "drop_file") /\ DiscardFiles(p))
                \/ (Failing(p) /\ Leaves(p)) \/ FailureEnds(p) \/ Crash(p)
Freed(p, a) == dlock[a] = p /\ dlock'[a] = Nobody /\ Release(p) /\ Releasing(p)

LEMMA LockChanges ==
  ASSUME TypeOK, Next \/ Revise, NEW a \in Attempts, dlock'[a] # dlock[a]
  PROVE  \E p \in Procs : Taken(p, a) \/ Freed(p, a)
  <1>0. DeliveryTypeOK /\ CallsTypeOK
    BY TypeParts
  <1>1. ASSUME NEW p \in Procs,
               \/ Reconcile(p) \/ Dispatch(p) \/ StartFails(p) \/ Stop(p)
               \/ Bind(p) \/ Submit(p) \/ DiscardRows(p)
               \/ Stage(p) \/ PrepareOutput(p) \/ CopyOutput(p) \/ RecordOutput(p) \/ PromoteOutput(p)
               \/ SettleDiscarded(p)
        PROVE  UNCHANGED dlock
    BY <1>1 DEF Reconcile, Dispatch, StartFails, Stop, Bind, Submit, DiscardRows, Stage,
       PrepareOutput, CopyOutput, RecordOutput, PromoteOutput, SettleDiscarded
  <1>2. ASSUME NEW p \in Procs, Release(p), Releasing(p) PROVE Freed(p, a)
    BY <1>0, <1>2 DEF Release, Freed, DeliveryTypeOK
  <1>3. ASSUME NEW p \in Procs, \/ Locked(p) \/ Reserve(p) \/ DiscardFiles(p) \/ Complete(p) \/ FailureEnds(p) \/ Crash(p)
        PROVE  (Release(p) /\ Releasing(p)) \/ UNCHANGED dlock
    <2>1. CASE Locked(p) \/ Reserve(p)
      <3>1. Locked(p) => Release(p) \/ UNCHANGED dlock
        BY DEF Locked
      <3>2. Reserve(p) => Release(p) \/ UNCHANGED dlock
        BY DEF Reserve
      <3> QED
        BY <2>1, <3>1, <3>2 DEF Releasing
    <2>2. CASE DiscardFiles(p)
      <3>1. IF At(p, "drop_file") THEN Release(p) ELSE UNCHANGED dlock
        BY <2>2 DEF DiscardFiles
      <3> QED
        BY <2>2, <3>1 DEF Releasing
    <2>3. CASE Complete(p) \/ FailureEnds(p) \/ Crash(p)
      <3>1. Complete(p) => Release(p) \/ UNCHANGED dlock
        BY DEF Complete
      <3>2. FailureEnds(p) \/ Crash(p) => Release(p)
        BY DEF FailureEnds, Crash
      <3> QED
        BY <2>3, <3>1, <3>2 DEF Releasing
    <2> QED
      BY <1>3, <2>1, <2>2, <2>3
  <1>4. ASSUME NEW p \in Procs, Failing(p)
        PROVE  (Release(p) /\ Releasing(p)) \/ UNCHANGED dlock
    BY <1>0, <1>4, FailingMoves DEF Releasing
  <1>5. ASSUME NEW p \in Procs, Look(p)
        PROVE  \/ UNCHANGED dlock
               \/ Lock(p, proc[p].att) /\ dlock[proc[p].att] = Nobody /\ bound[proc[p].att] \in Open /\ Moved(p, "locked")
    BY <1>0, <1>5, GoMoves DEF Look
  <1>6. ASSUME NEW p \in Procs, Look(p) PROVE UNCHANGED dlock \/ Taken(p, a)
    BY <1>0, <1>5, <1>6 DEF Taken, Lock, Moved, Keeps, DeliveryTypeOK
  <1>7. ASSUME NEW p \in Procs, DropNext(p) PROVE UNCHANGED dlock \/ Taken(p, a)
    BY <1>0, <1>7, DropNextMoves DEF Taken, Lock, DeliveryTypeOK
  <1>8. ASSUME NEW b \in Attempts, Execution(b) PROVE UNCHANGED dlock
    BY <1>8 DEF Execution, AdapterReturns, ExecutionStops, PersistResult, SettleWorker
  <1> QED
    BY <1>1, <1>2, <1>3, <1>4, <1>6, <1>7, <1>8, OtherSteps DEF Delivery

\* Evidence is written by the deliverer only.
LEMMA EvidenceAppears ==
  ASSUME TypeOK, Next \/ Revise, NEW a \in Attempts
  PROVE  /\ a \in results' /\ a \notin results => \E p \in Procs : Stage(p) /\ proc[p].att = a
         /\ a \in outputs' /\ a \notin outputs => \E p \in Procs : RecordOutput(p) /\ proc[p].att = a
         /\ file'[task] = a /\ file[task] # a => \E p \in Procs : CopyOutput(p) /\ proc[p].att = a
         /\ a \in prepared' /\ a \notin prepared => \E p \in Procs : PrepareOutput(p) /\ proc[p].att = a
         /\ a \in prepared => a \in prepared'
         /\ a \in dropped => a \in dropped'
  <1>0. DeliveryTypeOK /\ CallsTypeOK /\ ArtifactsTypeOK /\ task \in Tasks /\ a # NoAttempt
    BY TypeParts, Names
  <1>1. ASSUME NEW p \in Procs,
               \/ Reconcile(p) \/ Dispatch(p) \/ Bind(p) \/ Submit(p) \/ StartFails(p) \/ Look(p) \/ Locked(p)
               \/ Reserve(p) \/ PromoteOutput(p) \/ Complete(p) \/ Failing(p)
               \/ Stop(p) \/ SettleDiscarded(p) \/ FailureEnds(p) \/ DropNext(p)
        PROVE  UNCHANGED <<results, outputs, file, prepared, dropped>>
    BY <1>1 DEF Reconcile, Dispatch, Bind, Submit, StartFails, Look, Locked, Reserve, PromoteOutput, Complete, Failing, Stop,
       SettleDiscarded, FailureEnds, DropNext, store, artifacts
  <1>2. ASSUME NEW p \in Procs, DiscardRows(p) \/ DiscardFiles(p)
        PROVE  /\ results' \subseteq results /\ outputs' \subseteq outputs /\ (file'[task] = a => file[task] = a)
               /\ UNCHANGED <<prepared, dropped>>
    BY <1>0, <1>2 DEF DiscardRows, DiscardFiles, ArtifactsTypeOK
  <1>3. ASSUME NEW p \in Procs, Stage(p)
        PROVE  UNCHANGED <<outputs, file, prepared, dropped>> /\ (a \in results' /\ a \notin results => proc[p].att = a)
    BY <1>3 DEF Stage
  <1>4. ASSUME NEW p \in Procs, RecordOutput(p)
        PROVE  UNCHANGED <<results, file, prepared, dropped>> /\ (a \in outputs' /\ a \notin outputs => proc[p].att = a)
    BY <1>4 DEF RecordOutput
  <1>5. ASSUME NEW p \in Procs, CopyOutput(p)
        PROVE  UNCHANGED <<results, outputs, prepared, dropped>> /\ (file'[task] = a => proc[p].att = a)
    BY <1>0, <1>5 DEF CopyOutput, ArtifactsTypeOK
  <1>6. ASSUME NEW p \in Procs, PrepareOutput(p)
        PROVE  /\ UNCHANGED <<results, outputs, file, dropped>> /\ prepared \subseteq prepared'
               /\ (a \in prepared' /\ a \notin prepared => proc[p].att = a)
    BY <1>6 DEF PrepareOutput, store, artifacts
  <1>7. ASSUME NEW p \in Procs, Crash(p)
        PROVE  UNCHANGED <<results, outputs, file, prepared>> /\ dropped \subseteq dropped'
    BY <1>7 DEF Crash, store, artifacts
  <1>8. ASSUME NEW b \in Attempts, Execution(b) PROVE UNCHANGED <<results, outputs, file, prepared, dropped>>
    BY <1>8 DEF Execution, AdapterReturns, ExecutionStops, PersistResult, SettleWorker, store, artifacts
  <1> QED
    BY <1>1, <1>2, <1>3, <1>4, <1>5, <1>6, <1>7, <1>8, OtherSteps DEF Delivery

\* Which steps lead to a place.  Attach, Claim, Submit and the two that choose for cancel change
\* what a call knows; a returned call is idle.
Arrives(p) ==
    /\ Attach(p) \/ Claim(p) \/ Submit(p) \/ CancelList(p) \/ DropNext(p) \/ Keeps(p)
    /\ proc'[p].pc \in NoAttYet => proc[p].pc \in NoAttYet
    /\ proc'[p].pc = "dispatch" => Claim(p)
    /\ proc'[p].pc = "bind" => Dispatch(p)
    /\ proc'[p].pc = "inputs" => Bind(p)
    /\ proc'[p].pc = "wait" => Attach(p) \/ Submit(p)
    /\ proc'[p].pc = "look" => Wait(p) \/ Sleep(p) \/ Locked(p)
    /\ proc'[p].pc = "sleep" => Look(p) \/ Locked(p) \/ Reserve(p)
    /\ proc'[p].pc = "locked" => Look(p)
    /\ proc'[p].pc = "reserve" => Locked(p)
    /\ proc'[p].pc = "clean" => Reserve(p)
    /\ proc'[p].pc = "clean_file" => At(p, "clean") /\ DiscardRows(p)
    /\ proc'[p].pc = "stage" => At(p, "clean_file") /\ DiscardFiles(p)
    /\ proc'[p].pc = "evaluate" => Stage(p)
    /\ proc'[p].pc = "prepare" => Evaluate(p)
    /\ proc'[p].pc = "copy" => PrepareOutput(p)
    /\ proc'[p].pc = "record" => CopyOutput(p)
    /\ proc'[p].pc = "promote" => RecordOutput(p)
    /\ proc'[p].pc = "complete" => PromoteOutput(p) \/ Evaluate(p)
    /\ proc'[p].pc = "undo" => Complete(p)
    /\ proc'[p].pc = "undo_file" => At(p, "undo") /\ DiscardRows(p)
    /\ proc'[p].pc = "undone" => At(p, "undo_file") /\ DiscardFiles(p)
    /\ proc'[p].pc = "failing" =>
         StartFails(p) \/ Look(p) \/ Stage(p) \/ DispatcherRaises(p) \/ DeliveryRaises(p) \/ (At(p, "undone") /\ SettleDiscarded(p))
    /\ proc'[p].pc = "stop" => Failing(p) \/ OverBudget(p)
    /\ proc'[p].pc = "settle" => At(p, "stop") /\ Stop(p)
    /\ proc'[p].pc = "finish" => Failing(p) \/ (At(p, "settle") /\ SettleDiscarded(p))
    /\ proc'[p].pc = "late" => Finish(p) \/ (At(p, "settle") /\ SettleDiscarded(p))
    /\ proc'[p].pc = "late_file" => At(p, "late") /\ DiscardRows(p)
    /\ proc'[p].pc = "settle_run" => At(p, "late_file") /\ DiscardFiles(p)
    /\ proc'[p].pc = "cancel_list" => Cancel(p) \/ (At(p, "cancel_settle") /\ SettleDiscarded(p))
    /\ proc'[p].pc = "cancel_stop" => CancelList(p)
    /\ proc'[p].pc = "cancel_settle" => At(p, "cancel_stop") /\ Stop(p)
    /\ proc'[p].pc = "drop_next" => CancelList(p) \/ DropNext(p) \/ (At(p, "drop_file") /\ DiscardFiles(p))
    /\ proc'[p].pc = "drop" => DropNext(p)
    /\ proc'[p].pc = "drop_file" => At(p, "drop") /\ DiscardRows(p)

LEMMA Arrivals ==
  ASSUME TypeOK, OutcomesDecided, Next \/ Revise, NEW p \in Procs, proc'[p] # proc[p], ~ Returned(p)
  PROVE  Arrives(p)
  <1>0. CallsTypeOK
    BY TypeParts
  <1>a. PICK q \in Procs : ActsFor(q)
    BY OnlyCallsMove
  <1>q. Alone(q) => q = p
    BY DEF Alone
  <1>x. (\E l : Moved(q, l)) \/ Returned(q) => q = p
    BY <1>q DEF Moved, Returned
  <1>m. \A l : Moved(q, l) => q = p /\ Keeps(p) /\ proc'[p].pc = l
    BY <1>x DEF Moved
  <1>k. NoAttYet = {"idle", "reconcile", "lost", "settle_call", "attach", "budget", "claim"}
    BY DEF NoAttYet
  <1>1. CASE Call(q) \/ Reconcile(q) \/ SettleLost(q) \/ SettleCall(q) \/ CheckBudget(q)
    BY <1>0, <1>1, <1>q, <1>x, <1>m, <1>k, Moves DEF At, Arrives
  <1>2. CASE Dispatch(q) \/ Bind(q) \/ StartFails(q) \/ Wait(q) \/ Look(q) \/ Sleep(q)
    BY <1>0, <1>2, <1>q, <1>x, <1>m, <1>k, Moves DEF At, Arrives
  <1>3. CASE Locked(q) \/ Reserve(q) \/ Stage(q) \/ PrepareOutput(q) \/ CopyOutput(q) \/ RecordOutput(q) \/ PromoteOutput(q)
    BY <1>0, <1>3, <1>q, <1>x, <1>m, <1>k, Moves DEF At, Arrives
  <1>4. CASE Complete(q) \/ FailureEnds(q) \/ ObservationTimeout(q) \/ Crash(q) \/ DispatcherRaises(q) \/ DeliveryRaises(q)
    BY <1>0, <1>4, <1>q, <1>x, <1>m, <1>k, Moves DEF At, Arrives
  <1>5. CASE Stop(q) \/ SettleDiscarded(q) \/ Finish(q) \/ Cancel(q)
    BY <1>0, <1>5, <1>q, <1>x, <1>m, <1>k, Moves DEF At, OutcomesDecided, OutcomeDecided, Arrives
  <1>6. CASE DiscardRows(q)
    BY <1>0, <1>6, <1>q, <1>x, <1>m, <1>k, DiscardRowsMoves DEF At, Arrives
  <1>7. CASE DiscardFiles(q)
    BY <1>0, <1>7, <1>q, <1>x, <1>m, <1>k, DiscardFilesMoves DEF At, Arrives
  <1>8. CASE Evaluate(q) \/ OverBudget(q)
    BY <1>0, <1>8, <1>q, <1>x, <1>m, <1>k, EvaluateMoves, OverBudgetMoves DEF At, Arrives
  <1>9. CASE Failing(q)
    BY <1>0, <1>9, <1>q, <1>x, <1>m, <1>k, FailingMoves DEF Failing, At, Arrives
  <1>10. CASE Select(q)
    BY <1>0, <1>10, <1>q, <1>x, <1>m, <1>k, SelectMoves DEF Select, At, Arrives
  <1>11. CASE Attach(q)
    BY <1>0, <1>11, <1>q, <1>x, <1>m, <1>k, AttachMoves DEF Arrives
  <1>12. CASE Claim(q)
    BY <1>0, <1>12, <1>q, <1>x, <1>m, <1>k, ClaimMoves DEF Arrives
  <1>13. CASE Submit(q)
    BY <1>0, <1>13, <1>q, <1>x, <1>m, <1>k, SubmitMoves DEF Arrives
  <1>14. CASE CancelList(q)
    BY <1>0, <1>14, <1>q, <1>x, <1>m, <1>k, CancelListMoves DEF Arrives
  <1>15. CASE DropNext(q)
    BY <1>0, <1>15, <1>q, <1>x, <1>m, <1>k, DropNextMoves DEF Arrives
  <1> QED
    BY <1>a, <1>1, <1>2, <1>3, <1>4, <1>5, <1>6, <1>7, <1>8, <1>9, <1>10, <1>11, <1>12, <1>13, <1>14, <1>15 DEF ActsFor, Step

LEMMA KnownFrom ==
  ASSUME TypeOK, OutcomesDecided, Next \/ Revise, NEW p \in Procs
  PROVE  /\ proc'[p].known => proc[p].known \/ Attach(p) \/ Submit(p)
         /\ proc'[p].attached => proc[p].attached \/ Attach(p)
  <1>0. CallsTypeOK
    BY TypeParts
  <1>1. CASE proc'[p] = proc[p]
    BY <1>1
  <1>2. CASE Returned(p)
    BY <1>2 DEF Returned, Idle
  <1>3. CASE Keeps(p)
    BY <1>3 DEF Keeps
  <1>4. CASE Claim(p) \/ Submit(p) \/ CancelList(p) \/ DropNext(p)
    BY <1>0, <1>2, <1>4, ClaimMoves, SubmitMoves, CancelListMoves, DropNextMoves
  <1> QED
    BY <1>1, <1>2, <1>3, <1>4, Arrivals DEF Arrives

-----------------------------------------------------------------------------
(* One dispatcher per attempt.                                                 *)

\* Before it acts a call that works for an attempt has it.
LEMMA ActsForUsed ==
  ASSUME CallsHaveAttempts, NEW p \in Procs, proc[p].pc \notin Between
  PROVE  proc[p].att \in Attempts /\ Used(proc[p].att)
  BY DEF CallsHaveAttempts, CallHasAttempt

LEMMA UnusedIsBlankStep ==
  ASSUME TypeOK, CallsHaveAttempts, OutcomesDecided, UnusedIsBlank, Next \/ Revise
  PROVE  UnusedIsBlank'
  <1> SUFFICES ASSUME NEW a \in Attempts, ~ Used(a)'
               PROVE  /\ bound'[a] = "none" /\ work'[a] = "none" /\ env'[a] = "none" /\ exec'[a] = "none"
                      /\ a \notin results' /\ a \notin prepared'
    BY DEF UnusedIsBlank
  <1>1. ~ Used(a) /\ bound[a] = "none" /\ work[a] = "none" /\ env[a] = "none" /\ exec[a] = "none"
        /\ a \notin results /\ a \notin prepared
    BY UsedStays DEF UnusedIsBlank
  <1>2. \A p \in Procs : proc[p].pc \notin Between => proc[p].att # a
    BY <1>1, ActsForUsed
  <1>3. \A p \in Procs : Bind(p) \/ Dispatch(p) \/ Submit(p) \/ Stage(p) \/ PrepareOutput(p) => proc[p].att # a
    BY <1>2 DEF Bind, Dispatch, Submit, Stage, PrepareOutput, At, Between, NoAttYet
  <1>4. bound'[a] = bound[a]
    <2>1. SUFFICES ASSUME bound'[a] # bound[a] PROVE FALSE
      OBVIOUS
    <2>2. PICK p \in Procs : Bound(p, a)
      BY <1>1, <2>1, BoundChanges DEF Lost, Reopened, Reserved, Settled, Discarded, Deliverable, Open
    <2> QED
      BY <1>3, <2>2 DEF Bound
  <1>5. work'[a] = work[a]
    BY <1>1, <1>3, WorkChanges
  <1>6. env'[a] = env[a] /\ exec'[a] = exec[a]
    BY <1>1, <1>3, ExecutionChanges
  <1>7. a \notin results' /\ a \notin prepared'
    BY <1>1, <1>3, EvidenceAppears
  <1> QED
    BY <1>1, <1>4, <1>5, <1>6, <1>7

\* A call goes on with its attempt.
StaysWith(p, a) == /\ Refers(p, a) /\ proc'[p].attached = proc[p].attached
                   /\ proc'[p].known = proc[p].known \/ (Submit(p) /\ proc'[p].known)
                   /\ proc'[p].pc \in Canceling <=> proc[p].pc \in Canceling

\* How a call comes to work for an attempt: it did, it attaches, it claims, or it cancels.
LEMMA RefersFrom ==
  ASSUME TypeOK, CallsHaveAttempts, OutcomesDecided, Next \/ Revise, NEW p \in Procs, NEW a \in Attempts, Refers(p, a)'
  PROVE  \/ StaysWith(p, a)
         \/ Attach(p) /\ proc'[p].attached /\ proc'[p].known /\ proc'[p].pc = "wait" /\ a \in OpenBindings
            /\ atts[a].status = "running"
         \/ Claim(p) /\ proc'[p].pc = "dispatch" /\ ~ Used(a) /\ ~ proc'[p].known /\ ClaimTask(task, a, FALSE)
         \/ CancelList(p) /\ proc'[p].pc = "cancel_stop" /\ a \in OpenBindings
         \/ DropNext(p) /\ proc'[p].pc = "drop" /\ a \in proc[p].todo
  <1>0. CallsTypeOK
    BY TypeParts
  <1>a. CASE proc'[p] = proc[p]
    BY <1>a DEF Refers, StaysWith
  <1>b. CASE ~ \E q \in Procs : ActsFor(q)
    BY <1>a, <1>b, OnlyCallsMove
  <1>r. CASE Returned(p)
    BY <1>r DEF Returned, Idle, Refers, Between, NoAttYet
  <1>m. ASSUME NEW l, Moved(p, l), l \notin Between => proc[p].pc \notin Between /\ (l \in Canceling <=> proc[p].pc \in Canceling)
        PROVE  StaysWith(p, a)
    BY <1>m DEF Moved, Keeps, Refers, StaysWith
  <1>k. Canceling = {"cancel_stop", "cancel_settle", "drop", "drop_file"}
        /\ Between = {"idle", "reconcile", "lost", "settle_call", "attach", "budget", "claim", "cancel_list", "drop_next"}
    BY DEF Canceling, Dropping, Between, NoAttYet
  <1> SUFFICES ASSUME NEW q \in Procs, ActsFor(q), ~ Returned(p), proc'[p] # proc[p]
               PROVE  \/ StaysWith(p, a)
                      \/ Attach(p) /\ proc'[p].attached /\ proc'[p].known /\ proc'[p].pc = "wait" /\ a \in OpenBindings
                         /\ atts[a].status = "running"
                      \/ Claim(p) /\ proc'[p].pc = "dispatch" /\ ~ Used(a) /\ ~ proc'[p].known /\ ClaimTask(task, a, FALSE)
                      \/ CancelList(p) /\ proc'[p].pc = "cancel_stop" /\ a \in OpenBindings
                      \/ DropNext(p) /\ proc'[p].pc = "drop" /\ a \in proc[p].todo
    BY <1>a, <1>b, <1>r
  <1>q. Alone(q) => q = p
    BY DEF Alone
  <1>x. (\E l : Moved(q, l)) \/ Returned(q) => q = p
    BY <1>q DEF Moved, Returned
  <1>1. CASE Call(q) \/ Reconcile(q) \/ SettleLost(q) \/ SettleCall(q) \/ CheckBudget(q) \/ Dispatch(q) \/ Bind(q) \/ StartFails(q)
    BY <1>0, <1>1, <1>x, <1>m, <1>k, Moves DEF At
  <1>2. CASE Wait(q) \/ Look(q) \/ Sleep(q) \/ Locked(q) \/ Reserve(q) \/ Stage(q)
    BY <1>0, <1>2, <1>x, <1>m, <1>k, Moves DEF At
  <1>3. CASE PrepareOutput(q) \/ CopyOutput(q) \/ RecordOutput(q) \/ PromoteOutput(q) \/ Complete(q) \/ FailureEnds(q)
             \/ ObservationTimeout(q) \/ Crash(q) \/ DispatcherRaises(q)
    BY <1>0, <1>3, <1>x, <1>m, <1>k, Moves DEF At
  <1>4. CASE Stop(q) \/ SettleDiscarded(q) \/ Finish(q) \/ Cancel(q) \/ DeliveryRaises(q)
    BY <1>0, <1>4, <1>x, <1>m, <1>k, Moves DEF At, OutcomesDecided, OutcomeDecided, Staging
  <1>5. CASE DiscardRows(q)
    BY <1>0, <1>5, <1>x, <1>m, <1>k, DiscardRowsMoves DEF At
  <1>6. CASE DiscardFiles(q)
    BY <1>0, <1>6, <1>q, <1>k, DiscardFilesMoves DEF At, Keeps, Refers, StaysWith
  <1>7. CASE Evaluate(q) \/ OverBudget(q)
    <2>1. proc[q].pc \in {"stage", "evaluate", "complete"}
      BY <1>7 DEF Evaluate, OverBudget, At
    <2> QED
      BY <1>0, <1>7, <1>q, <1>k, <2>1, EvaluateMoves, OverBudgetMoves DEF Keeps, Refers, StaysWith
  <1>8. CASE Failing(q)
    BY <1>0, <1>8, <1>q, <1>k, FailingMoves DEF Failing, At, Keeps, Refers, Returned, StaysWith
  <1>9. CASE Select(q) \/ Submit(q)
    BY <1>0, <1>9, <1>q, <1>x, <1>m, <1>k, SelectMoves, SubmitMoves DEF Submit, At, Refers, StaysWith
  <1>10. CASE Attach(q)
    BY <1>0, <1>10, <1>q, <1>x, AttachMoves DEF Refers
  <1>11. CASE Claim(q)
    <2>1. ~ proc[q].known
      BY <1>11 DEF CallsHaveAttempts, CallHasAttempt, Claim, At, NoAttYet
    <2>2. \A b \in Attempts : First(b, Unused) => ~ Used(b)
      BY DEF First, Unused, Used
    <2> QED
      BY <1>0, <1>11, <1>q, <1>x, <2>1, <2>2, ClaimMoves DEF Refers
  <1>12. CASE CancelList(q)
    BY <1>0, <1>12, <1>q, <1>k, CancelListMoves DEF Refers
  <1>13. CASE DropNext(q)
    BY <1>0, <1>13, <1>q, <1>x, <1>k, DropNextMoves DEF Refers
  <1> QED
    BY <1>1, <1>2, <1>3, <1>4, <1>5, <1>6, <1>7, <1>8, <1>9, <1>10, <1>11, <1>12, <1>13 DEF ActsFor, Step

LEMMA OneDispatcherStep ==
  ASSUME TypeOK, CallsHaveAttempts, OutcomesDecided, UnusedIsBlank, OneDispatcher, ReservationHolds, Next \/ Revise
  PROVE  OneDispatcher'
  <1>0. CallsTypeOK
    BY TypeParts
  <1>1. \A q \in Procs, a \in Attempts : Refers(q, a) => Used(a)
    BY DEF Refers, CallsHaveAttempts, CallHasAttempt
  \* A dispatcher was one, or has just claimed an attempt nobody works for.
  <1>2. ASSUME NEW p \in Procs, NEW a \in Attempts, Dispatches(p, a)'
        PROVE  Dispatches(p, a) \/ (Claim(p) /\ Alone(p) /\ ~ Used(a) /\ proc'[p].pc = "dispatch" /\ ~ proc'[p].known)
    <2>1. Refers(p, a)' /\ proc'[p].pc \notin Canceling /\ ~ proc'[p].attached
      BY <1>2 DEF Dispatches
    <2>2. Claim(p) => Alone(p)
      BY <1>0, ClaimMoves DEF Returned
    <2>3. "drop" \in Canceling /\ "cancel_stop" \in Canceling
      BY DEF Canceling, Dropping
    <2> QED
      BY <2>1, <2>2, <2>3, RefersFrom DEF Dispatches, StaysWith
  <1>3. ASSUME NEW p \in Procs, NEW q \in Procs, NEW a \in Attempts, Dispatches(p, a)', Dispatches(q, a)'
        PROVE  p = q
    <2>1. Dispatches(p, a) /\ Dispatches(q, a) => p = q
      BY DEF OneDispatcher
    <2>3. \A r \in Procs : Dispatches(r, a) => Used(a)
      BY <1>1 DEF Dispatches
    <2>4. ASSUME ~ Used(a), Claim(p), Claim(q), Alone(p), Alone(q), p # q PROVE FALSE
      <3>1. proc'[q] = proc[q] /\ proc'[p] = proc[p]
        BY <2>4 DEF Alone
      <3>2. proc[p].pc = "claim"
        BY <2>4 DEF Claim, At
      <3> QED
        BY <1>3, <3>1, <3>2 DEF Dispatches, Refers, Between, NoAttYet
    <2> QED
      BY <1>2, <1>3, <2>1, <2>3, <2>4
  <1>4. ASSUME NEW p \in Procs, NEW a \in Attempts, Refers(p, a)', bound'[a] = "none"
        PROVE  Dispatches(p, a)' /\ ~ proc'[p].known
    <2>1. bound[a] = "none"
      BY <1>4, BoundChanges DEF Lost, Bound, Reopened, Reserved, Settled, Discarded
    <2>2. \A b \in OpenBindings : bound[b] # "none"
      BY DEF OpenBindings, Open
    <2>3. CASE StaysWith(p, a)
      <3>1. Dispatches(p, a) /\ ~ proc[p].known
        BY <2>1, <2>3 DEF OneDispatcher, StaysWith
      <3>2. Dispatches(p, a)'
        BY <1>4, <2>3, <3>1 DEF Dispatches, StaysWith
      <3>3. proc'[p].known => Submit(p)
        BY <2>3, <3>1 DEF StaysWith
      <3>4. ~ Submit(p)
        BY <2>1, <3>1 DEF Submit, At, OneDispatcher, Dispatches
      <3> QED
        BY <3>2, <3>3, <3>4
    <2>4. CASE Claim(p) /\ proc'[p].pc = "dispatch" /\ ~ proc'[p].known
      <3>1. ~ proc'[p].attached
        BY CallsHaveAttemptsStep, <2>4 DEF CallsHaveAttempts, CallHasAttempt, Starting
      <3> QED
        BY <1>4, <2>4, <3>1 DEF Dispatches, Canceling, Dropping
    <2>5. DropNext(p) => a \notin proc[p].todo
      BY <2>1 DEF DropNext, At, ReservationHolds
    <2> QED
      BY <1>4, <2>1, <2>2, <2>3, <2>4, <2>5, RefersFrom
  <1>5. ASSUME NEW p \in Procs, NEW a \in Attempts, Refers(p, a), proc[p].pc \in {"dispatch", "bind", "inputs"},
               bound[a] = "none" \/ proc[p].pc = "inputs"
        PROVE  Dispatches(p, a)
    BY <1>5 DEF Dispatches, CallsHaveAttempts, CallHasAttempt, Starting, Canceling, Dropping
  <1>6. ASSUME NEW p \in Procs, NEW q \in Procs, NEW a \in Attempts, Refers(p, a), Refers(q, a),
               proc[p].pc \in {"dispatch", "bind", "inputs"}, proc[q].pc \in {"dispatch", "bind", "inputs"}
        PROVE  p = q
    <2>1. \A r \in Procs : Refers(r, a) /\ proc[r].pc \in {"dispatch", "bind", "inputs"} => Dispatches(r, a)
      BY <1>5 DEF OneDispatcher
    <2> QED
      BY <1>6, <2>1 DEF OneDispatcher
  <1>7. ASSUME NEW p \in Procs, NEW a \in Attempts, Claim(p), ~ Used(a)
        PROVE  bound'[a] = "none" /\ work'[a] = "none" /\ env'[a] = "none" /\ exec'[a] = "none"
    BY <1>7, WatchingKeeps DEF Watching, Delivery, UnusedIsBlank
  <1>8. ASSUME NEW p \in Procs, NEW a \in Attempts, Refers(p, a)', proc'[p].pc \in {"dispatch", "bind"}
        PROVE  bound'[a] = "none"
    <2>1. CASE proc'[p] = proc[p]
      <3>1. bound[a] = "none" /\ Refers(p, a)
        BY <1>8, <2>1 DEF OneDispatcher, Refers
      <3>2. ASSUME NEW q \in Procs, Bound(q, a) PROVE FALSE
        <4>1. Bind(q) /\ Refers(q, a) /\ proc[q].pc = "bind"
          BY <3>2 DEF Bound, Bind, Refers, At, Between, NoAttYet
        <4>2. p = q
          BY <1>6, <1>8, <2>1, <3>1, <4>1
        <4> QED
          BY <1>0, <2>1, <4>1, <4>2, Moves DEF Moved, At
      <3> QED
        BY <3>1, <3>2, BoundChanges DEF Lost, Reopened, Reserved, Settled, Discarded, Deliverable, Open
    <2>2. CASE proc'[p] # proc[p] /\ proc'[p].pc = "dispatch"
      <3>1. Claim(p)
        BY <1>8, <2>2, Arrivals DEF Arrives, Returned, Idle
      <3> QED
        BY <1>7, <1>8, <2>2, <3>1, RefersFrom DEF StaysWith, Refers, Claim, At, Between, NoAttYet
    <2>3. CASE proc'[p] # proc[p] /\ proc'[p].pc = "bind"
      <3>1. Dispatch(p)
        BY <2>3, Arrivals DEF Arrives, Returned, Idle
      <3>2. Refers(p, a) /\ proc[p].pc = "dispatch" /\ UNCHANGED bound
        BY <1>0, <1>8, <3>1, Moves DEF Dispatch, Refers, Moved, Keeps, At, Between, NoAttYet
      <3> QED
        BY <3>2 DEF OneDispatcher
    <2> QED
      BY <1>8, <2>1, <2>2, <2>3
  <1>9. ASSUME NEW p \in Procs, NEW a \in Attempts, Refers(p, a)', proc'[p].pc = "dispatch"
        PROVE  work'[a] = "none"
    <2>1. CASE proc'[p] = proc[p]
      <3>1. work[a] = "none" /\ Refers(p, a)
        BY <1>9, <2>1 DEF OneDispatcher, Refers
      <3>2. ASSUME NEW q \in Procs, Dispatch(q), proc[q].att = a PROVE FALSE
        <4>1. Refers(q, a) /\ proc[q].pc = "dispatch"
          BY <3>2 DEF Dispatch, Refers, At, Between, NoAttYet
        <4>2. p = q
          BY <1>6, <1>9, <2>1, <3>1, <4>1
        <4> QED
          BY <1>0, <2>1, <3>2, <4>1, <4>2, Moves DEF Moved, At
      <3> QED
        BY <3>1, <3>2, WorkChanges
    <2>2. CASE proc'[p] # proc[p]
      <3>1. Claim(p)
        BY <1>9, <2>2, Arrivals DEF Arrives, Returned, Idle
      <3> QED
        BY <1>7, <1>9, <2>2, <3>1, RefersFrom DEF StaysWith, Refers, Claim, At, Between, NoAttYet
    <2> QED
      BY <2>1, <2>2
  <1>10. ASSUME NEW p \in Procs, NEW a \in Attempts, Refers(p, a)', proc'[p].pc = "inputs"
         PROVE  bound'[a] # "none"
    <2>1. CASE proc'[p] = proc[p]
      <3>1. bound[a] # "none"
        BY <1>10, <2>1 DEF OneDispatcher, Refers
      <3> QED
        BY <3>1, BoundChanges DEF Lost, Bound, Reopened, Reserved, Settled, Discarded
    <2>2. CASE proc'[p] # proc[p]
      <3>1. Bind(p)
        BY <1>10, <2>2, Arrivals DEF Arrives, Returned, Idle
      <3>2. Refers(p, a)
        BY <1>0, <1>10, <3>1, Moves DEF Bind, Refers, Moved, Keeps, At, Between, NoAttYet
      <3> QED
        BY <3>1, <3>2, TypeParts DEF Bind, BindWorker, Refers, DeliveryTypeOK
    <2> QED
      BY <2>1, <2>2
  <1>11. ASSUME NEW p \in Procs, NEW a \in Attempts, Dispatches(p, a)', ~ proc'[p].known
         PROVE  env'[a] = "none" /\ exec'[a] = "none"
    <2>1. CASE Claim(p) /\ ~ Used(a)
      BY <1>7, <2>1
    <2>2. CASE StaysWith(p, a)
      <3>1. Dispatches(p, a) /\ ~ proc[p].known /\ ~ Submit(p)
        <4>1. Submit(p) => proc'[p].known
          BY <1>0, SubmitMoves
        <4> QED
          BY <1>11, <2>2, <4>1 DEF Dispatches, StaysWith
      <3>2. env[a] = "none" /\ exec[a] = "none"
        BY <3>1 DEF OneDispatcher
      <3>3. ASSUME NEW q \in Procs, Submit(q), proc[q].att = a PROVE FALSE
        <4>1. Refers(q, a) /\ proc[q].pc = "inputs"
          BY <3>3 DEF Submit, Refers, At, Between, NoAttYet
        <4>2. p = q
          BY <1>5, <3>1, <4>1 DEF OneDispatcher
        <4> QED
          BY <3>1, <3>3, <4>2
      <3> QED
        BY <3>2, <3>3, ExecutionChanges
    <2>3. StaysWith(p, a) \/ (Claim(p) /\ ~ Used(a))
      BY <1>11, RefersFrom DEF Dispatches, Canceling, Dropping
    <2> QED
      BY <2>1, <2>2, <2>3
  <1> QED
    BY <1>3, <1>4, <1>8, <1>9, <1>10, <1>11 DEF OneDispatcher

-----------------------------------------------------------------------------
(* Delivery happens under the lock, of a worker that has finished.             *)

\* Under the lock a call has its attempt, and the binding is open or discarded.
LEMMA HolderOf ==
  ASSUME CallsHaveAttempts, LocksAreHeld, NEW p \in Procs, proc[p].pc \in Locking
  PROVE  /\ proc[p].att \in Attempts /\ Used(proc[p].att) /\ dlock[proc[p].att] = p
         /\ bound[proc[p].att] \in Open \cup {"discarded"} /\ work[proc[p].att] = "finished"
  <1>1. proc[p].pc \notin Between
    BY DEF Locking, Taking, Reserving, Cleaning, Staging, Undoing, Dropping, Between, NoAttYet
  <1>2. proc[p].att \in Attempts /\ Used(proc[p].att)
    BY <1>1 DEF CallsHaveAttempts, CallHasAttempt
  <1>3. dlock[proc[p].att] = p /\ p # Nobody
    BY Names DEF LocksAreHeld
  <1> QED
    BY <1>2, <1>3 DEF LocksAreHeld

LEMMA WorkersFinishedStep ==
  ASSUME TypeOK, CallsHaveAttempts, OutcomesDecided, OneDispatcher, WorkersFinished, LocksAreHeld, ReservationHolds, Next \/ Revise
  PROVE  WorkersFinished'
  <1>0. CallsTypeOK /\ DeliveryTypeOK
    BY TypeParts
  \* Only the dispatcher starts the worker, before there is a binding.
  <1>1. ASSUME NEW q \in Procs, NEW a \in Attempts, Dispatch(q), proc[q].att = a
        PROVE  /\ work[a] = "none" /\ bound[a] = "none" /\ UNCHANGED bound
               /\ \A p \in Procs : Refers(p, a) => p = q
    <2>1. Refers(q, a) /\ proc[q].pc = "dispatch" /\ UNCHANGED bound
      BY <1>1 DEF Dispatch, Refers, At, Between, NoAttYet
    <2>2. work[a] = "none" /\ bound[a] = "none"
      BY <2>1 DEF OneDispatcher
    <2> QED
      BY <2>1, <2>2 DEF OneDispatcher
  <1>2. ASSUME NEW a \in Attempts, work[a] = "finished" PROVE work'[a] = "finished"
    BY <1>1, <1>2, WorkChanges
  <1>3. ASSUME NEW a \in Attempts, bound'[a] # "none" PROVE work'[a] # "none"
    <2>1. CASE bound'[a] = bound[a]
      <3>1. work[a] # "none"
        BY <1>3, <2>1 DEF WorkersFinished
      <3> QED
        BY <1>1, <3>1, WorkChanges
    <2>2. CASE bound'[a] # bound[a]
      <3>1. work[a] # "none"
        BY <2>2, BoundChanges DEF Lost, Bound, Reopened, Reserved, Settled, Discarded, Deliverable, WorkersFinished, Open
      <3> QED
        BY <1>1, <3>1, WorkChanges
    <2> QED
      BY <2>1, <2>2
  <1>4. ASSUME NEW a \in Attempts, bound'[a] \in {"delivering", "settled", "discarded", "lost"} PROVE work'[a] = "finished"
    <2>1. CASE bound'[a] = bound[a]
      BY <1>2, <1>4, <2>1 DEF WorkersFinished
    <2>2. CASE Lost(a)
      BY <2>2 DEF Lost
    <2>3. ASSUME NEW p \in Procs, Reserved(p, a) PROVE work[a] = "finished"
      <3>1. proc[p].pc \in Locking /\ proc[p].att = a
        BY <2>3 DEF Reserved, Reserve, At, Locking, Taking
      <3> QED
        BY <3>1, HolderOf
    <2>4. ASSUME NEW p \in Procs, Settled(p, a) PROVE work[a] = "finished"
      BY <2>4 DEF Settled, Deliverable
    <2>5. ASSUME NEW p \in Procs, Discarded(p, a) PROVE work[a] = "finished"
      <3>1. bound[a] \in Open /\ work[a] # "none" /\ proc[p].att = a
        BY <2>5 DEF Discarded, WorkersFinished, Open
      <3>2. CASE At(p, "undone")
        BY <3>1, <3>2, HolderOf DEF At, Locking, Reserving, Undoing
      <3>3. CASE proc[p].pc \in {"settle", "cancel_settle"}
        BY <1>0, <3>1, <3>3 DEF WorkersFinished, DeliveryTypeOK
      <3> QED
        BY <2>5, <3>2, <3>3 DEF Discarded, SettleDiscarded, At
    <2>6. CASE \E p \in Procs : Bound(p, a) \/ Reopened(p, a)
      BY <1>4, <2>6 DEF Bound, Reopened
    <2> QED
      BY <1>2, <2>1, <2>2, <2>3, <2>4, <2>5, <2>6, BoundChanges
  <1>5. ASSUME NEW p \in Procs, proc'[p].pc \in {"look", "sleep"} PROVE work'[proc'[p].att] = "finished"
    <2>1. CASE proc'[p] = proc[p]
      <3>1. proc[p].att \in Attempts
        BY <1>5, <2>1 DEF CallsHaveAttempts, CallHasAttempt, Between, NoAttYet
      <3> QED
        BY <1>2, <1>5, <2>1, <3>1 DEF WorkersFinished
    <2>2. CASE proc'[p] # proc[p]
      <3>1. Wait(p) \/ Sleep(p) \/ Look(p) \/ Locked(p) \/ Reserve(p)
        BY <1>5, <2>2, Arrivals DEF Arrives, Returned, Idle
      <3>2. proc'[p].att = proc[p].att
        BY <1>0, <1>5, <3>1, Moves DEF Moved, Keeps, Returned, Idle
      <3>3. proc[p].att \in Attempts /\ work[proc[p].att] = "finished"
        <4>1. CASE Wait(p) \/ Sleep(p) \/ Look(p)
          BY <4>1 DEF Wait, Sleep, Look, At, WorkersFinished, CallsHaveAttempts, CallHasAttempt, Between, NoAttYet
        <4>2. CASE Locked(p) \/ Reserve(p)
          BY <4>2, HolderOf DEF Locked, Reserve, At, Locking, Taking
        <4> QED
          BY <3>1, <4>1, <4>2
      <3> QED
        BY <1>2, <3>2, <3>3
    <2> QED
      BY <2>1, <2>2
  <1>6. ASSUME NEW p \in Procs, proc'[p].pc \in {"settle", "cancel_settle"} PROVE work'[proc'[p].att] # "running"
    <2>1. CASE proc'[p] = proc[p]
      <3> DEFINE a == proc[p].att
      <3>1. Refers(p, a) /\ a \in Attempts /\ work[a] # "running"
        BY <1>6, <2>1 DEF Refers, WorkersFinished, CallsHaveAttempts, CallHasAttempt, Between, NoAttYet
      <3>2. ASSUME NEW q \in Procs, Dispatch(q), proc[q].att = a PROVE FALSE
        BY <1>1, <1>6, <2>1, <3>1, <3>2 DEF Dispatch, At
      <3> QED
        BY <2>1, <3>1, <3>2, WorkChanges
    <2>2. CASE proc'[p] # proc[p]
      <3>1. Stop(p)
        BY <1>6, <2>2, Arrivals DEF Arrives, Returned, Idle
      <3>2. proc'[p].att = proc[p].att /\ proc[p].att \in Attempts
        BY <1>0, <3>1, Moves DEF Moved, Keeps, At, CallsHaveAttempts, CallHasAttempt, Between, NoAttYet
      <3> QED
        BY <1>0, <3>1, <3>2 DEF Stop, CancelWorker, DeliveryTypeOK
    <2> QED
      BY <2>1, <2>2
  <1> QED
    BY <1>3, <1>4, <1>5, <1>6 DEF WorkersFinished

\* A worker that has finished is not started again.
LEMMA FinishedStays ==
  ASSUME TypeOK, OneDispatcher, Next \/ Revise, NEW a \in Attempts, work[a] = "finished"
  PROVE  work'[a] = "finished"
  <1>1. ASSUME NEW q \in Procs, Dispatch(q), proc[q].att = a PROVE FALSE
    BY <1>1 DEF Dispatch, Refers, At, Between, NoAttYet, OneDispatcher
  <1> QED
    BY <1>1, WorkChanges

\* A call under the lock, or in a handler, stays there with its attempt until it gives its locks back.
LEMMA UnderLock ==
  ASSUME TypeOK, OutcomesDecided, Next \/ Revise, NEW p \in Procs, proc[p].pc \in Locking \cup Handling, proc'[p] # proc[p]
  PROVE  Release(p) \/ (Keeps(p) /\ proc'[p].pc \in Locking \cup Handling)
  <1>0. CallsTypeOK
    BY TypeParts
  <1> DEFINE Inside == Locking \cup Handling
  <1>k. Inside = {"locked", "reserve", "clean", "clean_file", "stage", "evaluate", "prepare", "copy", "record", "promote",
                  "complete", "undo", "undo_file", "undone", "drop", "drop_file", "failing", "stop", "settle", "finish",
                  "late", "late_file", "settle_run"}
    BY DEF Locking, Taking, Reserving, Cleaning, Staging, Undoing, Dropping, Handling, Leaving
  <1> HIDE DEF Inside
  <1>i. proc[p].pc \in Inside
    BY DEF Inside
  <1>a. PICK q \in Procs : ActsFor(q)
    BY OnlyCallsMove
  <1>q. Alone(q) => q = p
    BY DEF Alone
  <1>x. (\E l : Moved(q, l)) \/ Returned(q) => q = p
    BY <1>q DEF Moved, Returned
  <1>m. \A l : Moved(q, l) => q = p /\ Keeps(p) /\ proc'[p].pc = l
    BY <1>x DEF Moved
  <1>1. CASE Call(q) \/ Reconcile(q) \/ SettleLost(q) \/ SettleCall(q) \/ CheckBudget(q) \/ Dispatch(q) \/ Bind(q)
    BY <1>0, <1>1, <1>i, <1>k, <1>x, Moves DEF At
  <1>2. CASE StartFails(q) \/ Wait(q) \/ Look(q) \/ Sleep(q) \/ Cancel(q) \/ ObservationTimeout(q) \/ DispatcherRaises(q)
    BY <1>0, <1>2, <1>i, <1>k, <1>x, Moves DEF At
  <1>3. CASE Attach(q) \/ Select(q) \/ Claim(q) \/ Submit(q) \/ CancelList(q) \/ DropNext(q)
    <2>1. q = p
      BY <1>0, <1>3, <1>q, <1>x, AttachMoves, SelectMoves, ClaimMoves, SubmitMoves, CancelListMoves, DropNextMoves
    <2> QED
      BY <1>3, <1>i, <1>k, <2>1 DEF Attach, Select, Claim, Submit, CancelList, DropNext, At
  <1>4. CASE Locked(q) \/ Reserve(q)
    <2>1. Locked(q) => Moved(q, "reserve") \/ Release(q)
      BY <1>0, GoMoves DEF Locked
    <2>2. Reserve(q) => Moved(q, "clean") \/ Release(q)
      BY <1>0, GoMoves DEF Reserve
    <2>3. q = p
      BY <1>0, <1>4, <1>x, Moves
    <2> QED
      BY <1>4, <1>k, <1>m, <2>1, <2>2, <2>3 DEF Inside
  <1>5. CASE Complete(q)
    <2>1. Moved(q, "undo") \/ Release(q)
      BY <1>0, <1>5, GoMoves DEF Complete
    <2>2. q = p
      BY <1>0, <1>5, <1>x, Moves
    <2> QED
      BY <1>k, <1>m, <2>1, <2>2 DEF Inside
  <1>6. CASE Stage(q) \/ PrepareOutput(q) \/ CopyOutput(q) \/ RecordOutput(q) \/ PromoteOutput(q) \/ DeliveryRaises(q) \/ Finish(q)
    BY <1>0, <1>6, <1>k, <1>m, Moves DEF Inside
  <1>7. CASE FailureEnds(q) \/ Crash(q)
    <2>1. q = p /\ Release(q)
      BY <1>0, <1>7, <1>x, Moves DEF FailureEnds, Crash
    <2> QED
      BY <2>1
  <1>8. CASE Stop(q) \/ SettleDiscarded(q)
    BY <1>0, <1>8, <1>i, <1>k, <1>m, Moves DEF At, OutcomesDecided, OutcomeDecided, Inside
  <1>9. CASE DiscardRows(q)
    BY <1>0, <1>9, <1>k, <1>m, DiscardRowsMoves DEF Inside
  <1>10. CASE DiscardFiles(q)
    <2>1. q = p
      BY <1>0, <1>10, <1>q, DiscardFilesMoves
    <2>2. At(q, "drop_file") => Release(q)
      BY <1>10 DEF DiscardFiles
    <2> QED
      BY <1>0, <1>10, <1>k, <2>1, <2>2, DiscardFilesMoves DEF Inside
  <1>11. CASE Evaluate(q) \/ OverBudget(q)
    BY <1>0, <1>11, <1>q, <1>k, EvaluateMoves, OverBudgetMoves DEF Inside
  <1>12. CASE Failing(q)
    BY <1>0, <1>12, <1>q, <1>x, <1>k, FailingMoves DEF Inside
  <1> QED
    BY <1>a, <1>1, <1>2, <1>3, <1>4, <1>5, <1>6, <1>7, <1>8, <1>9, <1>10, <1>11, <1>12 DEF ActsFor, Step

\* Who gives a lock back is no longer under it.
LEMMA FreedLeaves ==
  ASSUME TypeOK, NEW p \in Procs, NEW a \in Attempts, Freed(p, a)
  PROVE  proc'[p].pc \in {"idle", "look", "sleep", "drop_next"}
  <1>0. CallsTypeOK /\ Nobody \notin Procs
    BY TypeParts, Names
  <1>1. dlock' # dlock
    BY <1>0 DEF Freed
  <1>2. Locked(p) => Moved(p, "look") \/ Moved(p, "sleep")
    BY <1>0, <1>1, GoMoves DEF Locked
  <1>3. Reserve(p) => Moved(p, "sleep")
    BY <1>0, <1>1, GoMoves DEF Reserve
  <1>4. Complete(p) => Returned(p)
    BY <1>0, <1>1, ReturnMoves DEF Complete
  <1>5. At(p, "drop_file") /\ DiscardFiles(p) => proc'[p].pc = "drop_next"
    BY <1>0, DiscardFilesMoves DEF At
  <1>6. Failing(p) /\ Leaves(p) => Returned(p)
    BY <1>0, FailingMoves
  <1>7. FailureEnds(p) \/ Crash(p) => Returned(p)
    BY <1>0, Moves
  <1> QED
    BY <1>2, <1>3, <1>4, <1>5, <1>6, <1>7 DEF Freed, Releasing, Moved, Returned, Idle

LEMMA LocksAreHeldStep ==
  ASSUME TypeOK, CallsHaveAttempts, OutcomesDecided, OneDispatcher, WorkersFinished, LocksAreHeld, ReservationHolds, Next \/ Revise
  PROVE  LocksAreHeld'
  <1>0. CallsTypeOK /\ DeliveryTypeOK /\ Nobody \notin Procs
    BY TypeParts, Names
  <1>k. /\ Locking = {"locked", "reserve", "clean", "clean_file", "stage", "evaluate", "prepare", "copy", "record", "promote",
                      "complete", "undo", "undo_file", "undone", "drop", "drop_file"}
        /\ Leaving = {"stop", "settle", "finish", "late", "late_file", "settle_run"}
    BY DEF Locking, Taking, Reserving, Cleaning, Staging, Undoing, Dropping, Leaving
  \* A lock that is held stays with its holder as long as that is under it.
  <1>2. ASSUME NEW p \in Procs, NEW a \in Attempts, dlock[a] = p, proc'[p].pc \in Locking \cup Leaving
        PROVE  dlock'[a] = p
    <2>1. \A q \in Procs : ~ Taken(q, a)
      BY <1>0, <1>2 DEF Taken
    <2>2. \A q \in Procs : ~ Freed(q, a)
      BY <1>2, <1>k, FreedLeaves DEF Freed
    <2> QED
      BY <1>2, <2>1, <2>2, LockChanges
  <1>3. ASSUME NEW p \in Procs, proc'[p].pc \in Locking PROVE dlock'[proc'[p].att] = p
    <2>1. CASE proc'[p].att = proc[p].att /\ proc[p].pc \in Locking
      BY <1>2, <1>3, <2>1, HolderOf
    <2>2. CASE Look(p)
      <3>1. Lock(p, proc[p].att) /\ Moved(p, "locked")
        <4>1. ~ Moved(p, "failing") /\ ~ Moved(p, "sleep") /\ ~ Returned(p)
          BY <1>3, <1>k DEF Moved, Returned, Idle
        <4> QED
          BY <1>0, <2>2, <4>1, GoMoves, ReturnMoves DEF Look
      <3>2. proc[p].att \in Attempts
        BY <2>2, ActsForUsed DEF Look, At, Between, NoAttYet
      <3> QED
        BY <1>0, <3>1, <3>2 DEF Lock, Moved, Keeps, DeliveryTypeOK
    <2>3. CASE DropNext(p)
      BY <1>0, <1>3, <1>k, <2>3, DropNextMoves DEF Lock, DeliveryTypeOK, Returned, Idle
    <2>4. CASE proc'[p] # proc[p] /\ ~ Look(p) /\ ~ DropNext(p)
      <3>1. ~ Returned(p)
        BY <1>3, <1>k DEF Returned, Idle
      <3>2. Arrives(p)
        BY <2>4, <3>1, Arrivals
      <3>3. proc[p].pc \in Locking
        BY <1>3, <1>k, <2>4, <3>2 DEF Arrives, At, Locked, Reserve, DiscardRows, DiscardFiles, Stage, Evaluate, PrepareOutput,
           CopyOutput, RecordOutput, PromoteOutput, Complete
      <3>4. Keeps(p)
        BY <1>k, <2>4, <3>2, <3>3 DEF Arrives, Attach, Claim, Submit, CancelList, At
      <3> QED
        BY <2>1, <3>3, <3>4 DEF Keeps
    <2> QED
      BY <1>3, <2>1, <2>2, <2>3, <2>4
  <1>4. ASSUME NEW p \in Procs, proc'[p].pc \in Leaving, proc'[p].attached PROVE dlock'[proc'[p].att] = p
    <2>1. CASE proc'[p].att = proc[p].att /\ proc[p].att \in Attempts /\ dlock[proc[p].att] = p
      BY <1>2, <1>4, <2>1
    <2>2. CASE proc'[p] = proc[p]
      BY <1>4, <1>k, <2>1, <2>2, ActsForUsed DEF LocksAreHeld, Between, NoAttYet
    <2>3. CASE proc'[p] # proc[p]
      <3>1. ~ Returned(p)
        BY <1>4, <1>k DEF Returned, Idle
      <3>2. Arrives(p)
        BY <2>3, <3>1, Arrivals
      <3>3. CASE Failing(p)
        BY <1>0, <1>4, <2>1, <3>1, <3>3, FailingMoves DEF Leaves, Holds, Keeps
      <3>4. CASE OverBudget(p)
        <4>1. proc[p].pc \in Locking /\ Keeps(p)
          BY <1>0, <1>k, <3>4, OverBudgetMoves DEF OverBudget
        <4> QED
          BY <2>1, <4>1, HolderOf DEF Keeps
      <3>5. CASE ~ Failing(p) /\ ~ OverBudget(p)
        <4>1. proc[p].pc \in Leaving
          BY <1>4, <1>k, <3>2, <3>5 DEF Arrives, At, Finish
        <4>2. Keeps(p)
          BY <1>k, <3>2, <4>1 DEF Arrives, Attach, Claim, Submit, CancelList, DropNext, At
        <4> QED
          BY <1>4, <1>k, <2>1, <4>1, <4>2, ActsForUsed DEF LocksAreHeld, Between, NoAttYet, Keeps
      <3> QED
        BY <3>3, <3>4, <3>5
    <2> QED
      BY <2>2, <2>3
  <1>5. ASSUME NEW a \in Attempts, dlock'[a] # Nobody
        PROVE  /\ proc'[dlock'[a]].att = a /\ proc'[dlock'[a]].pc \in Locking \cup Handling
               /\ bound'[a] \in Open \cup {"discarded"} /\ work'[a] = "finished"
    <2>1. CASE dlock'[a] = dlock[a]
      <3> DEFINE h == dlock[a]
      <3>1. /\ h \in Procs /\ proc[h].att = a /\ proc[h].pc \in Locking \cup Handling
            /\ bound[a] \in Open \cup {"discarded"} /\ work[a] = "finished"
        BY <1>0, <1>5, <2>1 DEF LocksAreHeld, DeliveryTypeOK
      <3>2. ~ Release(h)
        BY <1>0, <1>5, <2>1 DEF Release
      <3>3. proc'[h].att = a /\ proc'[h].pc \in Locking \cup Handling
        BY <3>1, <3>2, UnderLock DEF Keeps
      <3>4. ASSUME NEW q \in Procs, Settled(q, a) PROVE FALSE
        <4>1. proc[q].pc \in Locking /\ proc[q].att = a /\ Release(q)
          BY <1>k, <3>4 DEF Settled, Complete, At
        <4>2. q = h
          BY <4>1, HolderOf
        <4> QED
          BY <3>2, <4>1, <4>2
      <3>5. bound'[a] \in Open \cup {"discarded"}
        BY <3>1, <3>4, BoundChanges DEF Lost, Bound, Reopened, Reserved, Discarded, Open
      <3> QED
        BY <2>1, <3>1, <3>3, <3>5, FinishedStays
    <2>2. CASE dlock'[a] # dlock[a]
      <3>1. PICK p \in Procs : Taken(p, a)
        BY <1>5, <2>2, LockChanges DEF Freed
      <3>2. CASE Look(p) /\ Moved(p, "locked") /\ bound[a] \in Open
        <4>1. proc[p].att = a /\ proc[p].pc = "look" /\ UNCHANGED bound
          BY <3>1, <3>2 DEF Taken, Moved, Keeps, Look, At
        <4> QED
          BY <1>k, <3>1, <3>2, <4>1, FinishedStays DEF WorkersFinished, Taken, Moved
      <3>3. CASE DropNext(p) /\ proc'[p].pc = "drop" /\ a \in proc[p].todo
        <4>1. bound[a] = "discarded" /\ UNCHANGED bound
          BY <3>3 DEF DropNext, At, ReservationHolds
        <4> QED
          BY <1>k, <3>1, <3>3, <4>1, FinishedStays DEF WorkersFinished, Taken
      <3> QED
        BY <3>1, <3>2, <3>3 DEF Taken
    <2> QED
      BY <2>1, <2>2
  <1> QED
    BY <1>3, <1>4, <1>5 DEF LocksAreHeld

LEMMA OneUnderLock ==
  ASSUME CallsHaveAttempts, LocksAreHeld, NEW p \in Procs, NEW q \in Procs,
         proc[p].pc \in Locking, proc[q].pc \in Locking, proc[p].att = proc[q].att
  PROVE  p = q
  BY HolderOf

\* What was discarded, lost or settled is so for good.
LEMMA OutcomeStays ==
  ASSUME TypeOK, Next \/ Revise, NEW a \in Attempts, bound[a] \in {"discarded", "lost", "settled"}
  PROVE  bound'[a] = bound[a]
  BY BoundChanges DEF Lost, Bound, Reopened, Reserved, Settled, Deliverable, Discarded, Open

\* Under the reservation of a live call the binding can only be settled by that call, or discarded.
LEMMA ReservationStays ==
  ASSUME TypeOK, CallsHaveAttempts, LocksAreHeld, ReservationHolds, Next \/ Revise,
         NEW p \in Procs, proc[p].pc \in Reserving, ~ Returned(p)
  PROVE  bound'[proc[p].att] \in {"delivering", "discarded"}
  <1> DEFINE a == proc[p].att
  <1>k. /\ Reserving = {"clean", "clean_file", "stage", "evaluate", "prepare", "copy", "record", "promote",
                        "complete", "undo", "undo_file", "undone"}
        /\ Locking = Taking \cup Reserving \cup Dropping /\ Taking = {"locked", "reserve"}
    BY DEF Locking, Taking, Reserving, Cleaning, Staging, Undoing
  <1>1. a \in Attempts /\ bound[a] \in {"delivering", "discarded"} /\ work[a] = "finished"
    BY <1>k, HolderOf DEF ReservationHolds
  <1>2. ASSUME NEW q \in Procs, Reopened(q, a) \/ Settled(q, a) PROVE FALSE
    <2>1. proc[q].pc \in {"locked", "complete"} /\ proc[q].att = a
      BY <1>2 DEF Reopened, Settled, Locked, Complete, At
    <2>2. q = p
      BY <1>k, <2>1, OneUnderLock
    <2> QED
      BY <1>2, <1>k, <2>1, <2>2 DEF Reopened, Settled, Locked, At
  <1> QED
    BY <1>1, <1>2, BoundChanges DEF Lost, Bound, Reserved, Discarded, Open

LEMMA ReservationHoldsStep ==
  ASSUME TypeOK, CallsHaveAttempts, OutcomesDecided, WorkersFinished, LocksAreHeld, ReservationHolds, Next \/ Revise
  PROVE  ReservationHolds'
  <1>0. CallsTypeOK /\ DeliveryTypeOK
    BY TypeParts
  <1>k. /\ Reserving = {"clean", "clean_file", "stage", "evaluate", "prepare", "copy", "record", "promote",
                        "complete", "undo", "undo_file", "undone"}
        /\ Dropping = {"drop", "drop_file"}
    BY DEF Reserving, Cleaning, Staging, Undoing, Dropping
  <1>1. ASSUME NEW p \in Procs, proc'[p].pc \in Reserving PROVE bound'[proc'[p].att] \in {"delivering", "discarded"}
    <2>0. ~ Returned(p)
      BY <1>1, <1>k DEF Returned, Idle
    <2>1. CASE proc'[p] = proc[p]
      BY <1>1, <2>0, <2>1, ReservationStays
    <2>2. CASE proc'[p] # proc[p] /\ ~ Reserve(p)
      <3>1. Arrives(p)
        BY <2>0, <2>2, Arrivals
      <3>2. proc[p].pc \in Reserving
        BY <1>1, <1>k, <2>2, <3>1 DEF Arrives, At, DiscardRows, DiscardFiles, Stage, Evaluate, PrepareOutput,
           CopyOutput, RecordOutput, PromoteOutput, Complete
      <3>3. Keeps(p)
        BY <1>k, <3>1, <3>2 DEF Arrives, Attach, Claim, Submit, CancelList, DropNext, At
      <3> QED
        BY <2>0, <3>2, <3>3, ReservationStays DEF Keeps
    <2>3. CASE Reserve(p)
      <3>1. proc[p].att \in Attempts /\ proc'[p].att = proc[p].att
        BY <1>0, <2>3, Moves, ActsForUsed DEF Moved, Keeps, At, Between, NoAttYet
      <3>2. ~ Moved(p, "sleep")
        BY <1>1, <1>k DEF Moved
      <3>3. bound' = [bound EXCEPT ![proc[p].att] = "delivering"]
        BY <1>0, <2>3, <3>2, GoMoves DEF Reserve
      <3> QED
        BY <1>0, <3>1, <3>3 DEF DeliveryTypeOK
    <2> QED
      BY <2>1, <2>2, <2>3
  <1>2. ASSUME NEW p \in Procs, proc'[p].pc \in {"drop_next"} \cup Dropping
        PROVE  /\ \A a \in proc'[p].todo : bound'[a] = "discarded"
               /\ proc'[p].pc \in Dropping => bound'[proc'[p].att] = "discarded"
    <2>0. ~ Returned(p) /\ proc[p].todo \subseteq Attempts
      BY <1>0, <1>2, <1>k DEF Returned, Idle, CallsTypeOK, CallRow
    <2>1. ASSUME NEW a \in Attempts, bound[a] = "discarded" PROVE bound'[a] = "discarded"
      BY <2>1, OutcomeStays
    <2>2. ASSUME proc'[p].todo \subseteq proc[p].todo, proc[p].pc \in {"drop_next"} \cup Dropping
          PROVE  \A a \in proc'[p].todo : bound'[a] = "discarded"
      BY <2>0, <2>1, <2>2 DEF ReservationHolds
    <2>3. ASSUME proc'[p].att = proc[p].att, proc[p].pc \in Dropping
          PROVE  bound'[proc'[p].att] = "discarded"
      <3>1. proc[p].att \in Attempts /\ bound[proc[p].att] = "discarded"
        BY <1>k, <2>3, ActsForUsed DEF ReservationHolds, Between, NoAttYet
      <3> QED
        BY <2>1, <2>3, <3>1
    <2>4. CASE proc'[p] = proc[p]
      BY <1>2, <2>2, <2>3, <2>4
    <2>5. CASE proc'[p] # proc[p]
      <3>1. CancelList(p) \/ DropNext(p) \/ (At(p, "drop_file") /\ DiscardFiles(p)) \/ (At(p, "drop") /\ DiscardRows(p))
        BY <1>2, <1>k, <2>0, <2>5, Arrivals DEF Arrives
      <3>2. CASE CancelList(p)
        <4>1. proc'[p].todo = {a \in Attempts : bound[a] = "discarded"} /\ proc'[p].pc = "drop_next"
          BY <1>0, <1>2, <1>k, <3>2, CancelListMoves
        <4> QED
          BY <1>k, <2>1, <4>1
      <3>3. CASE DropNext(p)
        <4>1. /\ At(p, "drop_next") /\ proc'[p].todo \subseteq proc[p].todo
              /\ \/ proc'[p].att \in proc[p].todo
                 \/ proc'[p].pc = "drop_next"
          BY <1>0, <2>0, <3>3, DropNextMoves DEF DropNext
        <4>2. proc'[p].pc # "drop_next" => bound'[proc'[p].att] = "discarded"
          BY <2>0, <2>1, <4>1 DEF At, ReservationHolds
        <4> QED
          BY <1>k, <2>2, <4>1, <4>2 DEF At
      <3>4. CASE At(p, "drop_file") /\ DiscardFiles(p)
        BY <1>0, <1>k, <2>2, <3>4, DiscardFilesMoves DEF At
      <3>5. CASE At(p, "drop") /\ DiscardRows(p)
        BY <1>0, <1>k, <2>2, <2>3, <3>5, DiscardRowsMoves DEF At, Moved, Keeps
      <3> QED
        BY <3>1, <3>2, <3>3, <3>4, <3>5
    <2> QED
      BY <2>4, <2>5
  <1> QED
    BY <1>1, <1>2 DEF ReservationHolds

LEMMA EnvelopesReadStep ==
  ASSUME TypeOK, CallsHaveAttempts, OutcomesDecided, EnvelopesRead, Next \/ Revise
  PROVE  EnvelopesRead'
  <1>0. CallsTypeOK
    BY TypeParts
  <1>1. ASSUME NEW a \in Attempts, env[a] # "none" PROVE env'[a] # "none"
    BY <1>1, ExecutionChanges
  <1>2. ASSUME NEW p \in Procs, proc'[p].pc \in Staging \ {"stage"} PROVE env'[proc'[p].att] # "none"
    <2>1. CASE proc[p].att \in Attempts /\ env[proc[p].att] # "none" /\ proc'[p].att = proc[p].att
      BY <1>1, <2>1
    <2>2. CASE proc'[p] = proc[p]
      BY <1>2, <2>1, <2>2, ActsForUsed DEF EnvelopesRead, Staging, Between, NoAttYet
    <2>3. CASE proc'[p] # proc[p]
      <3>1. ~ Returned(p)
        BY <1>2 DEF Staging, Returned, Idle
      <3>2. Stage(p) \/ proc[p].pc \in Staging \ {"stage"}
        BY <1>2, <2>3, <3>1, Arrivals DEF Arrives, Staging, Evaluate, PrepareOutput, CopyOutput, RecordOutput, PromoteOutput, At
      <3>3. Keeps(p)
        BY <2>3, <3>1, <3>2, Arrivals DEF Arrives, Stage, Attach, Claim, Submit, CancelList, DropNext, At, Staging
      <3>4. CASE Stage(p)
        <4>1. ~ Moved(p, "failing")
          BY <1>2 DEF Moved, Staging
        <4>2. env[proc[p].att] # "none"
          BY <1>0, <3>4, <4>1, GoMoves DEF Stage
        <4> QED
          BY <2>1, <3>3, <3>4, <4>2, ActsForUsed DEF Keeps, Stage, At, Between, NoAttYet
      <3>5. CASE proc[p].pc \in Staging \ {"stage"}
        BY <2>1, <3>3, <3>5, ActsForUsed DEF Keeps, EnvelopesRead, Staging, Between, NoAttYet
      <3> QED
        BY <3>2, <3>4, <3>5
    <2> QED
      BY <2>2, <2>3
  <1>3. ASSUME NEW a \in Attempts, bound'[a] = "settled" PROVE env'[a] # "none"
    <2>1. CASE bound'[a] = bound[a]
      BY <1>1, <1>3, <2>1 DEF EnvelopesRead
    <2>2. ASSUME NEW p \in Procs, Settled(p, a) PROVE env'[a] # "none"
      BY <1>1, <2>2 DEF Settled, Complete, At, EnvelopesRead, Staging
    <2> QED
      BY <1>3, <2>1, <2>2, BoundChanges DEF Lost, Bound, Reopened, Reserved, Discarded
  <1> QED
    BY <1>2, <1>3 DEF EnvelopesRead

LEMMA OutputsPreparedStep ==
  ASSUME TypeOK, CallsHaveAttempts, OutcomesDecided, OutputsPrepared, Next \/ Revise
  PROVE  OutputsPrepared'
  <1>0. CallsTypeOK
    BY TypeParts
  <1>t. ArtifactsTypeOK /\ ArtifactsTypeOK'
    BY TypeParts, DeliveryType
  <1>1. \A a \in Attempts : a \in prepared => a \in prepared'
    BY EvidenceAppears
  <1>2. \A p \in Procs : RecordOutput(p) \/ CopyOutput(p) => proc[p].att \in prepared
    BY DEF OutputsPrepared, RecordOutput, CopyOutput, At
  <1>3. outputs' \subseteq prepared'
    <2>1. \A a \in Attempts : a \in outputs' /\ a \notin outputs => a \in prepared
      BY <1>2, EvidenceAppears
    <2> QED
      BY <1>t, <1>1, <2>1 DEF ArtifactsTypeOK, OutputsPrepared
  <1>4. ASSUME NEW a \in Attempts, file'[task] = a PROVE a \in prepared'
    BY <1>1, <1>2, <1>4, EvidenceAppears DEF OutputsPrepared
  <1>5. ASSUME NEW p \in Procs, proc'[p].pc \in {"copy", "record", "promote"} PROVE proc'[p].att \in prepared'
    <2>1. CASE proc[p].pc \in {"copy", "record", "promote"} /\ proc'[p].att = proc[p].att
      BY <1>1, <2>1, ActsForUsed DEF OutputsPrepared, Between, NoAttYet
    <2>2. CASE proc'[p] # proc[p]
      <3>1. ~ Returned(p)
        BY <1>5 DEF Returned, Idle
      <3>2. PrepareOutput(p) \/ CopyOutput(p) \/ RecordOutput(p)
        BY <1>5, <2>2, <3>1, Arrivals DEF Arrives
      <3>3. proc'[p].att = proc[p].att
        BY <1>0, <3>2, Moves DEF Moved, Keeps
      <3>4. PrepareOutput(p) => proc[p].att \in prepared'
        BY DEF PrepareOutput
      <3> QED
        BY <2>1, <3>2, <3>3, <3>4 DEF CopyOutput, RecordOutput, At
    <2> QED
      BY <1>5, <2>1, <2>2
  <1> QED
    BY <1>3, <1>4, <1>5 DEF OutputsPrepared

\* The steps a call can return with.
LEMMA Returns ==
  ASSUME TypeOK, OutcomesDecided, Next \/ Revise, NEW p \in Procs, Returned(p), proc'[p] # proc[p]
  PROVE  \/ CheckBudget(p) \/ Attach(p) \/ Select(p) \/ Claim(p) \/ ObservationTimeout(p) \/ Look(p) \/ Complete(p)
         \/ (Failing(p) /\ Leaves(p)) \/ FailureEnds(p) \/ DropNext(p) \/ Crash(p)
  <1>0. CallsTypeOK
    BY TypeParts
  <1>a. PICK q \in Procs : ActsFor(q)
    BY OnlyCallsMove
  <1>i. proc'[p].pc = "idle"
    BY DEF Returned, Idle
  <1>q. Alone(q) => q = p
    BY DEF Alone
  <1>m. ASSUME NEW l, Moved(q, l) PROVE q = p /\ l = "idle"
    BY <1>m, <1>i, <1>q DEF Moved
  <1>1. ~ (Call(q) \/ Reconcile(q) \/ SettleLost(q) \/ SettleCall(q) \/ Dispatch(q) \/ Bind(q) \/ StartFails(q) \/ Wait(q))
    BY <1>0, <1>m, Moves
  <1>2. ~ (\/ Sleep(q) \/ Locked(q) \/ Reserve(q) \/ Stage(q) \/ PrepareOutput(q) \/ CopyOutput(q) \/ RecordOutput(q)
           \/ PromoteOutput(q) \/ Stop(q) \/ Finish(q) \/ Cancel(q) \/ DispatcherRaises(q) \/ DeliveryRaises(q))
    BY <1>0, <1>m, Moves
  <1>3. ~ SettleDiscarded(q)
    BY <1>0, <1>m, Moves DEF OutcomesDecided, OutcomeDecided, At
  <1>4. ~ (DiscardRows(q) \/ DiscardFiles(q) \/ Evaluate(q) \/ OverBudget(q) \/ Submit(q) \/ CancelList(q))
    BY <1>0, <1>m, <1>i, <1>q, DiscardRowsMoves, DiscardFilesMoves, EvaluateMoves, OverBudgetMoves, SubmitMoves, CancelListMoves
  <1>5. CheckBudget(q) \/ ObservationTimeout(q) \/ Look(q) \/ Complete(q) \/ FailureEnds(q) \/ Crash(q) => q = p
    BY <1>0, <1>m, <1>q, Moves DEF Returned
  <1>6. Attach(q) \/ Select(q) \/ Claim(q) \/ DropNext(q) => q = p
    BY <1>0, <1>m, <1>q, AttachMoves, SelectMoves, ClaimMoves, DropNextMoves DEF Returned
  <1>7. Failing(q) => q = p /\ Leaves(p)
    BY <1>0, <1>i, <1>q, FailingMoves DEF Returned
  <1> QED
    BY <1>a, <1>1, <1>2, <1>3, <1>4, <1>5, <1>6, <1>7 DEF ActsFor, Step

LEMMA EvidenceIsAnsweredForStep ==
  ASSUME TypeOK, CallsHaveAttempts, OutcomesDecided, OneDispatcher, WorkersFinished, LocksAreHeld, ReservationHolds,
         OutputsPrepared, EvidenceIsAnsweredFor, Next \/ Revise
  PROVE  EvidenceIsAnsweredFor'
  <1>0. CallsTypeOK /\ DeliveryTypeOK /\ Nobody \notin Procs /\ ArtifactsTypeOK /\ task \in Tasks
    BY TypeParts, Names
  <1>t. CallsTypeOK'
    BY CallsType
  <1>k. /\ Answering = {"stage", "evaluate", "prepare", "copy", "record", "promote", "complete", "undo", "undo_file", "undone",
                        "failing", "stop", "settle", "finish", "late", "late_file"}
        /\ Answering \cup {"settle_run"} \subseteq Locking \cup Handling
        /\ {"stage", "record", "copy"} \subseteq Locking
    BY DEF Answering, Staging, Undoing, Handling, Leaving, Locking, Taking, Reserving, Cleaning
  \* The holder of the lock goes on answering until it has removed the evidence, or died.
  <1>1. ASSUME NEW a \in Attempts, NEW h \in Procs, dlock[a] = h, proc[h].att = a, proc[h].pc \in Answering,
               bound'[a] # "settled", a \notin dropped', Shows(a)'
        PROVE  dlock'[a] = h /\ proc'[h].pc \in Answering
    <2>1. bound[a] # "settled"
      BY <1>1, OutcomeStays
    <2>2. ~ Returned(h)
      <3> SUFFICES ASSUME Returned(h) PROVE FALSE
        OBVIOUS
      <3>1. proc'[h] # proc[h]
        BY <1>1, <1>k DEF Returned, Idle
      <3>2. ~ Complete(h)
        <4>1. Complete(h) => bound'[a] = "settled"
          BY <1>0, <1>1, <2>1, GoMoves DEF Complete, CompleteWorkerBinding, Moved, Returned, Idle, DeliveryTypeOK
        <4> QED
          BY <1>1, <4>1
      <3>3. ~ Leaves(h)
        BY <1>1, <2>1 DEF Leaves, Holds
      <3>4. ~ Crash(h)
        BY <1>1 DEF Crash
      <3> QED
        BY <1>1, <1>k, <3>1, <3>2, <3>3, <3>4, Returns DEF CheckBudget, Attach, Select, Claim, ObservationTimeout, Look,
           FailureEnds, DropNext, At
    <2>3. proc'[h].pc \in Answering \cup {"settle_run"}
      <3>1. CASE proc'[h] = proc[h]
        BY <1>1, <3>1
      <3>2. CASE proc'[h] # proc[h]
        <4>1. Arrives(h) /\ proc'[h].pc \in Pcs
          BY <1>t, <2>2, <3>2, Arrivals DEF CallsTypeOK, CallRow
        <4>2. proc'[h].pc \notin NoAttYet \cup Starting \cup Observing
          BY <1>1, <1>k, <4>1 DEF Arrives, NoAttYet, Starting, Observing, Claim, Dispatch, Bind, Attach, Submit, Wait, Sleep,
             Locked, Look, Reserve, At
        <4>3. proc'[h].pc \notin Taking \cup Cleaning \cup {"cancel_list", "cancel_stop", "cancel_settle", "drop_next"} \cup Dropping
          BY <1>1, <1>k, <4>1 DEF Arrives, Taking, Cleaning, Dropping, Locked, Look, Reserve, Cancel, CancelList, DropNext, At
        <4> QED
          BY <4>1, <4>2, <4>3, <1>k DEF Pcs, Staging, NoAttYet, Starting, Observing, Taking, Cleaning, Dropping
      <3> QED
        BY <3>1, <3>2
    <2>4. dlock'[a] = h
      <3>1. \A q \in Procs : ~ Taken(q, a)
        BY <1>0, <1>1 DEF Taken
      <3>2. \A q \in Procs : ~ Freed(q, a)
        BY <1>1, <1>k, <2>3, FreedLeaves DEF Freed
      <3> QED
        BY <1>1, <3>1, <3>2, LockChanges
    <2>5. proc'[h].pc # "settle_run"
      <3> SUFFICES ASSUME proc'[h].pc = "settle_run" PROVE FALSE
        OBVIOUS
      <3>1. At(h, "late_file") /\ DiscardFiles(h)
        BY <1>1, <1>k, <2>2, Arrivals DEF Arrives
      <3>2. a \notin results \cup outputs
        BY <1>1, <3>1 DEF At, EvidenceIsAnsweredFor
      <3>3. file'[task] # a
        BY <1>0, <1>1, <3>1, Names DEF DiscardFiles, OutputsPrepared, ArtifactsTypeOK
      <3> QED
        BY <1>1, <3>1, <3>2, <3>3 DEF Shows, DiscardFiles
    <2> QED
      BY <2>3, <2>4, <2>5
  <1>2. ASSUME NEW a \in Attempts, Shows(a)', bound'[a] # "settled", a \notin dropped'
        PROVE  dlock'[a] # Nobody /\ proc'[dlock'[a]].pc \in Answering
    <2>1. CASE Shows(a)
      <3>1. bound[a] # "settled" /\ a \notin dropped
        BY <1>2, OutcomeStays, EvidenceAppears
      <3>2. dlock[a] \in Procs /\ proc[dlock[a]].att = a /\ proc[dlock[a]].pc \in Answering
        BY <1>0, <2>1, <3>1 DEF EvidenceIsAnsweredFor, LocksAreHeld, DeliveryTypeOK
      <3> QED
        BY <1>0, <1>1, <1>2, <3>2
    <2>2. CASE ~ Shows(a)
      <3>1. PICK p \in Procs : (Stage(p) \/ RecordOutput(p) \/ CopyOutput(p)) /\ proc[p].att = a
        BY <1>2, <2>2, EvidenceAppears DEF Shows
      <3>2. dlock[a] = p /\ UNCHANGED dlock
        <4>1. proc[p].pc \in Locking
          BY <1>k, <3>1 DEF Stage, RecordOutput, CopyOutput, At
        <4> QED
          BY <3>1, <4>1, HolderOf DEF Stage, RecordOutput, CopyOutput
      <3>3. proc'[p].pc \in Answering
        BY <1>0, <1>k, <3>1, Moves DEF Moved
      <3> QED
        BY <1>0, <3>2, <3>3
    <2> QED
      BY <2>1, <2>2
  <1>3. ASSUME NEW p \in Procs, proc'[p].pc \in {"clean_file", "late_file"}, dlock'[proc'[p].att] = p
        PROVE  proc'[p].att \notin results' \cup outputs'
    <2>1. CASE proc'[p] = proc[p]
      <3> DEFINE a == proc[p].att
      <3>1. a \in Attempts /\ proc[p].pc \in {"clean_file", "late_file"}
        BY <1>3, <2>1, ActsForUsed DEF Between, NoAttYet
      <3>2. \A q \in Procs : Taken(q, a) => q # p
        BY <1>3 DEF Taken, Moved
      <3>3. dlock[a] = p
        BY <1>0, <1>3, <2>1, <3>1, <3>2, LockChanges DEF Taken, Freed
      <3>4. a \notin results \cup outputs
        BY <3>1, <3>3 DEF EvidenceIsAnsweredFor
      <3>5. ASSUME NEW q \in Procs, Stage(q) \/ RecordOutput(q), proc[q].att = a PROVE FALSE
        <4>1. proc[q].pc \in {"stage", "record"}
          BY <3>5 DEF Stage, RecordOutput, At
        <4>2. q = p
          BY <1>k, <3>3, <3>5, <4>1, HolderOf
        <4> QED
          BY <3>1, <4>1, <4>2
      <3> QED
        BY <2>1, <3>1, <3>4, <3>5, EvidenceAppears
    <2>2. CASE proc'[p] # proc[p]
      <3>1. ~ Returned(p)
        BY <1>3 DEF Returned, Idle
      <3>2. DiscardRows(p)
        BY <1>3, <2>2, <3>1, Arrivals DEF Arrives
      <3>3. proc'[p].att = proc[p].att
        BY <1>0, <3>2, DiscardRowsMoves DEF Moved, Keeps
      <3> QED
        BY <3>2, <3>3 DEF DiscardRows, OutputsPrepared
    <2> QED
      BY <2>1, <2>2
  <1> QED
    BY <1>2, <1>3 DEF EvidenceIsAnsweredFor

-----------------------------------------------------------------------------
(* Evidence has an owner.                                                      *)

LEMMA OwnInit ==
  ASSUME Init
  PROVE  OwnInv
  <1>1. LedgerTypeOK /\ ArtifactsTypeOK
    BY StoreInitType DEF Init
  <1>2. DeliveryTypeOK
    BY <1>1 DEF Init, DeliveryTypeOK
  <1>3. Idle \in CallRow
    BY StoreAssumption, Places DEF Idle, CallRow
  <1>4. CallsTypeOK
    BY <1>3 DEF Init, CallsTypeOK
  <1>5. TypeOK
    BY <1>1, <1>2, <1>4, TypeParts
  <1>6. /\ \A p \in Procs : proc[p] = Idle
        /\ \A a \in Attempts : /\ bound[a] = "none" /\ work[a] = "none" /\ env[a] = "none" /\ exec[a] = "none"
                              /\ dlock[a] = Nobody /\ ~ Shows(a)
        /\ outputs = {} /\ results = {} /\ prepared = {} /\ file[task] = NoAttempt
    BY Names DEF Init, StoreInit, Shows
  <1>7. CallsHaveAttempts /\ OutcomesDecided /\ UnusedIsBlank
    BY <1>6 DEF CallsHaveAttempts, CallHasAttempt, OutcomesDecided, OutcomeDecided, UnusedIsBlank, Idle, Between, NoAttYet,
       Starting, Observing, Taking, Reserving, Cleaning, Staging, Undoing, Canceling, Dropping
  <1>8. OneDispatcher /\ WorkersFinished
    BY <1>6 DEF OneDispatcher, WorkersFinished, Dispatches, Refers, Idle, Between, NoAttYet
  <1>9. LocksAreHeld /\ ReservationHolds
    BY <1>6 DEF LocksAreHeld, ReservationHolds, Idle, Locking, Leaving, Taking, Reserving, Cleaning, Staging, Undoing, Dropping
  <1>10. EnvelopesRead /\ OutputsPrepared /\ EvidenceIsAnsweredFor
    BY <1>6, Names DEF EnvelopesRead, OutputsPrepared, EvidenceIsAnsweredFor, Idle, Staging
  <1> QED
    BY <1>5, <1>7, <1>8, <1>9, <1>10 DEF OwnInv

LEMMA OwnStep ==
  ASSUME OwnInv, Next \/ Revise
  PROVE  OwnInv'
  BY TypeStep, CallsHaveAttemptsStep, OutcomesDecidedStep, UnusedIsBlankStep, OneDispatcherStep, WorkersFinishedStep,
     LocksAreHeldStep, ReservationHoldsStep, EnvelopesReadStep, OutputsPreparedStep, EvidenceIsAnsweredForStep DEF OwnInv

LEMMA OwnStutters ==
  ASSUME OwnInv, UNCHANGED vars
  PROVE  OwnInv'
  <1>1. TypeOK'
    BY DEF OwnInv, TypeOK, StoreTypeOK, vars, store, ledger, artifacts, worker
  <1>2. CallsHaveAttempts' /\ OutcomesDecided' /\ UnusedIsBlank' /\ OneDispatcher'
    BY DEF OwnInv, vars, store, ledger, artifacts, worker, CallsHaveAttempts, CallHasAttempt, OutcomesDecided, OutcomeDecided,
       UnusedIsBlank, OneDispatcher, Dispatches, Refers, Used
  <1>3. WorkersFinished' /\ LocksAreHeld' /\ ReservationHolds' /\ EnvelopesRead' /\ OutputsPrepared' /\ EvidenceIsAnsweredFor'
    BY DEF OwnInv, vars, store, ledger, artifacts, worker, WorkersFinished, LocksAreHeld, ReservationHolds, EnvelopesRead,
       OutputsPrepared, EvidenceIsAnsweredFor, Shows
  <1> QED
    BY <1>1, <1>2, <1>3 DEF OwnInv

LEMMA OwnImplies ==
  ASSUME OwnInv
  PROVE  EvidenceIsOwned
  <1>k. Staging \subseteq Locking /\ Staging \subseteq Reserving
    BY DEF Locking, Reserving
  <1>1. LateEvidenceIsOwned
    BY DEF OwnInv, LateEvidenceIsOwned, EvidenceIsAnsweredFor, Shows
  <1>2. StagerOwnsBinding
    BY <1>k, OneUnderLock DEF OwnInv, StagerOwnsBinding, ReservationHolds
  <1> QED
    BY <1>1, <1>2 DEF OwnInv, EvidenceIsOwned

\* Whatever is staged, retried, cancelled, raised or killed, and however often the plan is revised:
\* evidence of an attempt whose binding is not settled exists only under the delivery lock, or where
\* the holder was killed, and one call stages for a binding that is reserved.  This is the comment of
\* _discard_late_result, "The live delivery owner will discard before releasing its lock".
THEOREM EvidenceHasAnOwner == Spec \/ RevisedSpec => []EvidenceIsOwned
  <1>1. OwnInv /\ [Next \/ Revise]_vars => OwnInv'
    BY OwnStep, OwnStutters
  <1> QED
    BY <1>1, OwnInit, OwnImplies, PTL DEF Spec, RevisedSpec

-----------------------------------------------------------------------------
(* The ledger under a committed delivery.                                      *)

\* For which attempt a task fails: one whose worker was lost, or whose handler is at the end.
Ends(b) == Used(b) /\ (bound[b] = "lost" \/ \E p \in Procs : At(p, "finish") /\ proc[p].att = b)

\* What a step does to the task and its attempts.
LEMMA LedgerChanges ==
  ASSUME OwnInv, Next
  PROVE  \/ UNCHANGED <<tasks, atts>>
         \/ \E b \in Attempts : ClaimTask(task, b, FALSE) \/ (Ends(b) /\ FinishTask(task, b, FALSE))
         \/ \E p \in Procs, b \in Attempts : Settled(p, b)
         \/ \E limit \in {"max_attempts", "max_runtime_seconds"} : FailBudget(limit)
         \/ CancelRun
  <1>0. CallsTypeOK
    BY TypeParts DEF OwnInv
  <1>1. ASSUME NEW p \in Procs, Claim(p) \/ SettleLost(p) \/ SettleCall(p) \/ FailureEnds(p) \/ CheckBudget(p) \/ OverBudget(p) \/ Cancel(p)
        PROVE  \/ UNCHANGED <<tasks, atts>>
               \/ \E b \in Attempts : ClaimTask(task, b, FALSE) \/ (Ends(b) /\ FinishTask(task, b, FALSE))
               \/ \E limit \in {"max_attempts", "max_runtime_seconds"} : FailBudget(limit)
               \/ CancelRun
    <2>1. \A b \in Attempts : bound[b] = "lost" => Ends(b)
      BY DEF OwnInv, UnusedIsBlank, Ends
    <2> QED
      BY <1>1, <2>1 DEF Claim, SettleLost, SettleCall, FailureEnds, CheckBudget, OverBudget, Cancel, SettleRun, First, ledger
  <1>2. ASSUME NEW p \in Procs, Finish(p)
        PROVE  UNCHANGED <<tasks, atts>> \/ \E b \in Attempts : Ends(b) /\ FinishTask(task, b, FALSE)
    <2>1. proc[p].att \in Attempts /\ Ends(proc[p].att)
      BY <1>2, ActsForUsed DEF OwnInv, Finish, At, Between, NoAttYet, Ends
    <2> QED
      BY <1>2, <2>1 DEF Finish, ledger
  <1>3. ASSUME NEW p \in Procs, Complete(p)
        PROVE  UNCHANGED <<tasks, atts>> \/ \E b \in Attempts : Settled(p, b)
    <2>1. proc[p].att \in Attempts
      BY <1>3, ActsForUsed DEF OwnInv, Complete, At, Between, NoAttYet
    <2>2. CASE ~ Deliverable(proc[p].att)
      BY <1>3, <2>2 DEF Complete, ledger
    <2>3. CASE Deliverable(proc[p].att)
      <3>1. CompleteWorkerBinding(proc[p].att, proc[p].then) /\ Release(p) /\ Return(p)
        BY <1>3, <2>3 DEF Complete
      <3>2. bound'[proc[p].att] = "settled"
        BY <2>1, <3>1, TypeParts DEF CompleteWorkerBinding, OwnInv, DeliveryTypeOK
      <3> QED
        BY <1>0, <1>3, <2>1, <2>3, <3>1, <3>2, ReturnMoves DEF Settled
    <2> QED
      BY <2>2, <2>3
  <1>4. ASSUME NEW p \in Procs,
               \/ Reconcile(p) \/ Attach(p) \/ Select(p) \/ Dispatch(p) \/ Bind(p) \/ Submit(p) \/ StartFails(p) \/ Wait(p)
               \/ Look(p) \/ Sleep(p) \/ Locked(p) \/ Reserve(p)
        PROVE  UNCHANGED <<tasks, atts>>
    BY <1>4 DEF Reconcile, Attach, Select, Dispatch, Bind, Submit, StartFails, Wait, Look, Sleep, Locked, Reserve, store, ledger
  <1>5. ASSUME NEW p \in Procs,
               \/ DiscardRows(p) \/ DiscardFiles(p) \/ Stage(p) \/ Evaluate(p) \/ PrepareOutput(p) \/ CopyOutput(p)
               \/ RecordOutput(p) \/ PromoteOutput(p) \/ Failing(p) \/ Stop(p) \/ SettleDiscarded(p) \/ CancelList(p) \/ DropNext(p)
        PROVE  UNCHANGED <<tasks, atts>>
    BY <1>5 DEF DiscardRows, DiscardFiles, Stage, Evaluate, PrepareOutput, CopyOutput, RecordOutput, PromoteOutput,
       Failing, Stop, SettleDiscarded, CancelList, DropNext, store, ledger
  <1>6. ASSUME NEW p \in Procs, Call(p) \/ ObservationTimeout(p) \/ DispatcherRaises(p) \/ DeliveryRaises(p) \/ Crash(p)
        PROVE  UNCHANGED <<tasks, atts>>
    BY <1>6 DEF Call, ObservationTimeout, DispatcherRaises, DeliveryRaises, Crash, store, ledger
  <1>7. ASSUME NEW b \in Attempts, Execution(b) \/ LeaseExpires(b) PROVE UNCHANGED <<tasks, atts>>
    BY <1>7 DEF Execution, LeaseExpires, AdapterReturns, ExecutionStops, PersistResult, SettleWorker, store, ledger
  <1> QED
    BY <1>1, <1>2, <1>3, <1>4, <1>5, <1>6, <1>7 DEF Next, Step

\* The same, seen from one attempt and from the task.
LEMMA AttemptChanges ==
  ASSUME OwnInv, Next, NEW a \in Attempts, atts'[a] # atts[a]
  PROVE  \/ ~ Used(a) /\ tasks[task].state \in {"pending", "ready", "uncertain"} /\ tasks'[task].state = "running"
            /\ atts'[a].status = "running"
         \/ Used(a) /\ tasks[task].state = "running" /\ tasks'[task].state = "failed" /\ atts'[a].status = "failed"
         \/ \E p \in Procs : Settled(p, a)
         \/ atts[a].status = "running" /\ atts'[a].status \in {"failed", "cancelled"}
  <1>0. LedgerTypeOK /\ task \in Tasks
    BY TypeParts, Names DEF OwnInv
  <1>1. ASSUME NEW b \in Attempts, ClaimTask(task, b, FALSE)
        PROVE  /\ ~ Used(a) /\ tasks[task].state \in {"pending", "ready", "uncertain"} /\ tasks'[task].state = "running"
               /\ atts'[a].status = "running"
    BY <1>0, <1>1 DEF ClaimTask, Used, LedgerTypeOK, TaskRow
  <1>2. ASSUME NEW b \in Attempts, Ends(b), FinishTask(task, b, FALSE)
        PROVE  Used(a) /\ tasks[task].state = "running" /\ tasks'[task].state = "failed" /\ atts'[a].status = "failed"
    BY <1>0, <1>2 DEF FinishTask, Running, LedgerTypeOK, TaskRow, AttemptRow, Ends
  <1>3. ASSUME NEW p \in Procs, NEW b \in Attempts, Settled(p, b) PROVE a = b
    BY <1>0, <1>3 DEF Settled, CompleteWorkerBinding, LedgerTypeOK
  <1>4. ASSUME NEW limit, FailBudget(limit) PROVE atts[a].status = "running" /\ atts'[a].status = "failed"
    BY <1>0, <1>4 DEF FailBudget, EndRunningAttempts, ledger, LedgerTypeOK, AttemptRow
  <1>5. CancelRun => atts[a].status = "running" /\ atts'[a].status = "cancelled"
    BY <1>0 DEF CancelRun, EndRunningAttempts, LedgerTypeOK, AttemptRow
  <1> QED
    BY <1>1, <1>2, <1>3, <1>4, <1>5, LedgerChanges

LEMMA TaskChanges ==
  ASSUME OwnInv, Next, tasks'[task].state # tasks[task].state
  PROVE  \/ tasks[task].state \in {"pending", "ready", "uncertain"} /\ tasks'[task].state = "running"
         \/ tasks[task].state # "succeeded" /\ tasks'[task].state \in {"failed", "blocked", "cancelled"}
         \/ /\ tasks[task].state = "running"
            /\ \E p \in Procs, b \in Attempts :
                 /\ Settled(p, b) /\ atts[b].status = "running"
                 /\ \/ proc[p].then = "retry" /\ tasks'[task].state = "ready"
                    \/ proc[p].then = "succeeded" /\ tasks'[task].state = "succeeded"
                    \/ proc[p].then = "failed" /\ tasks'[task].state = "failed"
  <1>0. LedgerTypeOK /\ task \in Tasks
    BY TypeParts, Names DEF OwnInv
  <1>1. ASSUME NEW b \in Attempts, ClaimTask(task, b, FALSE)
        PROVE  tasks[task].state \in {"pending", "ready", "uncertain"} /\ tasks'[task].state = "running"
    BY <1>0, <1>1 DEF ClaimTask, LedgerTypeOK, TaskRow
  <1>2. ASSUME NEW b \in Attempts, FinishTask(task, b, FALSE)
        PROVE  tasks[task].state # "succeeded" /\ tasks'[task].state = "failed"
    BY <1>0, <1>2 DEF FinishTask, Running, LedgerTypeOK, TaskRow
  <1>3. ASSUME NEW p \in Procs, NEW b \in Attempts, Settled(p, b)
        PROVE  /\ tasks[task].state = "running" /\ atts[b].status = "running"
               /\ \/ proc[p].then = "retry" /\ tasks'[task].state = "ready"
                  \/ proc[p].then = "succeeded" /\ tasks'[task].state = "succeeded"
                  \/ proc[p].then = "failed" /\ tasks'[task].state = "failed"
    <2>1. proc[p].then \in {"succeeded", "failed", "retry"}
      BY <1>3 DEF Settled, Complete, At, OwnInv, OutcomesDecided, OutcomeDecided
    <2>2. tasks' = [tasks EXCEPT ![task].state = IF proc[p].then = "retry" THEN "ready" ELSE proc[p].then]
      BY <1>3 DEF Settled, CompleteWorkerBinding
    <2>3. tasks'[task].state = IF proc[p].then = "retry" THEN "ready" ELSE proc[p].then
      BY <1>0, <2>2 DEF LedgerTypeOK, TaskRow
    <2> QED
      BY <1>3, <2>1, <2>3 DEF Settled, Deliverable, Running
  <1>4. ASSUME NEW limit \in {"max_attempts", "max_runtime_seconds"}, FailBudget(limit)
        PROVE  tasks[task].state # "succeeded" /\ tasks'[task].state = "blocked"
    <2>1. tasks'[task].state = BudgetFailed(task, limit)
      BY <1>0, <1>4 DEF FailBudget, ledger, LedgerTypeOK, TaskRow
    <2> QED
      BY <2>1, DelegateAssumption DEF BudgetFailed
  <1>5. CancelRun => tasks[task].state # "succeeded" /\ tasks'[task].state = "cancelled"
    BY <1>0 DEF CancelRun, LedgerTypeOK, TaskRow
  <1> QED
    BY <1>1, <1>2, <1>3, <1>4, <1>5, LedgerChanges

\* An attempt is new because its task was claimed.
LEMMA NewIsClaimed ==
  ASSUME OwnInv, Next, NEW a \in Attempts, Used(a)', ~ Used(a)
  PROVE  ClaimTask(task, a, FALSE)
  <1>0. LedgerTypeOK /\ task \in Tasks
    BY TypeParts, Names DEF OwnInv
  <1>1. ~ \E p \in Procs, b \in Attempts : Settled(p, b)
    BY <1>0 DEF Used, Settled, Deliverable, CompleteWorkerBinding, LedgerTypeOK
  <1>2. \A b \in Attempts : ~ (Ends(b) /\ FinishTask(task, b, FALSE))
    BY <1>0 DEF Ends, Used, FinishTask, LedgerTypeOK
  <1>3. \A limit : ~ FailBudget(limit)
    BY <1>0 DEF Used, FailBudget, EndRunningAttempts, ledger, LedgerTypeOK
  <1>4. ~ CancelRun
    BY <1>0 DEF Used, CancelRun, EndRunningAttempts, LedgerTypeOK
  <1>5. \A b \in Attempts : ClaimTask(task, b, FALSE) => b = a
    BY <1>0 DEF Used, ClaimTask, LedgerTypeOK
  <1> QED
    BY <1>1, <1>2, <1>3, <1>4, <1>5, LedgerChanges DEF Used

LEMMA OneUndecidedStep ==
  ASSUME OwnInv, OneUndecided, Next
  PROVE  OneUndecided'
  <1>0. TypeOK /\ OutcomesDecided
    BY DEF OwnInv
  <1>1. \A a \in Attempts : bound[a] = "settled" => bound'[a] = "settled"
    BY <1>0, OutcomeStays
  <1>t. LedgerTypeOK /\ DeliveryTypeOK /\ task \in Tasks
    BY <1>0, TypeParts, Names
  <1>3. ASSUME NEW a \in Attempts, Used(a)', ~ Used(a)
        PROVE  /\ \A b \in Attempts : Used(b) => bound'[b] = "settled"
               /\ \A b \in Attempts : Used(b)' /\ ~ Used(b) => b = a
               /\ tasks'[task].state = "running" /\ tasks[task].state # "succeeded"
               /\ \A b \in Attempts : atts'[b].status = "succeeded" => atts[b].status = "succeeded"
    <2>1. ClaimTask(task, a, FALSE)
      BY <1>3, NewIsClaimed
    <2> QED
      BY <1>1, <1>t, <2>1 DEF ClaimTask, OneUndecided, Used, LedgerTypeOK, TaskRow
  <1>4. ASSUME NEW a \in Attempts, NEW b \in Attempts, Used(a)', Used(b)', a # b
        PROVE  bound'[a] = "settled" \/ bound'[b] = "settled"
    BY <1>1, <1>3, <1>4 DEF OneUndecided
  \* When an outcome is committed there is none left to commit.
  <1>5. ASSUME NEW p \in Procs, NEW a \in Attempts, Settled(p, a)
        PROVE  \A b \in Attempts : Used(b)' => bound'[b] = "settled"
    <2>1. Used(a) /\ bound[a] # "settled" /\ bound'[a] = "settled"
      BY <1>5 DEF Settled, Deliverable, Used, Open
    <2>2. ASSUME NEW b \in Attempts, Used(b)' PROVE Used(b)
      BY <1>5, <1>t, <2>2 DEF Settled, CompleteWorkerBinding, Deliverable, Used, LedgerTypeOK
    <2> QED
      BY <1>1, <2>1, <2>2 DEF OneUndecided
  <1>6. ASSUME tasks'[task].state \in {"pending", "ready", "uncertain"}, NEW a \in Attempts, Used(a)'
        PROVE  bound'[a] = "settled"
    <2>1. CASE tasks'[task].state = tasks[task].state
      BY <1>1, <1>3, <1>6, <2>1 DEF OneUndecided
    <2>2. CASE tasks'[task].state # tasks[task].state
      BY <1>5, <1>6, <2>2, TaskChanges
    <2> QED
      BY <2>1, <2>2
  <1>7. ASSUME NEW a \in Attempts, atts'[a].status = "succeeded"
        PROVE  /\ tasks'[task].state = "succeeded"
               /\ \A b \in Attempts : Used(b)' => bound'[b] = "settled"
    <2>1. CASE atts[a].status = "succeeded"
      <3>1. tasks[task].state = "succeeded" /\ \A b \in Attempts : Used(b) => bound[b] = "settled"
        BY <2>1 DEF OneUndecided
      <3>2. tasks'[task].state = "succeeded"
        BY <3>1, TaskChanges
      <3>3. \A b \in Attempts : Used(b)' => Used(b)
        BY <1>3, <3>1
      <3> QED
        BY <1>1, <3>1, <3>2, <3>3
    <2>2. CASE atts[a].status # "succeeded"
      <3>1. PICK p \in Procs : Settled(p, a)
        BY <1>7, <2>2, AttemptChanges
      <3>2. proc[p].then \in {"succeeded", "failed", "retry"} /\ proc[p].att = a
        BY <3>1 DEF Settled, Complete, At, OutcomesDecided, OutcomeDecided, OwnInv
      <3>3. atts' = [atts EXCEPT ![a].status = IF proc[p].then = "retry" THEN "failed" ELSE proc[p].then]
        BY <3>1, <3>2 DEF Settled, CompleteWorkerBinding
      <3>4. proc[p].then = "succeeded"
        BY <1>7, <1>t, <3>2, <3>3 DEF LedgerTypeOK, AttemptRow
      <3>5. tasks'[task].state = "succeeded"
        BY <1>t, <3>1, <3>2, <3>4 DEF Settled, CompleteWorkerBinding, LedgerTypeOK, TaskRow
      <3> QED
        BY <1>5, <3>1, <3>5
    <2> QED
      BY <2>1, <2>2
  <1> QED
    BY <1>4, <1>6, <1>7 DEF OneUndecided

LEMMA NoRejectNoRetryStep ==
  ASSUME OwnInv, OneUndecided, NoRejectNoRetry, Next
  PROVE  NoRejectNoRetry'
  <1> SUFFICES ASSUME "reject" \notin Environment
               PROVE  /\ \A p \in Procs : proc'[p].pc = "complete" => proc'[p].then # "retry"
                      /\ tasks'[task].state \in {"pending", "ready", "uncertain"} => \A a \in Attempts : ~ Used(a)'
                      /\ \A a, b \in Attempts : Used(a)' /\ Used(b)' => a = b
    BY DEF NoRejectNoRetry
  <1>0. TypeOK /\ OutcomesDecided /\ LedgerTypeOK /\ CallsTypeOK /\ task \in Tasks
    BY TypeParts, Names DEF OwnInv
  <1>1. ASSUME NEW p \in Procs, proc'[p].pc = "complete" PROVE proc'[p].then # "retry"
    <2>1. CASE proc'[p] = proc[p]
      BY <1>1, <2>1 DEF NoRejectNoRetry
    <2>2. CASE proc'[p] # proc[p]
      <3>1. PromoteOutput(p) \/ Evaluate(p)
        BY <1>0, <1>1, <2>2, Arrivals DEF Arrives, Returned, Idle
      <3>2. PromoteOutput(p) => proc'[p].then = "succeeded"
        BY <1>0, Moves DEF OutcomesDecided, OutcomeDecided, At, Moved
      <3> QED
        BY <1>0, <3>1, <3>2, EvaluateMoves
    <2> QED
      BY <2>1, <2>2
  <1>2. ASSUME NEW a \in Attempts, Used(a)', ~ Used(a)
        PROVE  /\ tasks[task].state \in {"pending", "ready", "uncertain"} /\ tasks'[task].state = "running"
               /\ \A b \in Attempts : Used(b)' /\ ~ Used(b) => b = a
    <2>1. ClaimTask(task, a, FALSE)
      BY <1>2, NewIsClaimed
    <2> QED
      BY <1>0, <2>1 DEF ClaimTask, Used, LedgerTypeOK, TaskRow
  <1>3. ASSUME tasks'[task].state \in {"pending", "ready", "uncertain"}, NEW a \in Attempts PROVE ~ Used(a)'
    <2>1. CASE tasks'[task].state = tasks[task].state
      BY <1>2, <1>3, <2>1 DEF NoRejectNoRetry
    <2>2. CASE tasks'[task].state # tasks[task].state
      BY <1>3, <2>2, TaskChanges DEF NoRejectNoRetry, Settled, Complete, At
    <2> QED
      BY <2>1, <2>2
  <1>4. ASSUME NEW a \in Attempts, NEW b \in Attempts, Used(a)', Used(b)' PROVE a = b
    BY <1>2, <1>4 DEF NoRejectNoRetry
  <1> QED
    BY <1>1, <1>3, <1>4

-----------------------------------------------------------------------------
(* What happens to the evidence.                                               *)

\* A handler at the end that works for a delivered or reserved worker is the dispatcher's, which
\* failed while it waited.
LEMMA LateHandler ==
  ASSUME OwnInv, HandlersWithoutLock, NEW q \in Procs, proc[q].pc \in {"finish", "late", "late_file"},
         bound[proc[q].att] \in {"delivering", "settled"}, env[proc[q].att] # "none"
  PROVE  /\ bound[proc[q].att] = "settled" /\ ~ proc[q].attached /\ dlock[proc[q].att] # q
         /\ "race" \in Environment
  <1> DEFINE b == proc[q].att
  <1>1. b \in Attempts /\ Refers(q, b) /\ proc[q].pc \notin Canceling
    BY ActsForUsed DEF OwnInv, Refers, Between, NoAttYet, Canceling, Dropping
  <1>2. proc[q].known
    <2>1. CASE proc[q].attached
      BY <2>1 DEF OwnInv, CallsHaveAttempts, CallHasAttempt
    <2>2. CASE ~ proc[q].attached
      BY <1>1, <2>2 DEF OwnInv, OneDispatcher, Dispatches
    <2> QED
      BY <2>1, <2>2
  <1>3. b # 0 /\ bound[b] = "settled"
    BY <1>1, <1>2, Names DEF HandlersWithoutLock, Open
  <1>4. q # Nobody
    BY Names
  <1>5. dlock[b] # q
    BY <1>1, <1>3, <1>4 DEF OwnInv, LocksAreHeld, Open
  <1>6. ~ proc[q].attached
    BY <1>5 DEF OwnInv, LocksAreHeld, Leaving
  <1> QED
    BY <1>2, <1>3, <1>5, <1>6 DEF HandlersWithoutLock, Handling, Leaving

\* A call that knows its worker has had a binding all along.
LEMMA BindingWasThere ==
  ASSUME OwnInv, Next, NEW p \in Procs, NEW a \in Attempts, Refers(p, a), proc[p].known, bound'[a] \in Open \cup {"settled"}
  PROVE  bound[a] \in Open \cup {"settled"} /\ (bound'[a] \in Open => bound[a] \in Open)
  <1>1. bound[a] # "none" /\ TypeOK
    BY DEF OwnInv, OneDispatcher
  <1>2. CASE bound'[a] = bound[a]
    BY <1>2
  <1>3. CASE bound'[a] # bound[a]
    BY <1>1, <1>3, BoundChanges DEF Lost, Bound, Reopened, Reserved, Settled, Deliverable, Discarded, Open
  <1>4. bound[a] = "settled" => bound'[a] = "settled"
    BY <1>1, OutcomeStays
  <1> QED
    BY <1>1, <1>2, <1>3, <1>4 DEF Open

\* Nobody takes the lock from a call that goes on with its handler.
LEMMA HandlerKeepsLock ==
  ASSUME OwnInv, Next, NEW p \in Procs, NEW a \in Attempts, dlock[a] = p, proc'[p].pc \in Handling
  PROVE  dlock'[a] = p
  <1>1. TypeOK /\ p # Nobody
    BY Names DEF OwnInv
  <1>2. \A q \in Procs : ~ Taken(q, a)
    BY <1>1 DEF Taken
  <1>3. \A q \in Procs : Freed(q, a) => q = p
    BY DEF Freed
  <1>4. ~ Freed(p, a)
    BY <1>1, FreedLeaves DEF Handling, Leaving
  <1> QED
    BY <1>1, <1>2, <1>3, <1>4, LockChanges

LEMMA HandlersWithoutLockStep ==
  ASSUME OwnInv, HandlersWithoutLock, Next
  PROVE  HandlersWithoutLock'
  <1>0. TypeOK /\ OutcomesDecided /\ CallsHaveAttempts /\ CallsTypeOK /\ DeliveryTypeOK
    BY TypeParts DEF OwnInv
  <1> SUFFICES ASSUME NEW p \in Procs, proc'[p].pc \in Handling, proc'[p].known
               PROVE  /\ proc'[p].pc \in {"finish", "late", "late_file"} => bound'[proc'[p].att] \notin Open
                      /\ dlock'[proc'[p].att] # p /\ bound'[proc'[p].att] \in Open \cup {"settled"} => "race" \in Environment
    BY DEF HandlersWithoutLock, Handling, Leaving
  <1> DEFINE a == proc[p].att
  <1>p. ~ Returned(p)
    BY DEF Returned, Idle, Handling, Leaving
  <1>1. /\ proc'[p].att = a /\ proc[p].known /\ proc[p].pc \notin Between
    <2>1. CASE proc'[p] = proc[p]
      BY <2>1 DEF Handling, Leaving, Between, NoAttYet
    <2>2. CASE proc'[p] # proc[p]
      <3>1. Arrives(p)
        BY <1>0, <1>p, <2>2, Arrivals
      <3>2. ~ (Attach(p) \/ Claim(p) \/ Submit(p) \/ CancelList(p) \/ DropNext(p))
        BY <1>0, <1>p, AttachMoves, ClaimMoves, SubmitMoves, CancelListMoves, DropNextMoves DEF Handling, Leaving
      <3>3. Keeps(p)
        BY <3>1, <3>2 DEF Arrives
      <3>4. \/ proc[p].pc \in Handling \/ proc[p].pc \in Locking
            \/ proc[p].pc \in {"look", "wait", "bind", "inputs"}
        BY <1>0, <3>1, Moves, FailingMoves, OverBudgetMoves DEF Arrives, Handling, Leaving, Locking, Taking, Reserving, Cleaning,
           Staging, Undoing, Dropping, At, Look, Failing, Finish, OverBudget, Stage
      <3>5. proc[p].pc \notin Between
        BY <3>4 DEF Between, NoAttYet, Handling, Leaving, Locking, Taking, Reserving, Cleaning, Staging, Undoing, Dropping
      <3> QED
        BY <3>3, <3>5 DEF Keeps
    <2> QED
      BY <2>1, <2>2
  <1>2. a \in Attempts /\ Refers(p, a)
    BY <1>0, <1>1, ActsForUsed DEF Refers
  <1>3. bound'[a] \in Open \cup {"settled"} => bound[a] \in Open \cup {"settled"} /\ (bound'[a] \in Open => bound[a] \in Open)
    BY <1>1, <1>2, BindingWasThere
  <1>4. dlock'[a] # p => dlock[a] # p
    BY <1>2, HandlerKeepsLock
  <1>5. CASE proc'[p] = proc[p]
    BY <1>1, <1>2, <1>3, <1>4, <1>5 DEF HandlersWithoutLock
  <1>6. CASE proc'[p] # proc[p]
    <2>1. Arrives(p)
      BY <1>0, <1>p, <1>6, Arrivals
    <2>2. proc[p].pc \in Locking => dlock[a] = p
      BY DEF OwnInv, LocksAreHeld
    <2>3. ASSUME SettleDiscarded(p) PROVE bound'[a] \notin Open
      BY <1>0, <1>2, <2>3 DEF SettleDiscarded, SettleWorkerBinding, DeliveryTypeOK, Open
    <2>4. \/ proc[p].pc \in Handling \/ proc[p].pc \in Locking \/ Look(p) \/ DispatcherRaises(p)
      <3>1. ~ StartFails(p)
        BY <1>1, <1>0, Moves DEF CallsHaveAttempts, CallHasAttempt, Starting
      <3> QED
        BY <1>0, <2>1, <3>1, Moves, FailingMoves, OverBudgetMoves DEF Arrives, Handling, Leaving, Locking, Taking, Reserving, Cleaning,
           Staging, Undoing, Dropping, At, Failing, Finish, OverBudget, Stage
    <2>5. ASSUME Look(p) PROVE bound'[a] \notin Open \cup {"settled"}
      <3>1. proc'[p].pc = "failing"
        BY <1>0, <2>5, Moves DEF Moved, Returned, Idle, Handling, Leaving
      <3> QED
        BY <1>0, <2>5, <3>1 DEF Look, Go, Return, Idle, CallsTypeOK, CallRow
    <2>6. DispatcherRaises(p) => "race" \in Environment /\ proc'[p].pc = "failing"
      BY <1>0, Moves DEF DispatcherRaises, Moved
    <2>7. dlock'[a] # p /\ bound'[a] \in Open \cup {"settled"} => "race" \in Environment
      BY <1>1, <1>3, <1>4, <2>2, <2>4, <2>5, <2>6 DEF HandlersWithoutLock
    <2>8. ASSUME proc'[p].pc \in {"finish", "late", "late_file"} PROVE bound'[a] \notin Open
      <3>1. ~ (Failing(p) /\ proc'[p].pc = "finish")
        BY <1>0, <1>1, <1>p, FailingMoves
      <3>2. CASE SettleDiscarded(p)
        BY <2>3, <3>2
      <3>3. CASE Finish(p) \/ (At(p, "late") /\ DiscardRows(p))
        BY <1>1, <1>3, <3>3 DEF Finish, At, HandlersWithoutLock
      <3> QED
        BY <2>1, <2>8, <3>1, <3>2, <3>3 DEF Arrives
    <2> QED
      BY <1>1, <2>7, <2>8
  <1> QED
    BY <1>5, <1>6

\* Evidence is removed by whoever discards it, and a file also by the one who writes the next.
LEMMA EvidenceGoes ==
  ASSUME TypeOK, Next, NEW a \in Attempts
  PROVE  /\ a \in results /\ a \notin results' => \E q \in Procs : DiscardRows(q) /\ proc[q].att = a
         /\ a \in outputs /\ a \notin outputs' => \E q \in Procs : DiscardRows(q) /\ proc[q].att = a
         /\ file'[task] # file[task] => \E q \in Procs : DiscardFiles(q) \/ CopyOutput(q)
  <1>1. ASSUME NEW p \in Procs,
               \/ Reconcile(p) \/ Dispatch(p) \/ Bind(p) \/ Submit(p) \/ StartFails(p) \/ Look(p) \/ Locked(p)
               \/ Reserve(p) \/ PromoteOutput(p) \/ Complete(p) \/ Failing(p) \/ Stop(p) \/ SettleDiscarded(p)
               \/ FailureEnds(p) \/ DropNext(p) \/ Crash(p) \/ PrepareOutput(p)
        PROVE  UNCHANGED <<results, outputs, file>>
    BY <1>1 DEF Reconcile, Dispatch, Bind, Submit, StartFails, Look, Locked, Reserve, PromoteOutput, Complete, Failing, Stop,
       SettleDiscarded, FailureEnds, DropNext, Crash, PrepareOutput, store, artifacts
  <1>2. ASSUME NEW p \in Procs, DiscardRows(p)
        PROVE  /\ a \in results /\ a \notin results' => proc[p].att = a
               /\ a \in outputs /\ a \notin outputs' => proc[p].att = a
               /\ UNCHANGED file
    BY <1>2 DEF DiscardRows
  <1>3. ASSUME NEW p \in Procs, Stage(p) \/ RecordOutput(p)
        PROVE  results \subseteq results' /\ outputs \subseteq outputs' /\ UNCHANGED file
    BY <1>3 DEF Stage, RecordOutput
  <1>4. ASSUME NEW p \in Procs, CopyOutput(p) \/ DiscardFiles(p) PROVE UNCHANGED <<results, outputs>>
    BY <1>4 DEF CopyOutput, DiscardFiles
  <1>5. ASSUME NEW b \in Attempts, Execution(b) PROVE UNCHANGED <<results, outputs, file>>
    BY <1>5 DEF Execution, AdapterReturns, ExecutionStops, PersistResult, SettleWorker, store, artifacts
  <1>6. Delivery' = Delivery => UNCHANGED <<results, outputs, file>>
    BY DEF Delivery
  <1> QED
    BY <1>1, <1>2, <1>3, <1>4, <1>5, <1>6, OtherSteps

\* The handler of a dispatcher that failed while it waited may meet the delivery of a later attempt
\* only where a result can be rejected and the attempt repeated.
FailuresStayApart == NumAttempts = 1 \/ "race" \notin Environment \/ "reject" \notin Environment

LEMMA DiscardsOwn ==
  ASSUME OwnInv, KeptInv, FailuresStayApart, NEW q \in Procs, NEW a \in Attempts, Used(a),
         proc[q].pc \in {"finish", "late_file"}, bound[proc[q].att] = "settled"
  PROVE  proc[q].att = a
  <1>1. proc[q].att \in Attempts /\ Used(proc[q].att)
    BY ActsForUsed DEF OwnInv, Between, NoAttYet
  <1>2. env[proc[q].att] # "none"
    BY <1>1 DEF OwnInv, EnvelopesRead
  <1>3. "race" \in Environment
    BY <1>2, LateHandler DEF KeptInv
  <1>4. CASE NumAttempts = 1
    BY <1>1, <1>4 DEF Attempts
  <1>5. CASE "reject" \notin Environment
    BY <1>1, <1>5 DEF KeptInv, NoRejectNoRetry
  <1> QED
    BY <1>3, <1>4, <1>5 DEF FailuresStayApart

\* What was staged stays until the deliverer removes it.
LEMMA StagedStays ==
  ASSUME OwnInv, KeptInv, FailuresStayApart, Next, NEW p \in Procs, proc[p].pc \in Staging \ {"stage"},
         bound[proc[p].att] = "delivering"
  PROVE  /\ proc[p].att \in results => proc[p].att \in results'
         /\ proc[p].att \in outputs => proc[p].att \in outputs'
         /\ file[task] = proc[p].att => file'[task] = proc[p].att
  <1> DEFINE a == proc[p].att
  <1>0. TypeOK /\ ArtifactsTypeOK /\ task \in Tasks
    BY TypeParts, Names DEF OwnInv
  <1>1. /\ a \in Attempts /\ Used(a) /\ env[a] # "none" /\ proc[p].pc \in Locking
        /\ proc[p].pc \notin Cleaning \cup Undoing \cup Dropping
    <2>1. proc[p].pc \in Locking /\ proc[p].pc \notin Between \cup Cleaning \cup Undoing \cup Dropping
      BY DEF Staging, Locking, Reserving, Between, NoAttYet, Cleaning, Undoing, Dropping
    <2> QED
      BY <2>1, ActsForUsed DEF OwnInv, EnvelopesRead
  <1>2. ASSUME NEW q \in Procs, proc[q].att = a PROVE proc[q].pc \notin Cleaning \cup Undoing \cup Dropping
    <2>1. proc[q].pc \in Cleaning \cup Undoing \cup Dropping => proc[q].pc \in Locking
      BY DEF Locking, Reserving
    <2> QED
      BY <1>1, <1>2, <2>1, OneUnderLock DEF OwnInv
  <1>3. ASSUME NEW q \in Procs, proc[q].att = a PROVE proc[q].pc \notin {"late", "late_file"}
    BY <1>1, <1>3, LateHandler DEF KeptInv
  <1>4. ASSUME NEW q \in Procs, DiscardRows(q) PROVE proc[q].att # a
    BY <1>2, <1>3, <1>4 DEF DiscardRows, Cleaning, Undoing, Dropping
  <1>5. ASSUME NEW q \in Procs, proc[q].pc \notin Between, proc[q].att # a PROVE bound[proc[q].att] = "settled"
    BY <1>1, <1>5, ActsForUsed DEF OwnInv, KeptInv, OneUndecided
  <1>6. ASSUME NEW q \in Procs, DiscardFiles(q) PROVE FALSE
    <2>1. proc[q].pc \in {"clean_file", "undo_file", "late_file", "drop_file"} /\ proc[q].pc \notin Between
      BY <1>6 DEF DiscardFiles, Between, NoAttYet
    <2>2. proc[q].att # a
      BY <1>2, <1>3, <2>1 DEF Cleaning, Undoing, Dropping
    <2>3. bound[proc[q].att] = "settled"
      BY <1>5, <2>1, <2>2
    <2>4. At(q, "late_file")
      BY <2>1, <2>3 DEF At, OwnInv, ReservationHolds, Reserving, Cleaning, Undoing, Dropping
    <2> QED
      BY <1>1, <2>2, <2>3, <2>4, DiscardsOwn DEF At
  <1>7. ASSUME NEW q \in Procs, CopyOutput(q) PROVE file'[task] = a
    <2>1. proc[q].pc \notin Between /\ proc[q].pc \in Reserving
      BY <1>7 DEF CopyOutput, At, Between, NoAttYet, Reserving, Staging
    <2>2. proc[q].att = a
      BY <1>5, <2>1 DEF OwnInv, ReservationHolds
    <2> QED
      BY <1>0, <1>7, <2>2 DEF CopyOutput, ArtifactsTypeOK
  <1> QED
    BY <1>0, <1>1, <1>4, <1>6, <1>7, EvidenceGoes

\* Nothing is shown for an attempt before its deliverer shows it.
LEMMA HiddenStays ==
  ASSUME OwnInv, Next, NEW p \in Procs, proc[p].pc \in Staging \ {"copy", "record"}
  PROVE  /\ proc[p].att \notin outputs => proc[p].att \notin outputs'
         /\ file[task] # proc[p].att => file'[task] # proc[p].att
  <1>1. proc[p].pc \in Locking /\ proc[p].att \in Attempts
    BY ActsForUsed DEF OwnInv, Staging, Locking, Reserving, Between, NoAttYet
  <1>2. ASSUME NEW q \in Procs, CopyOutput(q) \/ RecordOutput(q) PROVE proc[q].att # proc[p].att
    <2>1. proc[q].pc \in {"copy", "record"} /\ proc[q].pc \in Locking
      BY <1>2 DEF CopyOutput, RecordOutput, At, Locking, Reserving, Staging
    <2> QED
      BY <1>1, <2>1, OneUnderLock DEF OwnInv
  <1> QED
    BY <1>1, <1>2, EvidenceAppears DEF OwnInv

LEMMA StagedIsThereStep ==
  ASSUME OwnInv, KeptInv, FailuresStayApart, Next
  PROVE  StagedIsThere'
  <1>0. TypeOK /\ OutcomesDecided /\ CallsHaveAttempts /\ CallsTypeOK /\ ArtifactsTypeOK /\ task \in Tasks
    BY TypeParts, Names DEF OwnInv
  <1> SUFFICES ASSUME NEW p \in Procs, proc'[p].pc \in Staging
               PROVE  /\ bound'[proc'[p].att] = "delivering" =>
                           /\ proc'[p].pc \in Staging \ {"stage"} => proc'[p].att \in results'
                           /\ proc'[p].pc \in {"record", "promote"} \/ Succeeding(p)' => file'[task] = proc'[p].att
                           /\ proc'[p].pc = "promote" \/ Succeeding(p)' => proc'[p].att \in outputs'
                      /\ \/ proc'[p].pc \in {"stage", "evaluate", "prepare"}
                         \/ proc'[p].pc = "complete" /\ ~ Succeeding(p)'
                         => proc'[p].att \notin outputs' /\ file'[task] # proc'[p].att
    BY DEF StagedIsThere, Staging, Succeeding
  <1> DEFINE a == proc[p].att
  <1>p. ~ Returned(p)
    BY DEF Returned, Idle, Staging
  <1>1. \/ proc'[p] = proc[p]
        \/ At(p, "clean_file") /\ DiscardFiles(p) /\ proc'[p].pc = "stage" /\ Keeps(p)
        \/ Stage(p) /\ proc'[p].pc = "evaluate" /\ Keeps(p)
        \/ Evaluate(p) /\ Keeps(p) /\ (proc'[p].pc = "prepare" \/ (proc'[p].pc = "complete" /\ proc'[p].then # "succeeded"))
        \/ PrepareOutput(p) /\ proc'[p].pc = "copy" /\ Keeps(p)
        \/ CopyOutput(p) /\ proc'[p].pc = "record" /\ Keeps(p)
        \/ RecordOutput(p) /\ proc'[p].pc = "promote" /\ Keeps(p)
        \/ PromoteOutput(p) /\ proc'[p].pc = "complete" /\ proc'[p].then = "succeeded" /\ Keeps(p)
    <2>1. CASE proc'[p] # proc[p]
      <3>1. Arrives(p)
        BY <1>0, <1>p, <2>1, Arrivals
      <3>2. ~ (Attach(p) \/ Claim(p) \/ Submit(p) \/ CancelList(p) \/ DropNext(p))
        BY <1>0, <1>p, AttachMoves, ClaimMoves, SubmitMoves, CancelListMoves, DropNextMoves DEF Staging
      <3>3. Keeps(p)
        BY <3>1, <3>2 DEF Arrives
      <3>4. PromoteOutput(p) => proc'[p].pc = "complete" /\ proc'[p].then = "succeeded"
        BY <1>0, Moves DEF Moved, OutcomesDecided, OutcomeDecided, At
      <3>5. Evaluate(p) => proc'[p].pc = "prepare" \/ (proc'[p].pc = "complete" /\ proc'[p].then # "succeeded")
        BY <1>0, EvaluateMoves
      <3> QED
        BY <3>1, <3>3, <3>4, <3>5 DEF Arrives, Staging
    <2> QED
      BY <2>1
  <1>2. proc'[p].att = a /\ proc[p].pc \in Staging \cup {"clean_file"}
    BY <1>1 DEF Keeps, At, Stage, Evaluate, PrepareOutput, CopyOutput, RecordOutput, PromoteOutput, Staging
  <1>3. proc[p].pc \in Reserving /\ proc[p].pc \in Locking /\ proc[p].pc \notin Between
    BY <1>2 DEF Reserving, Locking, Cleaning, Staging, Between, NoAttYet
  <1>4. a \in Attempts /\ dlock[a] = p
    BY <1>3, HolderOf DEF OwnInv
  <1>5. bound'[a] = "delivering" => bound[a] = "delivering"
    BY <1>0, <1>3, <1>4, OutcomeStays DEF OwnInv, ReservationHolds
  <1>6. CASE proc'[p] = proc[p]
    <2>1. proc[p].pc \in Staging /\ (Succeeding(p)' <=> Succeeding(p))
      BY <1>6 DEF Succeeding
    <2>2. /\ bound[a] = "delivering" =>
               /\ proc[p].pc \in Staging \ {"stage"} => a \in results
               /\ proc[p].pc \in {"record", "promote"} \/ Succeeding(p) => file[task] = a
               /\ proc[p].pc = "promote" \/ Succeeding(p) => a \in outputs
          /\ proc[p].pc \in {"stage", "evaluate", "prepare"} \/ (proc[p].pc = "complete" /\ ~ Succeeding(p)) =>
               a \notin outputs /\ file[task] # a
      BY <2>1 DEF KeptInv, StagedIsThere
    <2>3. Succeeding(p) => proc[p].pc = "complete"
      BY DEF Succeeding
    <2> QED
      BY <1>2, <1>5, <1>6, <2>1, <2>2, <2>3, StagedStays, HiddenStays
  <1>7. CASE At(p, "clean_file") /\ DiscardFiles(p) /\ proc'[p].pc = "stage" /\ Keeps(p)
    <2>1. a \notin outputs /\ outputs' = outputs
      BY <1>4, <1>7 DEF At, OwnInv, EvidenceIsAnsweredFor, DiscardFiles
    <2>2. file'[task] # a
      BY <1>0, <1>4, <1>7, Names DEF OwnInv, OutputsPrepared, DiscardFiles, ArtifactsTypeOK
    <2> QED
      BY <1>2, <1>7, <2>1, <2>2 DEF Succeeding
  <1>8. CASE Stage(p) /\ proc'[p].pc = "evaluate" /\ Keeps(p)
    <2>1. a \in results'
      BY <1>0, <1>8 DEF Stage, Go, CallsTypeOK, CallRow
    <2>2. a \notin outputs' /\ file'[task] # a
      BY <1>8, HiddenStays DEF Stage, At, KeptInv, StagedIsThere, Staging
    <2> QED
      BY <1>2, <1>8, <2>1, <2>2 DEF Succeeding
  <1>9. CASE Evaluate(p) /\ Keeps(p) /\ (proc'[p].pc = "prepare" \/ (proc'[p].pc = "complete" /\ proc'[p].then # "succeeded"))
    <2>1. At(p, "evaluate") /\ ~ Succeeding(p)'
      BY <1>9 DEF Evaluate, Succeeding
    <2>2. a \notin outputs' /\ file'[task] # a
      BY <2>1, HiddenStays DEF At, KeptInv, StagedIsThere, Staging
    <2>3. bound[a] = "delivering" => a \in results'
      BY <2>1, StagedStays DEF At, KeptInv, StagedIsThere, Staging
    <2> QED
      BY <1>2, <1>5, <1>9, <2>1, <2>2, <2>3
  <1>10. CASE PrepareOutput(p) /\ proc'[p].pc = "copy" /\ Keeps(p)
    <2>1. At(p, "prepare") /\ ~ Succeeding(p)'
      BY <1>10 DEF PrepareOutput, Succeeding
    <2>2. bound[a] = "delivering" => a \in results'
      BY <2>1, StagedStays DEF At, KeptInv, StagedIsThere, Staging
    <2> QED
      BY <1>2, <1>5, <1>10, <2>1, <2>2
  <1>11. CASE CopyOutput(p) /\ proc'[p].pc = "record" /\ Keeps(p)
    <2>1. At(p, "copy") /\ ~ Succeeding(p)' /\ file'[task] = a
      BY <1>0, <1>11 DEF CopyOutput, Succeeding, ArtifactsTypeOK
    <2>2. bound[a] = "delivering" => a \in results'
      BY <2>1, StagedStays DEF At, KeptInv, StagedIsThere, Staging
    <2> QED
      BY <1>2, <1>5, <1>11, <2>1, <2>2
  <1>12. CASE RecordOutput(p) /\ proc'[p].pc = "promote" /\ Keeps(p)
    <2>1. At(p, "record") /\ ~ Succeeding(p)' /\ a \in outputs'
      BY <1>12 DEF RecordOutput, Succeeding
    <2>2. bound[a] = "delivering" => a \in results' /\ file'[task] = a
      BY <2>1, StagedStays DEF At, KeptInv, StagedIsThere, Staging
    <2> QED
      BY <1>2, <1>5, <1>12, <2>1, <2>2
  <1>13. CASE PromoteOutput(p) /\ proc'[p].pc = "complete" /\ proc'[p].then = "succeeded" /\ Keeps(p)
    <2>1. At(p, "promote") /\ Succeeding(p)'
      BY <1>13 DEF PromoteOutput, Succeeding
    <2>2. bound[a] = "delivering" => a \in results' /\ file'[task] = a /\ a \in outputs'
      BY <2>1, StagedStays DEF At, KeptInv, StagedIsThere, Staging
    <2> QED
      BY <1>2, <1>5, <1>13, <2>1, <2>2
  <1> QED
    BY <1>1, <1>6, <1>7, <1>8, <1>9, <1>10, <1>11, <1>12, <1>13

\* What the attempt's row says after its delivery.
LEMMA SettledAs ==
  ASSUME OwnInv, NEW p \in Procs, NEW a \in Attempts, Settled(p, a)
  PROVE  atts'[a].status = "succeeded" <=> Succeeding(p)
  <1>1. At(p, "complete") /\ proc[p].then \in {"succeeded", "failed", "retry"}
    BY DEF Settled, Complete, At, OwnInv, OutcomesDecided, OutcomeDecided
  <1>2. atts' = [atts EXCEPT ![a].status = IF proc[p].then = "retry" THEN "failed" ELSE proc[p].then]
    BY DEF Settled, CompleteWorkerBinding
  <1>3. atts'[a].status = IF proc[p].then = "retry" THEN "failed" ELSE proc[p].then
    BY <1>2, TypeParts DEF OwnInv, LedgerTypeOK, AttemptRow
  <1> QED
    BY <1>1, <1>3 DEF Succeeding, At

\* The row of an attempt that succeeded does not change, and it succeeds with its delivery.
LEMMA SuccessStays ==
  ASSUME OwnInv, OneUndecided, Next, NEW a \in Attempts
  PROVE  /\ atts[a].status = "succeeded" => atts'[a].status = "succeeded"
         /\ atts'[a].status = "succeeded" => atts[a].status = "succeeded" \/ \E p \in Procs : Settled(p, a)
  <1>1. ASSUME atts[a].status = "succeeded" PROVE atts'[a] = atts[a]
    <2>1. Used(a) /\ tasks[task].state = "succeeded" /\ bound[a] = "settled"
      BY <1>1 DEF Used, OneUndecided
    <2>2. \A p \in Procs : ~ Settled(p, a)
      BY <2>1 DEF Settled, Deliverable, Open
    <2> QED
      BY <1>1, <2>1, <2>2, AttemptChanges
  <1>2. ASSUME atts'[a].status = "succeeded", atts[a].status # "succeeded" PROVE \E p \in Procs : Settled(p, a)
    BY <1>2, AttemptChanges
  <1> QED
    BY <1>1, <1>2

\* Nobody shows anything for an attempt that has its outcome.
LEMMA SettledShowsNoMore ==
  ASSUME OwnInv, Next, NEW a \in Attempts, bound[a] = "settled"
  PROVE  /\ a \in results' => a \in results
         /\ a \in outputs' => a \in outputs
         /\ file'[task] = a => file[task] = a
  <1>1. ASSUME NEW q \in Procs, Stage(q) \/ RecordOutput(q) \/ CopyOutput(q) PROVE proc[q].att # a
    BY <1>1 DEF Stage, RecordOutput, CopyOutput, At, OwnInv, ReservationHolds, Reserving, Staging
  <1> QED
    BY <1>1, EvidenceAppears DEF OwnInv

LEMMA SettledWithoutOutputStep ==
  ASSUME OwnInv, KeptInv, Next
  PROVE  SettledWithoutOutput'
  <1> SUFFICES ASSUME NEW a \in Attempts
               PROVE  /\ atts'[a].status = "succeeded" => bound'[a] = "settled"
                      /\ bound'[a] = "settled" /\ atts'[a].status # "succeeded" => a \notin outputs' /\ file'[task] # a
    BY DEF SettledWithoutOutput
  <1>0. TypeOK
    BY DEF OwnInv
  <1>1. atts'[a].status = "succeeded" => bound'[a] = "settled"
    BY <1>0, SuccessStays, OutcomeStays DEF KeptInv, SettledWithoutOutput, Settled
  <1>2. CASE bound[a] = "settled"
    BY <1>1, <1>2, SuccessStays, SettledShowsNoMore DEF KeptInv, SettledWithoutOutput
  <1>3. ASSUME bound[a] # "settled", bound'[a] = "settled", atts'[a].status # "succeeded"
        PROVE  a \notin outputs' /\ file'[task] # a
    <2>1. PICK p \in Procs : Settled(p, a)
      BY <1>0, <1>3, BoundChanges DEF Lost, Bound, Reopened, Reserved, Discarded
    <2>2. proc[p].att = a /\ proc[p].pc = "complete" /\ ~ Succeeding(p)
      BY <1>3, <2>1, SettledAs DEF Settled, Complete, At
    <2>3. a \notin outputs /\ file[task] # a
      BY <2>2 DEF KeptInv, StagedIsThere
    <2>4. UNCHANGED <<outputs, file>>
      BY <2>1 DEF Settled, Complete
    <2> QED
      BY <2>3, <2>4
  <1> QED
    BY <1>1, <1>2, <1>3

LEMMA KeptInit ==
  ASSUME Init
  PROVE  KeptInv
  <1>1. /\ \A a \in Attempts : ~ Used(a) /\ atts[a].status = "none" /\ bound[a] = "none"
        /\ \A p \in Procs : proc[p] = Idle
    BY DEF Init, StoreInit, Used
  <1>2. OneUndecided /\ NoRejectNoRetry
    BY <1>1 DEF OneUndecided, NoRejectNoRetry, Idle
  <1>3. HandlersWithoutLock
    BY <1>1 DEF HandlersWithoutLock, Handling, Leaving, Idle
  <1>4. StagedIsThere
    BY <1>1 DEF StagedIsThere, Succeeding, Staging, Idle
  <1>5. SettledWithoutOutput
    BY <1>1 DEF SettledWithoutOutput
  <1> QED
    BY <1>2, <1>3, <1>4, <1>5 DEF KeptInv

LEMMA KeptStep ==
  ASSUME OwnInv, KeptInv, FailuresStayApart, Next
  PROVE  KeptInv'
  BY OneUndecidedStep, NoRejectNoRetryStep, HandlersWithoutLockStep, StagedIsThereStep, SettledWithoutOutputStep DEF KeptInv

LEMMA KeptStutters ==
  ASSUME KeptInv, UNCHANGED vars
  PROVE  KeptInv'
  BY DEF KeptInv, vars, store, ledger, artifacts, worker, OneUndecided, NoRejectNoRetry, HandlersWithoutLock, StagedIsThere,
     Succeeding, SettledWithoutOutput, Used

\* A delivery is complete when it is committed.
LEMMA SettlesWhole ==
  ASSUME OwnInv, KeptInv, Next, NEW a \in Attempts, bound[a] # "settled", bound'[a] = "settled"
  PROVE  a \in results /\ (atts'[a].status = "succeeded" => a \in outputs /\ file[task] = a)
  <1>1. PICK p \in Procs : Settled(p, a)
    BY BoundChanges DEF OwnInv, Lost, Bound, Reopened, Reserved, Discarded
  <1>2. proc[p].att = a /\ proc[p].pc = "complete" /\ bound[a] \in Open
    BY <1>1 DEF Settled, Complete, At, Deliverable
  <1>3. bound[a] = "delivering"
    BY <1>2 DEF OwnInv, ReservationHolds, Reserving, Staging, Open
  <1> QED
    BY <1>1, <1>2, <1>3, SettledAs DEF KeptInv, StagedIsThere, Staging

\* Committed evidence is removed by the handler of a dispatcher that failed without the lock only.
Intruder(a) == \E p \in Procs : /\ proc[p].att = a /\ proc[p].pc \in {"late", "late_file"}
                                /\ ~ proc[p].attached /\ dlock[a] # p

LEMMA SettledStays ==
  ASSUME OwnInv, KeptInv, FailuresStayApart, Next, NEW a \in Attempts, bound[a] = "settled", Evidence(a)' # Evidence(a)
  PROVE  Intruder(a)
  <1>0. env[a] # "none" /\ Used(a)
    BY DEF OwnInv, EnvelopesRead, UnusedIsBlank
  <1>1. ASSUME NEW q \in Procs, proc[q].att = a, DiscardRows(q) \/ DiscardFiles(q) PROVE Intruder(a)
    <2>1. proc[q].pc \notin Reserving \cup Dropping
      BY <1>1 DEF OwnInv, ReservationHolds
    <2>2. proc[q].pc \in {"late", "late_file"}
      BY <1>1, <2>1 DEF DiscardRows, DiscardFiles, Reserving, Cleaning, Undoing, Dropping
    <2> QED
      BY <1>0, <1>1, <2>2, LateHandler DEF KeptInv, Intruder
  <1>2. ASSUME a \in results, a \notin results' PROVE Intruder(a)
    BY <1>1, <1>2, EvidenceGoes DEF OwnInv
  <1>3. ASSUME a \in outputs, a \notin outputs' PROVE Intruder(a)
    BY <1>1, <1>3, EvidenceGoes DEF OwnInv
  <1>4. ASSUME file[task] = a, file'[task] # a PROVE Intruder(a)
    <2>1. PICK q \in Procs : DiscardFiles(q) \/ CopyOutput(q)
      BY <1>4, EvidenceGoes DEF OwnInv
    <2>2. \A b \in Attempts : Used(b) => bound[b] = "settled"
      BY <1>4 DEF KeptInv, SettledWithoutOutput, OneUndecided
    <2>3. proc[q].pc \in {"clean_file", "undo_file", "late_file", "drop_file", "copy"}
      BY <2>1 DEF DiscardFiles, CopyOutput, At
    <2>4. bound[proc[q].att] = "settled"
      BY <2>2, <2>3, ActsForUsed DEF OwnInv, Between, NoAttYet
    <2>5. At(q, "late_file")
      BY <2>3, <2>4 DEF At, OwnInv, ReservationHolds, Reserving, Cleaning, Undoing, Dropping, Staging
    <2>6. DiscardFiles(q)
      BY <2>1, <2>5 DEF CopyOutput, At
    <2> QED
      BY <1>0, <1>1, <2>4, <2>5, <2>6, DiscardsOwn DEF At
  <1> QED
    BY <1>2, <1>3, <1>4, SettledShowsNoMore DEF Evidence

\* A delivery is committed with its evidence complete and the evidence stays, whatever is cancelled,
\* times out, raises or is killed, but for the handler of the dispatching call itself when that call
\* failed without the lock.  Where such a failure can happen and rejected results are repeated, that
\* handler may meet the delivery of the next attempt: the claim is for the rest.  (The handlers of
\* run_worker_agent, and complete_worker_binding.)
THEOREM DeliveredEvidenceStays == FailuresStayApart /\ Spec => SettledEvidenceStays
  <1> DEFINE Inv == OwnInv /\ KeptInv
             Kept == \A a \in Attempts :
                       /\ bound[a] # "settled" /\ bound'[a] = "settled" =>
                            a \in results /\ (atts'[a].status = "succeeded" => a \in outputs /\ file[task] = a)
                       /\ bound[a] = "settled" /\ Evidence(a)' # Evidence(a) => Intruder(a)
  <1>1. ASSUME FailuresStayApart PROVE Inv /\ [Next]_vars => Inv'
    BY <1>1, OwnStep, OwnStutters, KeptStep, KeptStutters
  <1>2. ASSUME FailuresStayApart PROVE Inv /\ Next => Kept
    BY <1>2, SettlesWhole, SettledStays
  <1>3. Inv /\ [Next]_vars /\ (Next => Kept) => [Kept]_vars
    OBVIOUS
  <1>4. Init => Inv
    BY OwnInit, KeptInit
  <1>5. SettledEvidenceStays <=> [][Kept]_vars
    BY DEF SettledEvidenceStays, Intruder
  <1> HIDE DEF Inv, Kept
  <1>6. (FailuresStayApart => (Inv /\ [Next]_vars => Inv')) /\ (FailuresStayApart => (Inv /\ [Next]_vars => [Kept]_vars))
    BY <1>1, <1>2, <1>3
  <1>7. CASE FailuresStayApart
    <2>1. Inv /\ [Next]_vars => Inv'
      BY <1>6, <1>7
    <2>2. Inv /\ [Next]_vars => [Kept]_vars
      BY <1>6, <1>7
    <2> QED
      BY <1>4, <1>5, <2>1, <2>2, PTL DEF Spec
  <1> QED
    BY <1>7

-----------------------------------------------------------------------------
(* Attempts and their task.                                                    *)

\* While an attempt without outcome runs, its task runs.
TaskRunsToo == \A a \in Attempts : bound[a] # "settled" /\ atts[a].status = "running" => Running(task)

LEMMA TaskRunsTooStep ==
  ASSUME OwnInv, KeptInv, TaskRunsToo, FailuresStayApart, Next
  PROVE  TaskRunsToo'
  <1> SUFFICES ASSUME NEW a \in Attempts, bound'[a] # "settled", atts'[a].status = "running"
               PROVE  Running(task)'
    BY DEF TaskRunsToo
  <1>0. LedgerTypeOK /\ TypeOK /\ task \in Tasks
    BY TypeParts, Names DEF OwnInv
  <1>1. bound[a] # "settled"
    BY <1>0, OutcomeStays
  <1>2. CASE UNCHANGED <<tasks, atts>>
    BY <1>1, <1>2 DEF TaskRunsToo, Running
  <1>3. ASSUME NEW b \in Attempts, ClaimTask(task, b, FALSE) PROVE Running(task)'
    BY <1>0, <1>3 DEF ClaimTask, Running, LedgerTypeOK, TaskRow
  <1>4. ASSUME NEW b \in Attempts, Ends(b), FinishTask(task, b, FALSE) PROVE FALSE
    <2>1. b # a /\ Used(a) /\ Used(b)
      BY <1>0, <1>4 DEF FinishTask, LedgerTypeOK, AttemptRow, Used, Ends
    <2>2. bound[b] = "settled"
      BY <1>1, <2>1 DEF KeptInv, OneUndecided
    <2>3. PICK p \in Procs : At(p, "finish") /\ proc[p].att = b
      BY <1>4, <2>2 DEF Ends
    <2> QED
      BY <2>1, <2>2, <2>3, DiscardsOwn DEF At
  <1>5. ASSUME NEW p \in Procs, NEW b \in Attempts, Settled(p, b) PROVE FALSE
    <2>1. b # a /\ bound[b] # "settled" /\ Used(b)
      BY <1>5 DEF Settled, Deliverable, Open, Used
    <2>2. Used(a)
      BY <1>0, <1>5, <2>1 DEF Settled, CompleteWorkerBinding, LedgerTypeOK, Used
    <2> QED
      BY <1>1, <2>1, <2>2 DEF KeptInv, OneUndecided
  <1>6. ASSUME NEW limit, FailBudget(limit) PROVE UNCHANGED <<tasks, atts>>
    BY <1>0, <1>6 DEF FailBudget, EndRunningAttempts, ledger, LedgerTypeOK, AttemptRow
  <1>7. ~ CancelRun
    BY <1>0 DEF CancelRun, EndRunningAttempts, LedgerTypeOK, AttemptRow
  <1> QED
    BY <1>2, <1>3, <1>4, <1>5, <1>6, <1>7, LedgerChanges

\* The assertion of run_worker_agent, "active worker binding is not paired with a running attempt",
\* as far as the ledger can break it: the task of a running attempt with an open binding runs, with
\* any number of callers, kills and cancellations, apart from the same late handlers.
THEOREM BindingsArePaired == FailuresStayApart /\ Spec => []BindingIsPaired
  <1> DEFINE Inv == OwnInv /\ KeptInv /\ TaskRunsToo
  <1>1. ASSUME Init PROVE Inv
    BY <1>1, OwnInit, KeptInit DEF Init, StoreInit, TaskRunsToo
  <1>2. ASSUME Inv, UNCHANGED vars PROVE Inv'
    BY <1>2, OwnStutters, KeptStutters DEF TaskRunsToo, Running, vars, store, ledger
  <1>3. ASSUME FailuresStayApart, Inv, Next PROVE Inv'
    BY <1>3, OwnStep, KeptStep, TaskRunsTooStep
  <1>4. Inv => BindingIsPaired
    BY DEF TaskRunsToo, BindingIsPaired, OpenBindings, Open
  <1> HIDE DEF Inv
  <1>5. CASE FailuresStayApart
    <2>1. Inv /\ [Next]_vars => Inv'
      BY <1>2, <1>3, <1>5
    <2> QED
      BY <1>1, <1>4, <2>1, PTL DEF Spec
  <1> QED
    BY <1>5
=============================================================================
