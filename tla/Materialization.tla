-------------------------- MODULE Materialization --------------------------
(***************************************************************************)
(* Delivery of the selected candidate's outputs: the final program is run  *)
(* once, its execution, the delivery plan and the terminal result are      *)
(* journalled on disk and in the ledger, and the outputs are published in  *)
(* between.  Several callers of materialize_evolved_outputs and of the     *)
(* attestation command share the child's workspace; a caller may be killed *)
(* between any two durable writes.                                         *)
(*                                                                         *)
(* A record file is written as a temporary file, linked to its name, and   *)
(* the temporary name removed.  outputs is what Publication promises of    *)
(* the output batch: decided once, as a whole.                             *)
(***************************************************************************)
EXTENDS Integers, FiniteSets

CONSTANTS
    Callers,
    MaxKills,    \* bound on kills
    MaxFaults    \* bound on failing operating-system, ledger and publication calls

VARIABLES
    lock,        \* the holder of .materialization.lock
    disk,        \* the record files
    marker,      \* result.json is linked
    staged,      \* the attempt directory holds the candidate
    blob,        \* the result that .terminal-publication carries
    ledger,      \* the events of intent, execution, delivery and terminal result
    outputs,     \* the output batch in the parent's workspace
    verdict,     \* what the execution and the check of its outputs amount to
    proc,        \* each caller
    launched,    \* history: how often the candidate was started
    kills, faults

vars == <<lock, disk, marker, staged, blob, ledger, outputs, verdict, proc, launched, kills, faults>>

Files == {"intent", "evidence", "journal", "exdone", "plan", "terminal", "termdone", "delivered"}
Free == "free"
ASSUME MaterializationAssumption == Free \notin Callers
Idle == [pc |-> "idle", file |-> "none", then |-> "none", modern |-> FALSE, attest |-> FALSE]
Whole(f) == disk[f] \in {"linked", "final"}

\* A preparation was cut short: its record is there, but not whole or not in the ledger.  Later
\* calls refuse to go on, since they cannot tell what happened.
Unprepared(f, known) == disk[f] # "absent" /\ ~(Whole(f) /\ known)
Blocked ==
    /\ lock = Free
    /\ \/ \E f \in Files : disk[f] = "cut"
       \/ Unprepared("intent", ledger.intent) \/ Unprepared("journal", ledger.execution # "absent")
       \/ Unprepared("plan", ledger.delivery) \/ Unprepared("terminal", ledger.terminal # "absent")

---------------------------------------------------------------------------
(* The ledger.  Every write is one transaction and leaves what is recorded *)
(* already as it is.                                                       *)

IntentRecorded == ledger.intent
ExecutionStatus == ledger.execution
DeliveryRecorded == ledger.delivery
TerminalStatus == ledger.terminal

RecordLaunchIntent == ledger' = [ledger EXCEPT !.intent = TRUE]
RecordAttestation(vouched) == ledger' = [ledger EXCEPT !.attested = vouched]
WriteExecution(status) ==
    ledger' = [ledger EXCEPT !.execution = IF @ = "committed" THEN @ ELSE status]
RecordDelivery == ledger' = [ledger EXCEPT !.delivery = TRUE]
WriteTerminal(status) ==
    ledger' = [ledger EXCEPT !.terminal = IF @ = "committed" THEN @ ELSE status]

---------------------------------------------------------------------------
(* What a caller reads.                                                    *)

\* inspect_launch_intent
IntentStatus ==
    CASE disk.intent = "absent" /\ ~IntentRecorded -> "none"
      [] Whole("intent") /\ IntentRecorded /\ staged -> "intended"
      [] OTHER -> "uncertain"

\* materialization_execution._load
ExecutionLoads == IntentStatus = "intended" /\ Whole("journal") /\ disk.evidence = "final"

\* inspect_materialization_execution: without repair
ExecutionWhole == ExecutionLoads /\ ExecutionStatus = "committed" /\ Whole("exdone")

\* _reject_materialization_execution_downstream: the ledger knows nothing that follows the execution.
LedgerNoDownstream == ~DeliveryRecorded /\ TerminalStatus = "absent"

\* _no_downstream on disk and in the ledger
NoDownstream ==
    /\ disk.plan = "absent" /\ disk.terminal = "absent" /\ ~marker /\ outputs = "none"
    /\ LedgerNoDownstream

\* materialization_delivery._load
PlanLoads == Whole("plan") /\ DeliveryRecorded /\ ExecutionWhole

\* _validate_materialization_execution_evidence
ExecutionAgrees(payload) ==
    IF disk.plan = "absent" THEN payload = "failed" /\ disk.evidence = "absent"
    ELSE disk.evidence = "final" /\ ExecutionStatus = "committed"

\* _validate_materialization_outputs
OutputsAgree(payload) ==
    IF payload = "succeeded" THEN outputs = "committed" ELSE outputs \in {"none", "rolled_back"}

\* _validate_materialization_attempt_evidence
AttemptAgrees(payload) ==
    /\ ExecutionAgrees(payload) /\ OutputsAgree(payload)
    /\ verdict = "failed" => payload = "failed"

\* terminal_check and validate_terminal: the result agrees with plan, execution and outputs.
ResultHolds(payload) ==
    /\ AttemptAgrees(payload)
    /\ disk.plan # "absent" => PlanLoads
    /\ verdict = "failed" \/ disk.plan = "absent" => outputs = "none"

---------------------------------------------------------------------------
(* Calls, the lock and how a call ends.                                    *)

At(c, pc) == proc[c].pc = pc
Go(c, pc) == proc' = [proc EXCEPT ![c].pc = pc]
WriteThen(c, f, pc) ==
    proc' = [proc EXCEPT ![c].pc = IF Whole(f) THEN pc ELSE "write", ![c].file = f, ![c].then = pc]
Leave(c) == proc' = [proc EXCEPT ![c] = Idle] /\ lock' = Free

Rest == <<kills, faults>>
Records == <<disk, marker, staged, blob, ledger, outputs, verdict, launched>>

\* The call ends with an error that keeps everything as it is.
Raise(c) == Leave(c) /\ UNCHANGED <<Records, Rest>>

\* An operation fails: an error, or a raised error although it took effect (which a second look finds).
Fault == faults < MaxFaults /\ faults' = faults + 1
FaultRaises(c) == Fault /\ Leave(c) /\ UNCHANGED <<Records, kills>>

\* A busy lock ends the call at once and changes nothing.
Materialize(c) ==
    /\ At(c, "idle") /\ lock = Free
    /\ lock' = c /\ Go(c, "inspect")
    /\ UNCHANGED <<Records, Rest>>

AttestValid ==
    /\ IntentStatus = "intended" /\ disk.evidence = "final" /\ NoDownstream
    /\ IF disk.journal = "absent" THEN ExecutionStatus = "absent"
       ELSE /\ ledger.attested /\ ExecutionLoads
            /\ ExecutionStatus = "absent" => disk.exdone = "absent" /\ disk.journal = "final"

\* The operator vouches for execution evidence that its caller could not journal any more.
Attest(c) ==
    /\ At(c, "idle") /\ lock = Free /\ AttestValid
    /\ lock' = c
    /\ proc' = [proc EXCEPT ![c].pc = "publish", ![c].attest = TRUE]
    /\ UNCHANGED <<Records, Rest>>

---------------------------------------------------------------------------
(* _write_record, one system call at a time.                               *)

WriteRecord(c) ==
    /\ At(c, "write")
    /\ LET f == proc[c].file IN
       CASE disk[f] \in {"absent", "dir"} -> disk' = [disk EXCEPT ![f] = "temp"] /\ UNCHANGED proc
         [] disk[f] = "temp" -> disk' = [disk EXCEPT ![f] = "linked"] /\ UNCHANGED proc
         [] OTHER -> disk' = [disk EXCEPT ![f] = "final"] /\ Go(c, proc[c].then)
    /\ UNCHANGED <<lock, marker, staged, blob, ledger, outputs, verdict, launched, Rest>>

WriteFails(c) ==
    /\ At(c, "write") /\ Fault
    /\ disk' = [disk EXCEPT ![proc[c].file] = IF @ \in {"absent", "dir"} THEN "cut" ELSE @]
    /\ Leave(c)
    /\ UNCHANGED <<marker, staged, blob, ledger, outputs, verdict, launched, kills>>

---------------------------------------------------------------------------
(* _materialize_evolved_outputs_locked: what is there already.             *)

Inspect(c) ==
    /\ At(c, "inspect")
    /\ CASE IntentStatus = "uncertain" \/ (disk.journal = "absent" /\ ExecutionStatus # "absent") -> Raise(c)
         [] IntentStatus # "uncertain" /\ disk.journal = "absent" /\ ExecutionStatus = "absent" ->
              Go(c, "entry") /\ UNCHANGED <<lock, Records, Rest>>
         [] IntentStatus # "uncertain" /\ disk.journal # "absent" ->
              /\ proc' = [proc EXCEPT ![c].pc = "exfinish", ![c].then = "entry", ![c].modern = TRUE]
              /\ UNCHANGED <<lock, Records, Rest>>

\* recover_materialization_execution: commit what is prepared, then acknowledge.
ExecutionFinish(c) ==
    /\ At(c, "exfinish")
    /\ IF \/ ~ExecutionLoads \/ disk.exdone = "cut" \/ ExecutionStatus = "absent"
          \/ ExecutionStatus = "prepared" /\ (disk.exdone # "absent" \/ ~NoDownstream)
       THEN Raise(c)
       ELSE /\ WriteExecution("committed")
            /\ WriteThen(c, "exdone", proc[c].then)
            /\ UNCHANGED <<lock, disk, marker, staged, blob, outputs, verdict, launched, Rest>>

\* An intended launch without recorded execution is never repeated and never concluded.
LaunchUnknown == IntentStatus = "intended" /\ ~(disk.evidence = "final" /\ ExecutionStatus = "committed")

Entry(c) ==
    /\ At(c, "entry")
    /\ CASE LaunchUnknown -> Raise(c)
         [] ~LaunchUnknown /\ (disk.plan # "absent" \/ DeliveryRecorded) ->
              IF PlanLoads /\ proc[c].modern
              THEN Go(c, "terminal") /\ UNCHANGED <<lock, Records, Rest>> ELSE Raise(c)
         [] ~LaunchUnknown /\ disk.plan = "absent" /\ ~DeliveryRecorded ->
              IF disk.terminal = "absent" /\ TerminalStatus # "absent" THEN Raise(c)
              ELSE /\ Go(c, CASE disk.terminal # "absent" -> "termfinish"
                              [] disk.terminal = "absent" /\ proc[c].modern -> "deliver"
                              [] OTHER -> "stage")
                   /\ UNCHANGED <<lock, Records, Rest>>

---------------------------------------------------------------------------
(* The only launch.                                                        *)

\* _validate_absent_materialization_marker: a missing result must not repeat a recorded execution.
NothingRecorded == disk.evidence = "absent" /\ ~marker /\ TerminalStatus = "absent" /\ outputs # "committed"

\* Fault: the candidate is started without a recorded intent.
StageUnannounced(c) ==
    /\ At(c, "stage")
    /\ IF ~NothingRecorded THEN Raise(c)
       ELSE /\ staged' = TRUE /\ Go(c, "launch")
            /\ UNCHANGED <<lock, disk, marker, blob, ledger, outputs, verdict, launched, Rest>>

\* A fresh attempt directory; then the intent.
Stage(c) ==
    /\ At(c, "stage")
    /\ IF ~NothingRecorded THEN Raise(c)
       ELSE /\ staged' = TRUE /\ WriteThen(c, "intent", "record")
            /\ UNCHANGED <<lock, disk, marker, blob, ledger, outputs, verdict, launched, Rest>>

\* The inputs cannot be staged: the terminal result is a failure without execution.
StageFails(c) ==
    /\ At(c, "stage") /\ NothingRecorded /\ Fault
    /\ staged' = TRUE /\ verdict' = "failed" /\ Go(c, "term")
    /\ UNCHANGED <<lock, disk, marker, blob, ledger, outputs, launched, kills>>

RecordIntent(c) ==
    /\ At(c, "record")
    /\ RecordLaunchIntent
    /\ Go(c, "launch")
    /\ UNCHANGED <<lock, disk, marker, staged, blob, outputs, verdict, launched, Rest>>

Launch(c) ==
    /\ At(c, "launch")
    /\ launched' = launched + 1 /\ Go(c, "running")
    /\ UNCHANGED <<lock, disk, marker, staged, blob, ledger, outputs, verdict, Rest>>

\* The runner returns and writes execution.json through a temporary file.
RunEnds(c) ==
    /\ At(c, "running")
    /\ \/ /\ disk.evidence = "absent" /\ disk' = [disk EXCEPT !.evidence = "temp"]
          /\ verdict' \in {"succeeded", "failed"} /\ UNCHANGED proc
       \/ /\ disk.evidence = "temp" /\ disk' = [disk EXCEPT !.evidence = "final"]
          /\ Go(c, "publish") /\ UNCHANGED verdict
    /\ UNCHANGED <<lock, marker, staged, blob, ledger, outputs, launched, Rest>>

\* publish_materialization_execution
Publish(c) ==
    /\ At(c, "publish")
    /\ LET then == IF proc[c].attest THEN "return" ELSE "deliver" IN
       CASE ~NoDownstream \/ IntentStatus # "intended" \/ (disk.journal # "absent" /\ ~proc[c].attest) -> Raise(c)
         [] NoDownstream /\ IntentStatus = "intended" /\ disk.journal = "absent" ->
              /\ disk' = [disk EXCEPT !.journal = "dir"] /\ WriteThen(c, "journal", "prepare")
              /\ RecordAttestation(proc[c].attest)
              /\ UNCHANGED <<lock, marker, staged, blob, outputs, verdict, launched, Rest>>
         [] NoDownstream /\ IntentStatus = "intended" /\ disk.journal # "absent" /\ proc[c].attest ->
              /\ proc' = [proc EXCEPT ![c].pc = IF ExecutionStatus = "absent" THEN "prepare" ELSE "exfinish",
                                      ![c].then = then]
              /\ UNCHANGED <<lock, Records, Rest>>

Prepare(c) ==
    /\ At(c, "prepare")
    /\ WriteExecution("prepared")
    /\ proc' = [proc EXCEPT ![c].pc = "exfinish",
                            ![c].then = IF proc[c].attest THEN "return" ELSE "deliver"]
    /\ UNCHANGED <<lock, disk, marker, staged, blob, outputs, verdict, launched, Rest>>

---------------------------------------------------------------------------
(* finish_materialization_delivery: plan, outputs, terminal result.        *)

Deliver(c) ==
    /\ At(c, "deliver")
    /\ IF ~ExecutionWhole \/ ~NoDownstream THEN Raise(c)
       ELSE /\ disk' = [disk EXCEPT !.plan = "dir"]
            /\ WriteThen(c, "plan", "recordplan")
            /\ UNCHANGED <<lock, marker, staged, blob, ledger, outputs, verdict, launched, Rest>>

RecordPlan(c) ==
    /\ At(c, "recordplan")
    /\ RecordDelivery
    /\ Go(c, "terminal")
    /\ UNCHANGED <<lock, disk, marker, staged, blob, outputs, verdict, launched, Rest>>

\* A terminal publication is looked for before output recovery may change anything.
TerminalEntry(c) ==
    /\ At(c, "terminal")
    /\ IF \/ ~PlanLoads \/ disk.delivered = "cut"
          \/ disk.delivered # "absent" /\ ~(TerminalStatus = "committed" /\ marker)
          \/ disk.terminal = "absent" /\ (TerminalStatus # "absent" \/ marker)
       THEN Raise(c)
       ELSE /\ Go(c, CASE disk.terminal # "absent" -> "termfinish"
                       [] disk.terminal = "absent" /\ verdict = "succeeded" -> "outputs"
                       [] OTHER -> "term")
            /\ UNCHANGED <<lock, Records, Rest>>

\* Fault: outputs that an earlier call committed are published again instead of recovered.
OutputsOnce(c) ==
    /\ At(c, "outputs")
    /\ CASE outputs = "none" -> outputs' = "pending" /\ UNCHANGED <<proc, lock>>
         [] outputs = "pending" -> outputs' \in {"committed", "rolled_back"} /\ Go(c, "term") /\ UNCHANGED lock
         [] OTHER -> UNCHANGED outputs /\ Leave(c)
    /\ UNCHANGED <<disk, marker, staged, blob, ledger, verdict, launched, Rest>>

\* recover_output_batch, and _promote_evolved_outputs when there is no batch yet.
Outputs(c) ==
    /\ At(c, "outputs")
    /\ CASE outputs = "none" -> outputs' = "pending" /\ UNCHANGED proc
         [] outputs = "pending" -> outputs' \in {"committed", "rolled_back"} /\ UNCHANGED proc
         [] OTHER -> UNCHANGED outputs /\ Go(c, "term")
    /\ UNCHANGED <<lock, disk, marker, staged, blob, ledger, verdict, launched, Rest>>

\* Promotion fails before it makes a batch; its result is then a failure without outputs.
PromotionFails(c) ==
    /\ At(c, "outputs") /\ outputs = "none" /\ Fault
    /\ Go(c, "term")
    /\ UNCHANGED <<lock, Records, kills>>

Payload == IF verdict = "succeeded" /\ outputs = "committed" THEN "succeeded" ELSE "failed"

\* publish_materialization_result
PublishTerminal(c) ==
    /\ At(c, "term")
    /\ IF ~ResultHolds(Payload) \/ TerminalStatus # "absent" \/ marker \/ disk.terminal # "absent" THEN Raise(c)
       ELSE /\ disk' = [disk EXCEPT !.terminal = "dir"] /\ blob' = Payload
            /\ WriteThen(c, "terminal", "termprepare")
            /\ UNCHANGED <<lock, marker, staged, ledger, outputs, verdict, launched, Rest>>

TerminalPrepare(c) ==
    /\ At(c, "termprepare")
    /\ WriteTerminal("prepared")
    /\ Go(c, "termfinish")
    /\ UNCHANGED <<lock, disk, marker, staged, blob, outputs, verdict, launched, Rest>>

\* materialization_publication._finish: link the marker, commit, acknowledge.
TerminalFinish(c) ==
    /\ At(c, "termfinish")
    /\ CASE \/ ~Whole("terminal") \/ TerminalStatus = "absent" \/ disk.termdone = "cut"
            \/ disk.termdone # "absent" /\ TerminalStatus # "committed"
            \/ TerminalStatus = "committed" /\ ~marker
            \/ ~ResultHolds(blob) -> Raise(c)
         [] TerminalStatus = "prepared" /\ ~marker ->
              marker' = TRUE /\ UNCHANGED <<proc, lock, disk, staged, blob, ledger, outputs, verdict, launched, Rest>>
         [] OTHER ->
              /\ WriteTerminal("committed")
              /\ WriteThen(c, "termdone", "delivered")
              /\ UNCHANGED <<lock, disk, marker, staged, blob, outputs, verdict, launched, Rest>>

Acknowledge(c) ==
    /\ At(c, "delivered")
    /\ IF Whole("plan") THEN WriteThen(c, "delivered", "return") ELSE Go(c, "return")
    /\ UNCHANGED <<lock, Records, Rest>>

Return(c) ==
    /\ At(c, "return")
    /\ Leave(c) /\ UNCHANGED <<Records, Rest>>

---------------------------------------------------------------------------

\* A ledger, runner or publication call fails and a second look does not find its effect.
StepFails(c) ==
    /\ proc[c].pc \in {"record", "running", "prepare", "exfinish", "recordplan", "outputs", "termprepare", "termfinish"}
    /\ FaultRaises(c)

\* The process dies, in the middle of a file perhaps; the lock goes with it.
Kill(c) ==
    /\ ~At(c, "idle") /\ kills < MaxKills /\ kills' = kills + 1
    /\ Leave(c)
    /\ \/ UNCHANGED disk
       \/ /\ At(c, "write") /\ disk[proc[c].file] \in {"absent", "dir"}
          /\ disk' = [disk EXCEPT ![proc[c].file] = "cut"]
    /\ UNCHANGED <<marker, staged, blob, ledger, outputs, verdict, launched, faults>>

Step(c) ==
    \/ WriteRecord(c) \/ Inspect(c) \/ ExecutionFinish(c) \/ Entry(c) \/ Stage(c) \/ RecordIntent(c)
    \/ Launch(c) \/ RunEnds(c) \/ Publish(c) \/ Prepare(c) \/ Deliver(c) \/ RecordPlan(c)
    \/ TerminalEntry(c) \/ Outputs(c) \/ PublishTerminal(c) \/ TerminalPrepare(c) \/ TerminalFinish(c)
    \/ Acknowledge(c) \/ Return(c)

Init ==
    /\ lock = Free /\ disk = [f \in Files |-> "absent"] /\ marker = FALSE /\ staged = FALSE
    /\ blob = "none" /\ outputs = "none" /\ verdict = "none"
    /\ ledger = [intent |-> FALSE, execution |-> "absent", attested |-> FALSE, delivery |-> FALSE,
                 terminal |-> "absent"]
    /\ proc = [c \in Callers |-> Idle]
    /\ launched = 0 /\ kills = 0 /\ faults = 0

Next ==
    \E c \in Callers :
      \/ Materialize(c) \/ Attest(c) \/ Step(c)
      \/ WriteFails(c) \/ StageFails(c) \/ PromotionFails(c) \/ StepFails(c) \/ Kill(c)

Spec == Init /\ [][Next]_vars

\* A call that started runs on until it ends, and somebody calls again when the lock is free.
FairSpec ==
    /\ Spec
    /\ \A c \in Callers : WF_vars(Step(c))
    /\ SF_vars(\E c \in Callers : Materialize(c))

---------------------------------------------------------------------------

\* The final candidate is started at most once, however often the delivery is called and killed.
LaunchedOnce == launched <= 1

\* Outputs that were committed are reported as a success, unless a preparation was cut short.
CommittedIsReported ==
    (outputs = "committed") ~> ((TerminalStatus = "committed" /\ blob = "succeeded") \/ Blocked)
=============================================================================
