----------------------------- MODULE Candidates -----------------------------
(***************************************************************************)
(* The multi-file pipeline of a search: a draft's sources are kept, copied *)
(* to a private workspace and run once under a supervisor that records     *)
(* intent, result, cleanup and completion; the outputs of a recorded       *)
(* success are copied and scored; the candidate is archived with digests   *)
(* of all of it.  The candidate may rewrite what it can reach, and leave   *)
(* processes behind that go on writing.                                    *)
(*                                                                         *)
(* A file is its content and a stamp that every write renews.  "declared"  *)
(* is the content that the bundle, the admission or the evaluator's        *)
(* specification names.                                                    *)
(***************************************************************************)
EXTENDS Integers, FiniteSets

CONSTANTS
    MaxCandidates,   \* bound on archived candidates
    MaxRuns,         \* bound on pipeline calls
    MaxWrites,       \* bound on what candidates and users write
    MaxFaults

VARIABLES
    pipeline,        \* the call: pc, what it saw, the status its caller gets
    files,           \* workspace source, staged input, outputs, the user's inputs, the harness
    process,         \* the candidate's group, and a descendant that left it
    attempt,         \* the durable records of the execution
    evaluation,      \* the evaluation's private tree
    sources,         \* candidates whose sources are in the archive's directory
    archived,        \* candidate -> evidence
    cancelled, used

pipeVars == <<pipeline, files, process, attempt, evaluation, sources, archived, cancelled, used>>

File == {"source", "input", "output", "origin", "harness"}
Contents == {"declared", "other"}
Fresh(c) == [c |-> c, v |-> 0]

NoProcess == [group |-> "none", detached |-> "none", code |-> "none"]
NoAttempt == [intent |-> FALSE, result |-> "none", cleanup |-> "none", complete |-> FALSE]
NoEvaluation == [made |-> FALSE, output |-> "none", score |-> "none", report |-> FALSE, manifest |-> FALSE]
PipelineIdle == [pc |-> "idle", id |-> 0, seen |-> << >>, status |-> "none", outcome |-> "none"]

PipelineAt(pc) == pipeline.pc = pc
Goes(pc) == pipeline' = [pipeline EXCEPT !.pc = pc]

\* CandidateArchive.next_id
NextId == 1 + Cardinality(DOMAIN archived)

\* _discard_unarchived_candidate: it does not look whether the archive has the candidate.
Discarded(id) == sources \ {id}

\* persist's handlers: the staged sources are discarded, the run's own directories stay.
Abandon(outcome) ==
    /\ pipeline' = [PipelineIdle EXCEPT !.outcome = outcome]
    /\ sources' = Discarded(pipeline.id)

\* _effective_timeout: the guard of the run, then the time that is left.
Continues(step, otherwise) == IF cancelled THEN Abandon("cancelled") /\ otherwise ELSE step

---------------------------------------------------------------------------
(* MultiFileCandidatePipeline.persist, up to the launch                    *)

\* An operation of the call fails.
Fails ==
    /\ pipeline.pc \notin {"idle", "running", "archived"} /\ used.faults < MaxFaults
    /\ used' = [used EXCEPT !.faults = @ + 1]
    /\ Abandon("failed")
    /\ UNCHANGED <<files, process, attempt, evaluation, archived, cancelled>>

\* What a bundle, an admission and an evaluator's specification declare, by digest.
SourceDeclared == files["source"].c = "declared"
InputDeclared == files["input"].c = "declared"
OriginDeclared == files["origin"].c = "declared"
HarnessDeclared == files["harness"].c = "declared"

\* validate_context, preflight
Preflighted == OriginDeclared /\ HarnessDeclared

\* What an interrupted call left of the next candidate is discarded; then its sources are written.
Start ==
    /\ PipelineAt("idle") /\ used.runs < MaxRuns /\ Cardinality(DOMAIN archived) < MaxCandidates /\ ~cancelled
    /\ used' = [used EXCEPT !.runs = @ + 1]
    /\ IF Preflighted
       THEN /\ sources' = Discarded(NextId) \cup {NextId}
            /\ pipeline' = [PipelineIdle EXCEPT !.pc = "workspace", !.id = NextId]
       ELSE /\ sources' = Discarded(NextId)
            /\ pipeline' = [PipelineIdle EXCEPT !.outcome = "failed"]
    /\ UNCHANGED <<files, process, attempt, evaluation, archived, cancelled>>

\* _allocate_run
AllocateRun == process' = NoProcess /\ attempt' = NoAttempt /\ evaluation' = NoEvaluation

\* materialize_candidate_source_bundle, in a directory of its own for each run.
Materialize ==
    /\ PipelineAt("workspace") /\ Goes("inputs")
    /\ files' = [files EXCEPT !["source"] = Fresh("declared"), !["output"] = Fresh("none")]
    /\ AllocateRun
    /\ UNCHANGED <<sources, archived, cancelled, used>>

\* build_candidate_workspace_plan, build_candidate_execution_admission, stage_candidate_execution_inputs
StageInputs ==
    /\ PipelineAt("inputs")
    /\ IF OriginDeclared /\ ~cancelled
       THEN Goes("intent") /\ files' = [files EXCEPT !["input"] = Fresh("declared")] /\ UNCHANGED sources
       ELSE Abandon(IF cancelled THEN "cancelled" ELSE "failed") /\ UNCHANGED files
    /\ UNCHANGED <<process, attempt, evaluation, archived, cancelled, used>>

\* admit_candidate_execution
Admitted == SourceDeclared /\ InputDeclared

\* run_candidate_execution_recorded: a new attempt directory and its intent.
RecordIntent ==
    /\ PipelineAt("intent")
    /\ IF Admitted THEN Goes("launch") /\ attempt' = [attempt EXCEPT !.intent = TRUE] /\ UNCHANGED sources
       ELSE Abandon("failed") /\ UNCHANGED attempt
    /\ UNCHANGED <<files, process, evaluation, archived, cancelled, used>>

\* CandidateExecutionRunner.run
Launch ==
    /\ PipelineAt("launch")
    /\ Continues(IF Admitted THEN Goes("running") /\ process' = [process EXCEPT !.group = "leader"] /\ UNCHANGED sources
                 ELSE Abandon("failed") /\ UNCHANGED process,
                 UNCHANGED process)
    /\ UNCHANGED <<files, attempt, evaluation, archived, cancelled, used>>

---------------------------------------------------------------------------
(* The candidate: its leader, others of its group, and one that left it    *)
(* with or without the pipes.                                              *)

Alive == process.group \in {"leader", "others"} \/ process.detached # "none"

CandidateWrites ==
    /\ Alive /\ used.writes < MaxWrites
    /\ used' = [used EXCEPT !.writes = @ + 1]
    /\ \E f \in {"source", "input", "output"}, c \in Contents : files' = [files EXCEPT ![f] = [c |-> c, v |-> used'.writes]]
    /\ UNCHANGED <<pipeline, process, attempt, evaluation, sources, archived, cancelled>>

Detach ==
    /\ process.group = "leader" /\ process.detached = "none"
    /\ \E with \in {"pipes", "silent"} : process' = [process EXCEPT !.detached = with]
    /\ UNCHANGED <<pipeline, files, attempt, evaluation, sources, archived, cancelled, used>>

\* The leader exits, alone or leaving others of its group.
LeaderExits ==
    /\ process.group = "leader"
    /\ \E code \in {"zero", "nonzero"}, left \in {"others", "gone"} :
         process' = [process EXCEPT !.group = left, !.code = code]
    /\ UNCHANGED <<pipeline, files, attempt, evaluation, sources, archived, cancelled, used>>

DetachedExits ==
    /\ process.detached # "none" /\ process' = [process EXCEPT !.detached = "none"]
    /\ UNCHANGED <<pipeline, files, attempt, evaluation, sources, archived, cancelled, used>>

---------------------------------------------------------------------------
(* _bounded_process_bytes: the supervisor                                  *)

\* _kill_group: signals reach the group only.  Where the system refuses the signal, the leader alone
\* is killed, or nobody.
KillLeaves ==
    {"gone"} \cup (IF process.group # "gone" /\ used.faults < MaxFaults THEN {process.group, "others"} ELSE {})

\* What the kill leaves of the group; a refusal is a fault.
KillGroup(left) ==
    /\ process' = [process EXCEPT !.group = left]
    /\ used' = [used EXCEPT !.faults = @ + (IF left = "gone" THEN 0 ELSE 1)]

\* Fault: the group is taken to be gone because it was told to go.
CleanedUpTrusting(left) == process.detached # "pipes"

\* _wait_owned_group_exit: a recorded run has an observer, and its cleanup is confirmed when the whole
\* group is gone.  The pipes of a process that left the group outlast the grace period.
CleanedUp(left) == left = "gone" /\ process.detached # "pipes"

\* The leader has exited.
SuperviseExit ==
    /\ PipelineAt("running") /\ process.group \in {"others", "gone"}
    /\ \E left \in KillLeaves :
         /\ KillGroup(left)
         /\ pipeline' = [pipeline EXCEPT !.pc = "result",
                           !.status = IF CleanedUp(left) /\ process.code = "zero" THEN "succeeded" ELSE "failed"]
    /\ UNCHANGED <<files, attempt, evaluation, sources, archived, cancelled>>

TimesOut ==
    /\ \E left \in KillLeaves :
         /\ KillGroup(left)
         /\ pipeline' = [pipeline EXCEPT !.pc = "result", !.status = IF CleanedUp(left) THEN "timed_out" ELSE "failed"]
    /\ UNCHANGED <<files, attempt, evaluation, sources, archived, cancelled>>

\* Fault: the deadline is looked at when the leader has already exited.
SuperviseTimeoutLate == PipelineAt("running") /\ process.group = "others" /\ TimesOut

SuperviseTimeout == PipelineAt("running") /\ process.group = "leader" /\ TimesOut

\* The candidate writes more to a stream than its limit.
SuperviseOverflow ==
    /\ PipelineAt("running") /\ process.group = "leader"
    /\ \E left \in KillLeaves : KillGroup(left)
    /\ pipeline' = [pipeline EXCEPT !.pc = "result", !.status = "failed"]
    /\ UNCHANGED <<files, attempt, evaluation, sources, archived, cancelled>>

---------------------------------------------------------------------------
(* The rest of run_candidate_execution_recorded                            *)

RecordResult ==
    /\ PipelineAt("result")
    /\ Continues(Goes("cleanup") /\ attempt' = [attempt EXCEPT !.result = pipeline.status] /\ UNCHANGED sources,
                 UNCHANGED attempt)
    /\ UNCHANGED <<files, process, evaluation, archived, cancelled, used>>

\* _probe_process_group, _cleanup_payload: verified when the group is absent, its release and its exit
\* were seen and the caller's callbacks did not raise; a run that timed out has no exit code to compare.
CleanupReceipts ==
    {"unknown"} \cup (IF process.group # "gone" THEN {"failed"}
                      ELSE IF pipeline.status # "timed_out" THEN {"verified"} ELSE {})

RecordCleanup ==
    /\ PipelineAt("cleanup") /\ Goes("complete")
    /\ \E receipt \in CleanupReceipts : attempt' = [attempt EXCEPT !.cleanup = receipt]
    /\ UNCHANGED <<files, process, evaluation, sources, archived, cancelled, used>>

RecordComplete ==
    /\ PipelineAt("complete") /\ Goes("recorded")
    /\ attempt' = [attempt EXCEPT !.complete = TRUE]
    /\ UNCHANGED <<files, process, evaluation, sources, archived, cancelled, used>>

\* _inspect: without all its records an attempt is uncertain.
Recorded == attempt.intent /\ attempt.result # "none" /\ attempt.complete

---------------------------------------------------------------------------
(* evaluate_candidate_execution                                            *)

Stamps == [f \in {"source", "input", "output", "harness"} |-> files[f].v]
AsDeclared == SourceDeclared /\ InputDeclared /\ HarnessDeclared

\* Fault: the sources are not compared with the bundle again.
ObserveTrusting ==
    /\ PipelineAt("recorded")
    /\ IF ~cancelled /\ Recorded /\ attempt.result = "succeeded" /\ InputDeclared /\ HarnessDeclared
       THEN pipeline' = [pipeline EXCEPT !.pc = "snapshot", !.seen = [stamps |-> Stamps, output |-> files["output"].c,
                                                                       source |-> SourceDeclared]]
            /\ UNCHANGED sources
       ELSE Abandon(IF cancelled THEN "cancelled" ELSE "failed")
    /\ UNCHANGED <<files, process, attempt, evaluation, archived, cancelled, used>>

\* A recorded success; sources, inputs and harness as declared; the outputs as they are now.
Observe ==
    /\ PipelineAt("recorded")
    /\ IF ~cancelled /\ Recorded /\ attempt.result = "succeeded" /\ AsDeclared
       THEN pipeline' = [pipeline EXCEPT !.pc = "snapshot", !.seen = [stamps |-> Stamps, output |-> files["output"].c,
                                                                       source |-> SourceDeclared]]
            /\ UNCHANGED sources
       ELSE Abandon(IF cancelled THEN "cancelled" ELSE "failed")
    /\ UNCHANGED <<files, process, attempt, evaluation, archived, cancelled, used>>

\* _Observation.check: nothing was written since it was read.
Unchanged == Stamps = pipeline.seen.stamps

\* PrivateTree: a new directory that holds copies of what was read.
Snapshot ==
    /\ PipelineAt("snapshot")
    /\ IF Unchanged THEN Goes("harness") /\ evaluation' = [NoEvaluation EXCEPT !.made = TRUE, !.output = pipeline.seen.output]
                         /\ UNCHANGED sources
       ELSE Abandon("failed") /\ UNCHANGED evaluation
    /\ UNCHANGED <<files, process, attempt, archived, cancelled, used>>

\* The harness scores the copies; outputs of the wrong format get the invalid report without it.
Harness ==
    /\ PipelineAt("harness")
    /\ Continues(/\ \/ Goes("recheck") /\ evaluation' = [evaluation EXCEPT !.score = evaluation.output] /\ UNCHANGED sources
                    \/ evaluation.output # "none" /\ Abandon("failed") /\ UNCHANGED evaluation,
                 UNCHANGED evaluation)
    /\ UNCHANGED <<files, process, attempt, archived, cancelled, used>>

Recheck ==
    /\ PipelineAt("recheck")
    /\ IF Unchanged /\ Recorded /\ ~cancelled THEN Goes("manifest") /\ evaluation' = [evaluation EXCEPT !.report = TRUE] /\ UNCHANGED sources
       ELSE Abandon(IF cancelled THEN "cancelled" ELSE "failed") /\ UNCHANGED evaluation
    /\ UNCHANGED <<files, process, attempt, archived, cancelled, used>>

\* evaluation.json
Manifest ==
    /\ PipelineAt("manifest")
    /\ IF Unchanged /\ ~cancelled THEN Goes("archive") /\ evaluation' = [evaluation EXCEPT !.manifest = TRUE] /\ UNCHANGED sources
       ELSE Abandon(IF cancelled THEN "cancelled" ELSE "failed") /\ UNCHANGED evaluation
    /\ UNCHANGED <<files, process, attempt, archived, cancelled, used>>

---------------------------------------------------------------------------

\* inspect_candidate_evaluation
Inspected == evaluation.made /\ evaluation.report /\ evaluation.manifest

\* validate_candidate_bundle_evidence: what the archive line binds.
Evidence == [sourceDeclared |-> pipeline.seen.source, result |-> attempt.result, complete |-> attempt.complete,
             scored |-> evaluation.score, output |-> evaluation.output, evaluated |-> Inspected]

Archived == [id \in DOMAIN archived \cup {pipeline.id} |->
               IF id = pipeline.id THEN Evidence ELSE archived[id]]

\* CandidateArchive.persist; when it cannot tell whether the line is there the call says so.
Archive ==
    /\ PipelineAt("archive")
    /\ Continues(\/ archived' = Archived /\ Goes("archived") /\ UNCHANGED sources
                 \/ /\ archived' \in {archived, Archived}
                    /\ pipeline' = [PipelineIdle EXCEPT !.outcome = "unknown"] /\ UNCHANGED sources,
                 UNCHANGED archived)
    /\ UNCHANGED <<files, process, attempt, evaluation, cancelled, used>>

\* The guard comes once more after the archive has the candidate.
ReturnCandidate ==
    /\ PipelineAt("archived")
    /\ Continues(pipeline' = [PipelineIdle EXCEPT !.outcome = "candidate"] /\ UNCHANGED sources, TRUE)
    /\ UNCHANGED <<files, process, attempt, evaluation, archived, cancelled, used>>

---------------------------------------------------------------------------

\* A user edits the inputs or the harness.
UserWrites ==
    /\ used.writes < MaxWrites
    /\ used' = [used EXCEPT !.writes = @ + 1]
    /\ \E f \in {"origin", "harness"}, c \in Contents : files' = [files EXCEPT ![f] = [c |-> c, v |-> used'.writes]]
    /\ UNCHANGED <<pipeline, process, attempt, evaluation, sources, archived, cancelled>>

CancelRun ==
    /\ ~cancelled /\ cancelled' = TRUE
    /\ UNCHANGED <<pipeline, files, process, attempt, evaluation, sources, archived, used>>

\* The process of the search is killed; the candidate's processes are not.
Killed ==
    /\ ~PipelineAt("idle") /\ used.faults < MaxFaults
    /\ used' = [used EXCEPT !.faults = @ + 1]
    /\ pipeline' = [PipelineIdle EXCEPT !.outcome = "killed"]
    /\ UNCHANGED <<files, process, attempt, evaluation, sources, archived, cancelled>>

PipeInit ==
    /\ pipeline = PipelineIdle
    /\ files = [f \in File |-> Fresh("declared")]
    /\ process = NoProcess /\ attempt = NoAttempt /\ evaluation = NoEvaluation
    /\ sources = {} /\ archived = << >> /\ cancelled = FALSE
    /\ used = [runs |-> 0, writes |-> 0, faults |-> 0]

Steps ==
    \/ Materialize \/ StageInputs \/ RecordIntent \/ Launch
    \/ SuperviseExit \/ SuperviseTimeout
    \/ RecordResult \/ RecordCleanup \/ RecordComplete
    \/ Observe \/ Snapshot \/ Harness \/ Recheck \/ Manifest \/ Archive \/ ReturnCandidate

PipeNext ==
    \/ Start \/ Fails \/ Steps \/ SuperviseOverflow
    \/ CandidateWrites \/ Detach \/ LeaderExits \/ DetachedExits
    \/ UserWrites \/ CancelRun \/ Killed

PipeSpec == PipeInit /\ [][PipeNext]_pipeVars

---------------------------------------------------------------------------

\* An archived candidate has a recorded success and a finished evaluation of the copied outputs, and
\* it was the declared sources that ran and were evaluated, whatever the candidate wrote meanwhile.
ArchivedIsEvidenced ==
    \A id \in DOMAIN archived :
        LET e == archived[id] IN
        /\ e.result = "succeeded" /\ e.complete /\ e.evaluated /\ e.scored = e.output
        /\ e.sourceDeclared

\* "Remove a source tree that was staged before an archive record existed": the sources of an archived
\* candidate stay, whatever fails or is cancelled later.
ArchivedSourcesStay == DOMAIN archived \subseteq sources

\* When a success is recorded no process of the candidate's group is left to write its outputs, although
\* the system may refuse the signal that ends them.
SuccessEndsGroup == attempt.result = "succeeded" => process.group = "gone"

\* What counts as a success was run to its end and evaluated as it ran.
SuccessIsEvidenced == ArchivedIsEvidenced /\ SuccessEndsGroup

\* A call ends, although the candidate may hang, leave processes or fill its pipes.
CallsEnd == pipeline.pc # "idle" ~> pipeline.pc = "idle"
=============================================================================
