----------------------------- MODULE EffectTrial -----------------------------
(***************************************************************************)
(* Effect trials: each logical run of a trial starts a subject and then a  *)
(* harness that scores it, once in a normal trial and once a round in a    *)
(* deep one. The trial is killed and resumed; a record of a logical run    *)
(* counts once the trial's state registers its digest. A killed trial      *)
(* leaves its subject or its harness running, which may write its receipt  *)
(* later; a subject may also leave files where it should not.              *)
(*                                                                         *)
(* A score is the number of the harness run that gave it.                  *)
(***************************************************************************)
EXTENDS Integers, Sequences

CONSTANTS
    LogicalRuns,     \* number of logical runs of the case
    OuterRounds,     \* rounds of a run of a deep trial
    MaxTries,        \* bound on attempts of a logical run
    MaxTrialStarts,  \* bound on starts of the trial
    MaxHarness       \* bound on harness runs

ASSUME TrialAssumption == LogicalRuns \in Nat /\ OuterRounds \in Nat \ {0}

VARIABLES
    trial,           \* the runner
    control,         \* control/state.json, the records and their backups, the report
    tries,           \* the attempt directories of each logical run
    leftovers        \* subjects and harnesses that outlived their trial

trialVars == <<trial, control, tries, leftovers>>

NoRecord == [attempt |-> 0, rounds |-> <<>>, error |-> "absent"]
StrayRecord == [attempt |-> 0, rounds |-> <<0>>, error |-> "none"]
NewTry == [touched |-> FALSE, receipts |-> {}, dirs |-> {}, scores |-> [k \in 1 .. OuterRounds |-> 0]]

LastRound == IF trial.deep THEN OuterRounds ELSE 1
Current == tries[trial.run][trial.attempt]
Round == Len(trial.rounds) + 1
TrialAt(step) == trial.at = step
TrialTo(step) == trial' = [trial EXCEPT !.at = step]
Abort == trial' = [trial EXCEPT !.at = "off", !.run = 1, !.attempt = 0, !.rounds = <<>>, !.resumed = FALSE, !.pending = NoRecord]
WithTry(new) == tries' = [tries EXCEPT ![trial.run][trial.attempt] = new]

---------------------------------------------------------------------------
(* The start of a trial, and of each of its logical runs                   *)

\* A trial needs an empty directory, or the one that it resumes.
StartTrial ==
    /\ TrialAt("off") /\ trial.starts < MaxTrialStarts /\ control.workspace # "partial"
    /\ trial' = [trial EXCEPT !.at = IF control.workspace = "absent" THEN "prepare" ELSE "load", !.starts = @ + 1]
    /\ control' = [control EXCEPT !.workspace = IF @ = "absent" THEN "partial" ELSE @] /\ UNCHANGED <<tries, leftovers>>

\* The copies of the suite and the baseline, then the state
PrepareState ==
    /\ TrialAt("prepare") /\ TrialTo("load") /\ control' = [control EXCEPT !.workspace = "prepared"] /\ UNCHANGED <<tries, leftovers>>

\* _verify_round_artifacts: the receipts still say what the record says.
ArtifactsHold(r, record) ==
    \A k \in DOMAIN record.rounds :
        k \in tries[r][record.attempt].receipts /\ tries[r][record.attempt].scores[k] = record.rounds[k]

NextRun == trial' = [trial EXCEPT !.at = "load", !.run = @ + 1, !.attempt = 0, !.rounds = <<>>, !.resumed = FALSE, !.pending = NoRecord]
FreshAttempt == TrialTo("attempt")
SameAttempt(record) ==
    trial' = [trial EXCEPT !.at = "request", !.attempt = record.attempt, !.rounds = record.rounds, !.resumed = TRUE]

\* run: a deep trial continues a clean prefix and tries a failed run again, a normal one takes it as it is.
Loaded(record) ==
    CASE ~trial.deep \/ record.error = "none" -> NextRun
      [] trial.deep /\ record.error # "none" /\ ~ArtifactsHold(trial.run, record) -> Abort
      [] trial.deep /\ record.error = "incomplete" /\ ArtifactsHold(trial.run, record) -> SameAttempt(record)
      [] trial.deep /\ record.error = "failed" /\ ArtifactsHold(trial.run, record) -> FreshAttempt

\* _load_record: only a registered record counts; the backup is what was registered before an interrupted commit.
LoadRecord ==
    /\ TrialAt("load") /\ trial.run <= LogicalRuns /\ UNCHANGED <<tries, leftovers>>
    /\ LET registered == control.state[trial.run] IN
       CASE registered = NoRecord -> FreshAttempt /\ UNCHANGED control
         [] registered # NoRecord /\ registered = control.record[trial.run] -> Loaded(registered) /\ UNCHANGED control
         [] registered # NoRecord /\ registered # control.record[trial.run] ->
              IF registered = control.backup[trial.run]
              THEN TrialTo("restored") /\ control' = [control EXCEPT !.record[trial.run] = registered]
              ELSE Abort /\ UNCHANGED control

DropBackup ==
    /\ TrialAt("restored") /\ Loaded(control.record[trial.run])
    /\ control' = [control EXCEPT !.backup[trial.run] = NoRecord] /\ UNCHANGED <<tries, leftovers>>

\* _attempt_root and _stage_public_case: the next directory, with the public files
AttemptRoot ==
    /\ TrialAt("attempt") /\ Len(tries[trial.run]) < MaxTries
    /\ tries' = [tries EXCEPT ![trial.run] = Append(@, NewTry)]
    /\ trial' = [trial EXCEPT !.at = "request", !.attempt = Len(tries[trial.run]) + 1, !.rounds = <<>>, !.resumed = FALSE]
    /\ UNCHANGED <<control, leftovers>>

---------------------------------------------------------------------------
(* _execute_run: one round                                                 *)

Store(rounds, error) ==
    trial' = [trial EXCEPT !.at = "backup", !.rounds = rounds, !.pending = [attempt |-> trial.attempt, rounds |-> rounds, error |-> error]]
FailRun == Store(trial.rounds, "failed")

\* A changed public file ends a deep trial with an error and fails the run of a normal one.
Boundary == IF trial.deep THEN Abort ELSE FailRun

\* The request; a receipt of an interrupted subject is used, a harness directory without one is refused.
RequestRound ==
    /\ TrialAt("request") /\ UNCHANGED <<control, tries, leftovers>>
    /\ CASE Round > LastRound -> Store(trial.rounds, "none")
         [] Round <= LastRound /\ Current.touched -> Boundary
         [] Round <= LastRound /\ ~Current.touched /\ Round \in Current.receipts -> IF trial.resumed THEN TrialTo("score") ELSE FailRun
         [] OTHER -> IF Round \in Current.dirs THEN FailRun ELSE TrialTo("subject")

\* run_subject_adapter: the receipt comes last and replaces none.
SubjectReceipt ==
    /\ Round \notin Current.receipts
    /\ WithTry([Current EXCEPT !.receipts = @ \cup {Round}]) /\ TrialTo("score") /\ UNCHANGED control

\* It exits with an error, in time or not, or finds a receipt there.
SubjectFails == FailRun /\ UNCHANGED <<control, tries>>

\* It changes a public file, makes the harness's directory, or writes the record of a later run.
SubjectStrays ==
    \/ WithTry([Current EXCEPT !.touched = TRUE]) /\ Boundary /\ UNCHANGED control
    \/ WithTry([Current EXCEPT !.dirs = @ \cup {Round}]) /\ FailRun /\ UNCHANGED control
    \/ \E r \in trial.run + 1 .. LogicalRuns :
         /\ control.state[r] = NoRecord /\ control' = [control EXCEPT !.record[r] = StrayRecord]
         /\ UNCHANGED <<trial, tries>>

RunSubject == TrialAt("subject") /\ (SubjectReceipt \/ SubjectFails \/ SubjectStrays) /\ UNCHANGED leftovers

\* A harness directory that no record knows is discarded.
HarnessRoot ==
    /\ TrialAt("score") /\ TrialTo("harness")
    /\ WithTry([Current EXCEPT !.dirs = @ \cup {Round}, !.scores[Round] = 0]) /\ UNCHANGED <<control, leftovers>>

\* run_harness_adapter: the extractor and the evaluator; the receipt replaces none.
HarnessReceipt ==
    /\ Current.scores[Round] = 0 /\ trial.harness < MaxHarness
    /\ WithTry([Current EXCEPT !.scores[Round] = trial.harness + 1])
    /\ trial' = [trial EXCEPT !.at = "scored", !.harness = @ + 1]

HarnessFails == FailRun /\ UNCHANGED tries
RunHarness == TrialAt("harness") /\ (HarnessReceipt \/ HarnessFails) /\ UNCHANGED <<control, leftovers>>

\* The round joins the record, which a deep trial stores as incomplete; an unusable receipt fails the run.
ScoreRound ==
    /\ TrialAt("scored") /\ UNCHANGED <<control, tries, leftovers>>
    /\ FailRun \/ Store(Append(trial.rounds, Current.scores[Round]), IF trial.deep THEN "incomplete" ELSE "none")

---------------------------------------------------------------------------
(* _commit_record                                                          *)

\* Fault: the registered record is replaced before it is kept.
KeepNothing ==
    /\ TrialAt("backup") /\ TrialTo("record") /\ UNCHANGED <<control, tries, leftovers>>

KeepPrevious ==
    /\ TrialAt("backup") /\ UNCHANGED <<tries, leftovers>>
    /\ LET registered == control.state[trial.run] IN
       CASE registered = NoRecord -> TrialTo("record") /\ UNCHANGED control
         [] registered # NoRecord /\ registered = control.record[trial.run] ->
              TrialTo("record") /\ control' = [control EXCEPT !.backup[trial.run] = registered]
         [] OTHER -> Abort /\ UNCHANGED control

WriteRecordFile ==
    /\ TrialAt("record") /\ TrialTo("register")
    /\ control' = [control EXCEPT !.record[trial.run] = trial.pending] /\ UNCHANGED <<tries, leftovers>>

Register ==
    /\ TrialAt("register") /\ TrialTo("unlink")
    /\ control' = [control EXCEPT !.state[trial.run] = trial.pending] /\ UNCHANGED <<tries, leftovers>>

Unlink ==
    /\ TrialAt("unlink") /\ UNCHANGED <<tries, leftovers>>
    /\ control' = [control EXCEPT !.backup[trial.run] = NoRecord]
    /\ IF trial.pending.error = "incomplete" THEN TrialTo("request") ELSE NextRun

\* _verify_registered_records: each planned run has the record that was registered.
RecordsVerified == \A r \in 1 .. LogicalRuns : control.state[r] # NoRecord /\ control.state[r] = control.record[r]

\* Everything is looked at again before the report, the receipts of a deep trial too.
Report ==
    /\ TrialAt("load") /\ trial.run > LogicalRuns /\ Abort /\ UNCHANGED <<tries, leftovers>>
    /\ control' = IF RecordsVerified /\ (trial.deep => \A r \in 1 .. LogicalRuns : ArtifactsHold(r, control.state[r]))
                  THEN [control EXCEPT !.report = control.state] ELSE control

---------------------------------------------------------------------------
(* The outside                                                             *)

\* The trial is killed, or a write fails; a process that it started lives on.
KillTrial ==
    /\ ~TrialAt("off") /\ Abort /\ UNCHANGED <<control, tries>>
    /\ leftovers' = IF trial.at \in {"subject", "harness"}
                    THEN leftovers \cup {<<trial.at, trial.run, trial.attempt, Round>>} ELSE leftovers

\* A leftover writes its receipt where none is; one that ends without changes nothing.
LeftoverEnds ==
    \E p \in leftovers :
        /\ leftovers' = leftovers \ {p} /\ UNCHANGED control
        /\ \/ p[1] = "subject" /\ tries' = [tries EXCEPT ![p[2]][p[3]].receipts = @ \cup {p[4]}] /\ UNCHANGED trial
           \/ /\ p[1] = "harness" /\ trial.harness < MaxHarness /\ tries[p[2]][p[3]].scores[p[4]] = 0
              /\ tries' = [tries EXCEPT ![p[2]][p[3]].scores[p[4]] = trial.harness + 1]
              /\ trial' = [trial EXCEPT !.harness = @ + 1]

TrialInit ==
    /\ \E deep \in BOOLEAN :
         trial = [at |-> "off", deep |-> deep, run |-> 1, starts |-> 0, attempt |-> 0, rounds |-> <<>>, resumed |-> FALSE,
                  pending |-> NoRecord, harness |-> 0]
    /\ LET none == [r \in 1 .. LogicalRuns |-> NoRecord] IN
       control = [workspace |-> "absent", state |-> none, record |-> none, backup |-> none, report |-> none]
    /\ tries = [r \in 1 .. LogicalRuns |-> <<>>] /\ leftovers = {}

TrialNext ==
    \/ StartTrial \/ PrepareState \/ LoadRecord \/ DropBackup \/ AttemptRoot \/ RequestRound \/ RunSubject \/ HarnessRoot
    \/ RunHarness \/ ScoreRound \/ KeepPrevious \/ WriteRecordFile \/ Register \/ Unlink \/ Report \/ KillTrial \/ LeftoverEnds

TrialSpec == TrialInit /\ [][TrialNext]_trialVars

---------------------------------------------------------------------------

\* Wherever a trial is killed, a registered record can be loaded again: it is in place or in its backup.
RegisteredLoads ==
    \A r \in 1 .. LogicalRuns : control.state[r] \in {NoRecord, control.record[r], control.backup[r]}

\* A registered score is the one that the harness wrote for that round of that attempt and that is still
\* there, whatever a leftover process, a resumed round or a stray record writes.
ScoresAreEvident ==
    \A r \in 1 .. LogicalRuns :
        LET record == control.state[r] IN
        /\ record # NoRecord => record.attempt \in DOMAIN tries[r] /\ ArtifactsHold(r, record)
        /\ record.error = "none" => Len(record.rounds) = LastRound
        /\ control.report[r] # NoRecord => control.report[r].error # "incomplete"

\* What the trial registered can be loaded again and is backed by what the harness wrote.
RegisteredIsEvident == RegisteredLoads /\ ScoresAreEvident

\* "process or boundary failures restart in a new attempt": an attempt whose public files were changed
\* is not continued.
ChangedAttemptIsLeft == TrialAt("request") /\ trial.resumed => ~Current.touched
=============================================================================
