---------------------------- MODULE EvolutionRun ----------------------------
(***************************************************************************)
(* An evolution run in the ledger: evolve and run_evolution around the     *)
(* strategy. The strategy's files (state, archive, seed marker, result)    *)
(* and the ledger's rows, events and statuses are written by different     *)
(* steps of one process that may be killed, resumed and cancelled; nothing *)
(* but the order of the writes and the checks at the next start keeps them *)
(* consistent. How the strategy itself searches is module Evolution.       *)
(***************************************************************************)
EXTENDS Integers, FiniteSets

CONSTANTS
    RunKinds,        \* subset of {"population", "seeded", "budgeted", "openevolve"}
    MaxLines,        \* bound on archived candidates
    MaxSearches,     \* bound on processes that are started
    MaxTears         \* bound on kills in the middle of a file

VARIABLES
    searcher,        \* the process
    evidence,        \* the files under evolution/
    book             \* the ledger's run, task, rows and events

searchVars == <<searcher, evidence, book>>

SearchAt(step) == searcher.at = step
SearchTo(step) == searcher' = [searcher EXCEPT !.at = step]
RunEnded == book.run \in {"succeeded", "failed", "cancelled"}
Concluded == evidence.status \in {"completed", "failed", "cancelled"}
FirstLines(n) == 1 .. n

\* preflight_new_run_workspace: nothing there, or the contract that an interrupted setup left
FreshWorkspace ==
    evidence.status = "none" /\ evidence.lines = 0 /\ evidence.result = "none" /\ evidence.contract # "torn"

\* _workspace_strategy_evidence: what is there is whole and readable.
WorkspaceReads == evidence.contract # "torn" /\ evidence.result # "torn"

NewBook == [run |-> "running", task |-> "ready", contract |-> FALSE, rows |-> {}, seeds |-> FALSE,
            files |-> [archive |-> {}, state |-> {}, result |-> {}], finished |-> {}, receipts |-> {}]

---------------------------------------------------------------------------
(* Creation                                                                *)

\* _evolve: options and fingerprints are resolved; a new run, or the run that is resumed
Evolves ==
    /\ SearchAt("off") /\ searcher.starts < MaxSearches
    /\ \/ /\ FreshWorkspace /\ searcher' = [searcher EXCEPT !.at = "create", !.starts = @ + 1, !.resume = FALSE, !.calls = 0]
       \/ /\ book.run # "none" /\ evidence.contract = "whole"
          /\ searcher' = [searcher EXCEPT !.at = "enter", !.starts = @ + 1, !.resume = TRUE, !.calls = 0]
    /\ UNCHANGED <<evidence, book>>

\* create_evolution_run: the row, the contract (written in place), its artifact row and an event
CreateEvolutionRun ==
    /\ \/ SearchAt("create") /\ book' = NewBook /\ UNCHANGED evidence
          /\ SearchTo(IF evidence.contract = "whole" THEN "configure" ELSE "write contract")
       \/ /\ SearchAt("write contract") /\ SearchTo("configure")
          /\ evidence' = [evidence EXCEPT !.contract = "whole"] /\ UNCHANGED book
       \/ SearchAt("configure") /\ book' = [book EXCEPT !.contract = TRUE] /\ SearchTo("created") /\ UNCHANGED evidence

\* _detach_evolution, or the same process
Detach ==
    /\ SearchAt("created") /\ \E detached \in BOOLEAN : searcher' = [searcher EXCEPT !.at = "enter", !.resume = detached]
    /\ UNCHANGED <<evidence, book>>

---------------------------------------------------------------------------
(* Admission                                                               *)

\* require_terminal_strategy_state: the files ended the way the ledger did.
TerminalMatches ==
    CASE book.run = "succeeded" -> evidence.status = "completed"
      [] book.run = "failed"    -> evidence.status = "failed"
      [] OTHER                  -> evidence.status = "cancelled"

\* run_evolution: an ended run is only validated.
Enter ==
    /\ SearchAt("enter")
    /\ SearchTo(IF evidence.contract # "whole" THEN "off" ELSE IF RunEnded THEN (IF TerminalMatches THEN "ended" ELSE "off")
                ELSE IF searcher.resume THEN "recover" ELSE "claim")
    /\ UNCHANGED <<evidence, book>>

RecoverTask ==
    /\ SearchAt("recover") /\ SearchTo("claim")
    /\ book' = [book EXCEPT !.task = IF @ = "running" THEN "uncertain" ELSE @]
    /\ UNCHANGED evidence

ClaimTask ==
    /\ SearchAt("claim")
    /\ IF book.task \in {"ready", "uncertain"} THEN SearchTo("seeds") /\ book' = [book EXCEPT !.task = "running"]
       ELSE SearchTo(IF book.run = "cancelled" /\ TerminalMatches THEN "ended" ELSE "off") /\ UNCHANGED book
    /\ UNCHANGED evidence

\* adjudicate_initial_seeds: an existing population must hold them already; the evaluator may refuse them.
AdjudicateSeeds ==
    /\ SearchAt("seeds")
    /\ IF evidence.kind # "seeded" THEN SearchTo("strategy")
       ELSE SearchTo("raised") \/ ((evidence.status = "none" \/ evidence.seeds) /\ SearchTo("strategy"))
    /\ UNCHANGED <<evidence, book>>

\* configured_strategy: the guard of the workspace, then the adapters' identities
ConfigureStrategy ==
    /\ SearchAt("strategy")
    /\ \/ SearchTo("raised")
       \/ /\ WorkspaceReads /\ evidence.kind = "openevolve"
          /\ SearchTo(IF Concluded THEN "record" ELSE "produce")
       \/ /\ WorkspaceReads /\ evidence.kind # "openevolve"
          /\ SearchTo(IF Concluded THEN "record" ELSE IF evidence.status = "none" THEN "begin"
                      ELSE IF evidence.lines > evidence.covers THEN "appended" ELSE "search")
    /\ UNCHANGED <<evidence, book>>

---------------------------------------------------------------------------
(* What the strategy does to the files                                     *)

\* The first state, with the seeds when there are any: one publication.
BeginSearch ==
    /\ SearchAt("begin") /\ SearchTo("observed")
    /\ evidence' = IF evidence.kind = "seeded" THEN [evidence EXCEPT !.status = "running", !.seeds = TRUE]
                   ELSE [evidence EXCEPT !.status = "running"]
    /\ UNCHANGED book

\* OpenEvolve: a producer in a directory of its own, then one publication of a state that has ended
RunProducer ==
    /\ SearchAt("produce") /\ SearchTo("record")
    /\ \/ book.run # "cancelled" /\ evidence' = [evidence EXCEPT !.status = "completed", !.lines = 1, !.covers = 1]
       \/ book.run # "cancelled" /\ evidence' = [evidence EXCEPT !.status = "failed"]
       \/ book.run = "cancelled" /\ evidence' = [evidence EXCEPT !.status = "cancelled"]
    /\ UNCHANGED book

\* _request_budget: the iteration and the calls of this process
Budget == <<evidence.covers + 1, searcher.calls + 1>>

\* append_candidate_generation_event: one payload for a budget
AdmitsReceipt(budget, payload) == \A receipt \in book.receipts : receipt[1] = budget => receipt[2] = payload

WithReceipt(budget, payload) ==
    [book EXCEPT !.receipts = {receipt \in @ : receipt[1] # budget} \cup {<<budget, payload>>}]

\* AgentCandidateGenerator, _emit_generation_diagnostic: a draft and its receipt
Generate ==
    /\ SearchAt("search") /\ book.run # "cancelled" /\ evidence.lines < MaxLines
    /\ IF evidence.kind # "budgeted" THEN SearchTo("draft") /\ UNCHANGED book
       ELSE \E payload \in {"one", "another"} :
              IF AdmitsReceipt(Budget, payload)
              THEN searcher' = [searcher EXCEPT !.at = "draft", !.calls = @ + 1] /\ book' = WithReceipt(Budget, payload)
              ELSE SearchTo("raised strategy") /\ UNCHANGED book
    /\ UNCHANGED evidence

AppendLine ==
    /\ SearchAt("draft") /\ SearchTo("appended") /\ evidence' = [evidence EXCEPT !.lines = @ + 1] /\ UNCHANGED book

CommitSearch ==
    /\ SearchAt("appended") /\ SearchTo("observed") /\ evidence' = [evidence EXCEPT !.covers = evidence.lines] /\ UNCHANGED book

\* record_committed_seed_admission: the state and the marker agree, then the rows
SeedsRecorded == [book EXCEPT !.seeds = @ \/ evidence.seeds]

\* observe, _observe_evolution: after each state
ObserveState == SearchAt("observed") /\ SearchTo("search") /\ book' = SeedsRecorded /\ UNCHANGED evidence

\* The strategy ends; a cancel is noticed here.
ConcludeSearch ==
    /\ SearchAt("search") /\ SearchTo("record")
    /\ \E status \in IF book.run = "cancelled" THEN {"cancelled"} ELSE IF evidence.lines = 0 THEN {"failed"} ELSE {"completed", "failed"} :
         evidence' = [evidence EXCEPT !.status = status]
    /\ UNCHANGED book

\* An error of the strategy, the evaluator or the storage
RaiseSearch ==
    /\ searcher.at \in {"begin", "produce", "search", "draft", "appended", "observed"} /\ SearchTo("raised strategy")
    /\ UNCHANGED <<evidence, book>>

---------------------------------------------------------------------------
(* The ledger's evidence                                                   *)

RecordSeeds ==
    /\ searcher.at \in {"record", "ended"} /\ book' = SeedsRecorded /\ UNCHANGED evidence
    /\ SearchTo(IF SearchAt("record") THEN "index" ELSE "index again")

\* _index_evolution_candidate_integrity_artifacts: every record once, in the order of the archive
IndexRecords ==
    /\ searcher.at \in {"index", "index again"} /\ evidence.covers = evidence.lines
    /\ IF book.rows = FirstLines(evidence.lines)
       THEN SearchTo(IF SearchAt("index") THEN "write result" ELSE "off") /\ UNCHANGED book
       ELSE book' = [book EXCEPT !.rows = @ \cup {Cardinality(@) + 1}] /\ UNCHANGED searcher
    /\ UNCHANGED evidence

\* result.json, written in place
WriteResult ==
    /\ SearchAt("write result") /\ SearchTo("files")
    /\ evidence' = [evidence EXCEPT !.result = evidence.status] /\ UNCHANGED book

\* What a row of a file pins
Snapshot == [archive |-> {evidence.lines}, state |-> {evidence.status}, result |-> {evidence.result}]

\* The rows of the archive, the state and the result, each where there is none yet
RecordFiles ==
    /\ SearchAt("files") /\ UNCHANGED evidence
    /\ LET missing == {f \in {"archive", "state", "result"} : book.files[f] = {}}
           first == IF "archive" \in missing THEN "archive" ELSE IF "state" \in missing THEN "state" ELSE "result"
       IN IF missing = {} THEN SearchTo("finished") /\ UNCHANGED book
          ELSE book' = [book EXCEPT !.files[first] = Snapshot[first]] /\ UNCHANGED searcher

FinishEvent ==
    /\ SearchAt("finished") /\ SearchTo("finish") /\ book' = [book EXCEPT !.finished = @ \cup {evidence.status}]
    /\ UNCHANGED evidence

\* finish_task; a cancel has settled it already
FinishedTask(ok) == IF book.task # "running" THEN book ELSE [book EXCEPT !.task = IF ok THEN "succeeded" ELSE "failed"]

\* Fault: the task is finished before the evidence is recorded.
FinishEarly ==
    /\ searcher.at \in {"index", "finish"} /\ SearchTo("settle")
    /\ book' = FinishedTask(evidence.status = "completed") /\ UNCHANGED evidence

FinishSearch ==
    /\ SearchAt("finish") /\ SearchTo("settle")
    /\ book' = (IF evidence.status = "cancelled" THEN book ELSE FinishedTask(evidence.status = "completed"))
    /\ UNCHANGED evidence

\* The exception path: what the state covers is indexed, or nothing; without a strategy the whole archive is.
IndexRaised ==
    /\ searcher.at \in {"raised", "raised strategy"} /\ SearchTo("fail")
    /\ \/ UNCHANGED book
       \/ book' = [book EXCEPT !.rows = @ \cup FirstLines(IF SearchAt("raised") THEN evidence.lines ELSE evidence.covers)]
    /\ UNCHANGED evidence

FailSearch == SearchAt("fail") /\ SearchTo("settle") /\ book' = FinishedTask(FALSE) /\ UNCHANGED evidence

SettleRun ==
    /\ SearchAt("settle") /\ SearchTo("off")
    /\ book' = [book EXCEPT !.run = IF @ = "cancelled" \/ book.task = "running" THEN @ ELSE book.task]
    /\ UNCHANGED evidence

---------------------------------------------------------------------------
(* The outside                                                             *)

\* cancel of a run: a detached process is killed, another notices.
CancelRun ==
    /\ book.run = "running"
    /\ book' = [book EXCEPT !.run = "cancelled", !.task = IF @ \in {"succeeded", "failed"} THEN @ ELSE "cancelled"]
    /\ (UNCHANGED searcher \/ (searcher.resume /\ ~SearchAt("off") /\ SearchTo("off"))) /\ UNCHANGED evidence

KillSearch == ~SearchAt("off") /\ SearchTo("off") /\ UNCHANGED <<evidence, book>>

\* A kill in the middle of a file that is written in place
TearFile ==
    /\ searcher.tears < MaxTears /\ searcher.at \in {"write contract", "write result"}
    /\ searcher' = [searcher EXCEPT !.at = "off", !.tears = @ + 1]
    /\ evidence' = IF SearchAt("write contract") THEN [evidence EXCEPT !.contract = "torn"] ELSE [evidence EXCEPT !.result = "torn"]
    /\ UNCHANGED book

SearchInit ==
    /\ searcher = [at |-> "off", starts |-> 0, resume |-> FALSE, calls |-> 0, tears |-> 0]
    /\ \E kind \in RunKinds :
         evidence = [kind |-> kind, contract |-> "none", status |-> "none", lines |-> 0, covers |-> 0, seeds |-> FALSE, result |-> "none"]
    /\ book = [NewBook EXCEPT !.run = "none"]

SearchNext ==
    \/ Evolves \/ CreateEvolutionRun \/ Detach \/ Enter \/ RecoverTask \/ ClaimTask \/ AdjudicateSeeds \/ ConfigureStrategy
    \/ BeginSearch \/ RunProducer \/ Generate \/ AppendLine \/ CommitSearch \/ ObserveState \/ ConcludeSearch \/ RaiseSearch
    \/ RecordSeeds \/ IndexRecords \/ WriteResult \/ RecordFiles \/ FinishEvent \/ FinishSearch
    \/ IndexRaised \/ FailSearch \/ SettleRun \/ CancelRun \/ KillSearch \/ TearFile

SearchSpec == SearchInit /\ [][SearchNext]_searchVars

---------------------------------------------------------------------------

\* _materialization_artifact_snapshots: the rows pin what the files hold.
RowsPinFiles == \A f \in DOMAIN book.files : book.files[f] = Snapshot[f]

\* _validate_materialization_child_events: each search that finished, finished with this result.
EventsAgree == book.finished = {evidence.result}

\* _validate_materialization_result_identity: files, rows and events tell of one result and its candidate.
ResultIdentity == RowsPinFiles /\ EventsAgree /\ evidence.result = evidence.status /\ evidence.lines > 0

\* _verified_bundle_evolution_delivery: the evidence that a delivery asks for
Deliverable ==
    ResultIdentity /\ book.contract /\ evidence.covers = evidence.lines /\ book.rows = FirstLines(evidence.lines)

\* Wherever a search was killed and resumed, a run that succeeded has the evidence that its delivery
\* will ask for: whole files, rows that pin them, one result in every event, each candidate indexed.
SucceededIsEvident ==
    book.run = "succeeded" =>
        ResultIdentity /\ evidence.status = "completed" /\ book.rows = FirstLines(evidence.lines)

\* create_evolution_run may be interrupted: "Re-run the copy after a crash between child creation and
\* linking", and a run that succeeded can be delivered.
SucceededIsDeliverable == book.run = "succeeded" => Deliverable

\* _index_evolution_candidate_integrity_artifacts: "Index only the prefix already bound by the last
\* state digest; leave the unjournaled suffix invisible to the evidence ledger."
IndexedIsCovered == book.rows \subseteq FirstLines(evidence.covers)
=============================================================================
