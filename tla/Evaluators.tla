----------------------------- MODULE Evaluators -----------------------------
(***************************************************************************)
(* A model writes an evaluator for a contract.  It is probed, audited by a *)
(* second request, probed again and frozen; from then on searches score    *)
(* with it, and solvers get a copy as guidance.  Several calls may compile *)
(* for one workspace.  The evaluator is a program: while it is probed or   *)
(* scores it may rewrite its own files or the evidence it scores.          *)
(***************************************************************************)
EXTENDS Integers, FiniteSets

CONSTANTS
    Compilers,
    EvaluatorPrograms, \* evaluator programs a model may answer with
    MaxRewrites,     \* bound on what evaluators and users rewrite
    MaxScores,       \* bound on evaluations
    MaxStops         \* bound on kills and on cancellations

ASSUME EvaluatorAssumption == {"none", "error"} \cap EvaluatorPrograms = {}

VARIABLES
    compiler,        \* compile_evaluator_bundle
    frozen,          \* evaluator-bundle
    scoring,         \* the solver's scoring directory
    scorer,          \* FrozenEvaluatorBundle.__call__
    scores,          \* the reports returned: what scored them, and whether the evidence stayed
    spent

evaluatorVars == <<compiler, frozen, scoring, scorer, scores, spent>>

NoProgram == "none"
CompilerIdle == [pc |-> "idle", draft |-> NoProgram, staged |-> NoProgram, probed |-> NoProgram, audited |-> NoProgram, result |-> NoProgram]
Unfrozen == [src |-> NoProgram, sealed |-> NoProgram, probed |-> NoProgram, audited |-> NoProgram]
ScorerIdle == [pc |-> "idle", pin |-> NoProgram, evidence |-> 0, now |-> 0, by |-> NoProgram]

CompilerAt(c, pc) == compiler[c].pc = pc
CompilerTo(c, pc) == compiler' = [compiler EXCEPT ![c].pc = pc]
CompilerEnds(c, result) == compiler' = [compiler EXCEPT ![c] = [CompilerIdle EXCEPT !.pc = "ended", !.result = result]]
Spend(what) == spent' = [spent EXCEPT ![what] = @ + 1]

IsFrozen == frozen.src # NoProgram

\* load_evaluator_bundle: the files agree with the manifest that was written with them.
LoadHolds == IsFrozen /\ frozen.src = frozen.sealed

---------------------------------------------------------------------------
(* compile_evaluator_bundle                                                *)

\* A frozen bundle is verified and used as it is.
CompileStart(c) ==
    /\ CompilerAt(c, "idle")
    /\ IF IsFrozen THEN CompilerEnds(c, IF LoadHolds THEN frozen.sealed ELSE "error")
       ELSE CompilerTo(c, "request")
    /\ UNCHANGED <<frozen, scoring, scorer, scores, spent>>

\* The compiler's request, _parse_envelope, _validate_source: an answer or an error.
CompileRequest(c) ==
    /\ CompilerAt(c, "request")
    /\ \/ \E s \in EvaluatorPrograms : compiler' = [compiler EXCEPT ![c].pc = "probe", ![c].draft = s, ![c].staged = s]
       \/ CompilerEnds(c, "error")
    /\ UNCHANGED <<frozen, scoring, scorer, scores, spent>>

\* An evaluator that is being probed rewrites itself, and does not put its own text back.
RewriteStaged(c) ==
    /\ compiler[c].pc \in {"probe", "audited"} /\ spent.rewrites < MaxRewrites /\ Spend("rewrites")
    /\ \E s \in EvaluatorPrograms \ {compiler[c].draft} : compiler' = [compiler EXCEPT ![c].staged = s]
    /\ UNCHANGED <<frozen, scoring, scorer, scores>>

\* _preflight: every probe must get its validity, its constraint's code and its place in the order.
\* The last probe runs the file as the ones before it left it.
CompileProbe(c) ==
    /\ CompilerAt(c, "probe")
    /\ \/ \E s \in {compiler[c].draft, compiler[c].staged} :
            compiler' = [compiler EXCEPT ![c].pc = "probed", ![c].probed = s]
       \/ CompilerEnds(c, "error")
    /\ UNCHANGED <<frozen, scoring, scorer, scores, spent>>

\* The staged files still have the digests taken before the probes.
StagedAsWritten(c) == compiler[c].staged = compiler[c].draft

\* _compile_audit_suite: a second, isolated request for probes of the same evaluator.
CompileAudit(c) ==
    /\ CompilerAt(c, "probed")
    /\ \/ StagedAsWritten(c) /\ CompilerTo(c, "audited")
       \/ CompilerEnds(c, "error")
    /\ UNCHANGED <<frozen, scoring, scorer, scores, spent>>

CompileAuditProbe(c) ==
    /\ CompilerAt(c, "audited")
    /\ \/ \E s \in {compiler[c].draft, compiler[c].staged} :
            compiler' = [compiler EXCEPT ![c].pc = "sealing", ![c].audited = s]
       \/ CompilerEnds(c, "error")
    /\ UNCHANGED <<frozen, scoring, scorer, scores, spent>>

\* Fault: the staged files are not looked at again after the audit.
CompileSealBlind(c) ==
    /\ CompilerAt(c, "sealing") /\ CompilerTo(c, "replace")
    /\ UNCHANGED <<frozen, scoring, scorer, scores, spent>>

\* The files are compared again, get their manifest and become read-only.
CompileSeal(c) ==
    /\ CompilerAt(c, "sealing")
    /\ IF StagedAsWritten(c) THEN CompilerTo(c, "replace") ELSE CompilerEnds(c, "error")
    /\ UNCHANGED <<frozen, scoring, scorer, scores, spent>>

Sealed(c) == [src |-> compiler[c].staged, sealed |-> compiler[c].staged,
              probed |-> compiler[c].probed, audited |-> compiler[c].audited]

\* The rename onto a directory that another call made meanwhile fails.  When the error says that the
\* file exists the other bundle is verified and used; a directory that is not empty may give another one.
CompileFreeze(c) ==
    /\ CompilerAt(c, "replace")
    /\ \/ ~IsFrozen /\ frozen' = Sealed(c) /\ CompilerEnds(c, compiler[c].staged)
       \/ IsFrozen /\ LoadHolds /\ CompilerEnds(c, frozen.sealed) /\ UNCHANGED frozen
       \/ IsFrozen /\ CompilerEnds(c, "error") /\ UNCHANGED frozen
    /\ UNCHANGED <<scoring, scorer, scores, spent>>

\* A kill, a cancellation or an exhausted budget; the staging directory is nobody's.
CompileStops(c) ==
    /\ compiler[c].pc \notin {"idle", "ended"} /\ spent.stops < MaxStops
    /\ Spend("stops") /\ compiler' = [compiler EXCEPT ![c] = CompilerIdle]
    /\ UNCHANGED <<frozen, scoring, scorer, scores>>

---------------------------------------------------------------------------
(* SolverScoringContract.stage: guidance for a solver                      *)

StageScoring(c) ==
    /\ CompilerAt(c, "ended") /\ compiler[c].result \in EvaluatorPrograms
    /\ scoring = NoProgram /\ scoring' = compiler[c].result
    /\ UNCHANGED <<compiler, frozen, scorer, scores, spent>>

---------------------------------------------------------------------------
(* FrozenEvaluatorBundle.__call__                                          *)

\* The bundle is loaded with the fingerprint of the search, then the evidence is digested.
ScoreStart(c) ==
    /\ scorer.pc = "idle" /\ Cardinality(scores) < MaxScores
    /\ CompilerAt(c, "ended") /\ compiler[c].result \in EvaluatorPrograms
    /\ LoadHolds /\ frozen.sealed = compiler[c].result
    /\ scorer' = [scorer EXCEPT !.pc = "run", !.pin = compiler[c].result, !.evidence = scorer.now]
    /\ UNCHANGED <<compiler, frozen, scoring, scores, spent>>

\* Users or the evaluator itself rewrite the bundle, and do not put its text back, or the evidence.
RewriteFrozen ==
    /\ IsFrozen /\ spent.rewrites < MaxRewrites /\ Spend("rewrites")
    /\ \E s \in EvaluatorPrograms \ {frozen.sealed} : frozen' = [frozen EXCEPT !.src = s]
    /\ UNCHANGED <<compiler, scoring, scorer, scores>>

RewriteEvidence ==
    /\ spent.rewrites < MaxRewrites /\ Spend("rewrites")
    /\ scorer' = [scorer EXCEPT !.now = @ + 1]
    /\ UNCHANGED <<compiler, frozen, scoring, scores>>

\* _run_evaluator
ScoreRun ==
    /\ scorer.pc = "run"
    /\ \/ scorer' = [scorer EXCEPT !.pc = "check", !.by = frozen.src]
       \/ scorer' = [ScorerIdle EXCEPT !.now = scorer.now]
    /\ UNCHANGED <<compiler, frozen, scoring, scores, spent>>

Report == [pin |-> scorer.pin, by |-> scorer.by, evidenceStayed |-> scorer.now = scorer.evidence]

\* The evidence has its digests, and the bundle still loads with the same fingerprint.
ScoreCheck ==
    /\ scorer.pc = "check"
    /\ scores' = IF scorer.now = scorer.evidence /\ LoadHolds /\ frozen.sealed = scorer.pin
                 THEN scores \cup {Report} ELSE scores
    /\ scorer' = [ScorerIdle EXCEPT !.now = scorer.now]
    /\ UNCHANGED <<compiler, frozen, scoring, spent>>

---------------------------------------------------------------------------

EvaluatorInit ==
    /\ compiler = [c \in Compilers |-> CompilerIdle]
    /\ frozen = Unfrozen /\ scoring = NoProgram /\ scorer = ScorerIdle /\ scores = {}
    /\ spent = [rewrites |-> 0, stops |-> 0]

EvaluatorNext ==
    \/ \E c \in Compilers :
         \/ CompileStart(c) \/ CompileRequest(c) \/ RewriteStaged(c) \/ CompileProbe(c) \/ CompileAudit(c)
         \/ CompileAuditProbe(c) \/ CompileSeal(c) \/ CompileFreeze(c) \/ CompileStops(c)
         \/ StageScoring(c) \/ ScoreStart(c)
    \/ RewriteFrozen \/ RewriteEvidence \/ ScoreRun \/ ScoreCheck

EvaluatorSpec == EvaluatorInit /\ [][EvaluatorNext]_evaluatorVars

---------------------------------------------------------------------------

\* What is frozen is the evaluator that passed the probes and the audit, although it ran and could
\* write before it was sealed.
FrozenIsAudited == frozen.sealed = frozen.probed /\ frozen.sealed = frozen.audited

\* All calls that succeed use one evaluator, and so does the guidance of the solvers: a frozen bundle
\* is not replaced.
OneEvaluator ==
    /\ \A c \in Compilers : compiler[c].result \in EvaluatorPrograms => compiler[c].result = frozen.sealed
    /\ scoring \in {NoProgram, frozen.sealed}

\* A report that is returned comes from the evaluator its search was started with, over evidence that
\* is as it was before the evaluation.
ScoredAsPinned == \A r \in scores : r.by = r.pin /\ r.evidenceStayed

\* Every score comes from the one evaluator that was probed, audited and frozen.
ScoredByAudited == FrozenIsAudited /\ OneEvaluator /\ ScoredAsPinned
=============================================================================
