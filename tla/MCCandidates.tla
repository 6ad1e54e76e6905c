---------------------------- MODULE MCCandidates ----------------------------
(* Each behaviour follows the evaluator's freezing and scoring, or one search's candidates. *)
EXTENDS Candidates, Evaluators

VARIABLE flow

CandidatesInit == PipeInit /\ EvaluatorInit /\ flow \in {"candidates", "evaluators"}

CandidatesNext ==
    /\ UNCHANGED flow
    /\ \/ flow = "candidates" /\ PipeNext /\ UNCHANGED evaluatorVars
       \/ flow = "evaluators" /\ EvaluatorNext /\ UNCHANGED pipeVars

\* A call that is not killed takes its next step, and its supervisor's clock runs.
CandidatesSpec ==
    /\ CandidatesInit /\ [][CandidatesNext]_<<flow, pipeVars, evaluatorVars>>
    /\ WF_pipeVars(Steps /\ UNCHANGED <<flow, evaluatorVars>>)
=============================================================================
