----------------------------- MODULE MCJournals -----------------------------
(* What processes keep for their successors when they are killed. Each behaviour follows one of four flows:  *)
(* programs handed over as seeds, bundles published to an archive, a search in the ledger, an effect trial. *)
EXTENDS Handoff, BundlePublication, EvolutionRun, EffectTrial, TLC

VARIABLE flow

Lineage == [p \in Programs |-> IF p = "child" THEN "root" ELSE NoParent]
Alike == Permutations(Exporters) \cup Permutations(Contents) \cup Permutations(Batches) \cup Permutations(Publishers)

\* A flow that is not followed starts in one state.
JournalsInit ==
    /\ flow \in {"seeds", "bundles", "search", "trial"}
    /\ HandoffInit /\ (flow # "seeds" => native)
    /\ BundleInit
    /\ SearchInit /\ (flow # "search" => evidence.kind = "population")
    /\ TrialInit /\ (flow # "trial" => ~trial.deep)

JournalsNext ==
    /\ UNCHANGED flow
    /\ \/ flow = "seeds" /\ HandoffNext /\ UNCHANGED <<bundleVars, searchVars, trialVars>>
       \/ flow = "bundles" /\ BundleNext /\ UNCHANGED <<handoffVars, searchVars, trialVars>>
       \/ flow = "search" /\ SearchNext /\ UNCHANGED <<handoffVars, bundleVars, trialVars>>
       \/ flow = "trial" /\ TrialNext /\ UNCHANGED <<handoffVars, bundleVars, searchVars>>

JournalsSpec == JournalsInit /\ [][JournalsNext]_<<flow, handoffVars, bundleVars, searchVars, trialVars>>
=============================================================================
