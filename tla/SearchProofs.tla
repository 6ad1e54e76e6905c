---------------------------- MODULE SearchProofs ----------------------------
(***************************************************************************)
(* Proofs about a search: the evaluators that score its candidates and the  *)
(* pipeline that runs them, for any number of calls, compilers, writes and  *)
(* faults, and the population strategy that resumes after kills.            *)
(***************************************************************************)
EXTENDS Candidates, Evaluators, Evolution, FiniteSetTheorems, SequenceTheorems, TLAPS

-----------------------------------------------------------------------------
(* The evaluators: an evaluator that rewrites itself never gets its text    *)
(* back, so one comparison after a probe vouches for what was probed.       *)

CompilerRow == [pc : {"idle", "request", "probe", "probed", "audited", "sealing", "replace", "ended"},
                draft : EvaluatorPrograms \cup {NoProgram}, staged : EvaluatorPrograms \cup {NoProgram},
                probed : EvaluatorPrograms \cup {NoProgram}, audited : EvaluatorPrograms \cup {NoProgram},
                result : EvaluatorPrograms \cup {NoProgram, "error"}]
FrozenRow   == [src : EvaluatorPrograms \cup {NoProgram}, sealed : EvaluatorPrograms \cup {NoProgram},
                probed : EvaluatorPrograms \cup {NoProgram}, audited : EvaluatorPrograms \cup {NoProgram}]
ScorerRow   == [pc : {"idle", "run", "check"}, pin : EvaluatorPrograms \cup {NoProgram}, evidence : Nat, now : Nat,
                by : EvaluatorPrograms \cup {NoProgram}]

EvaluatorTypeOK ==
    /\ compiler \in [Compilers -> CompilerRow]
    /\ frozen \in FrozenRow
    /\ scorer \in ScorerRow

\* A bundle is there with its manifest, or not at all.
FrozenWithSeal == frozen.src = NoProgram <=> frozen.sealed = NoProgram

\* What a compiler knows about the program it has staged, from one comparison to the next.
StagedIsProbed ==
    \A c \in Compilers :
       /\ compiler[c].pc \in {"probe", "probed", "audited", "sealing", "replace"} => compiler[c].draft \in EvaluatorPrograms
       /\ compiler[c].pc = "probed" => compiler[c].probed \in {compiler[c].draft, compiler[c].staged}
       /\ compiler[c].pc \in {"audited", "sealing", "replace"} => compiler[c].probed = compiler[c].draft
       /\ compiler[c].pc = "sealing" => compiler[c].audited \in {compiler[c].draft, compiler[c].staged}
       /\ compiler[c].pc = "replace" =>
             compiler[c].staged = compiler[c].draft /\ compiler[c].audited = compiler[c].draft

\* While a score is made there is a bundle, and if it loads afterwards it is what scored.
ScorerRanFrozen ==
    /\ scorer.pc \in {"run", "check"} => frozen.src # NoProgram
    /\ scorer.pc = "check" /\ frozen.src = frozen.sealed => scorer.by = frozen.sealed

EvaluatorInv ==
    /\ EvaluatorTypeOK
    /\ FrozenWithSeal
    /\ StagedIsProbed
    /\ ScorerRanFrozen
    /\ ScoredByAudited

LEMMA EvaluatorInvInit == EvaluatorInit => EvaluatorInv
  <1> SUFFICES ASSUME EvaluatorInit PROVE EvaluatorInv
    OBVIOUS
  <1>1. EvaluatorTypeOK
    BY DEF EvaluatorInit, EvaluatorTypeOK, CompilerRow, FrozenRow, ScorerRow, CompilerIdle, Unfrozen, ScorerIdle
  <1>2. FrozenWithSeal /\ StagedIsProbed /\ ScorerRanFrozen
    BY DEF EvaluatorInit, FrozenWithSeal, StagedIsProbed, ScorerRanFrozen, CompilerIdle, Unfrozen, ScorerIdle
  <1>3. ScoredByAudited
    BY EvaluatorAssumption
       DEF EvaluatorInit, ScoredByAudited, FrozenIsAudited, OneEvaluator, ScoredAsPinned, CompilerIdle, Unfrozen, NoProgram
  <1> QED
    BY <1>1, <1>2, <1>3 DEF EvaluatorInv

\* A step of one compiler that changes nothing else: its own row decides about the invariant.
LEMMA CompilerMoves ==
  ASSUME EvaluatorInv, NEW c \in Compilers, NEW row \in CompilerRow,
         compiler' = [compiler EXCEPT ![c] = row], UNCHANGED <<frozen, scoring, scorer, scores>>,
         row.pc \in {"probe", "probed", "audited", "sealing", "replace"} => row.draft \in EvaluatorPrograms,
         row.pc = "probed" => row.probed \in {row.draft, row.staged},
         row.pc \in {"audited", "sealing", "replace"} => row.probed = row.draft,
         row.pc = "sealing" => row.audited \in {row.draft, row.staged},
         row.pc = "replace" => row.staged = row.draft /\ row.audited = row.draft,
         row.result \in EvaluatorPrograms => row.result = frozen.sealed
  PROVE  EvaluatorInv'
  <1>1. /\ compiler' \in [Compilers -> CompilerRow] /\ compiler'[c] = row
        /\ \A d \in Compilers : d # c => compiler'[d] = compiler[d]
    BY DEF EvaluatorInv, EvaluatorTypeOK
  <1>2. EvaluatorTypeOK'
    BY <1>1 DEF EvaluatorInv, EvaluatorTypeOK
  <1>3. StagedIsProbed'
    <2> SUFFICES ASSUME NEW d \in Compilers
                 PROVE  /\ compiler'[d].pc \in {"probe", "probed", "audited", "sealing", "replace"}
                             => compiler'[d].draft \in EvaluatorPrograms
                        /\ compiler'[d].pc = "probed" => compiler'[d].probed \in {compiler'[d].draft, compiler'[d].staged}
                        /\ compiler'[d].pc \in {"audited", "sealing", "replace"} => compiler'[d].probed = compiler'[d].draft
                        /\ compiler'[d].pc = "sealing" => compiler'[d].audited \in {compiler'[d].draft, compiler'[d].staged}
                        /\ compiler'[d].pc = "replace" =>
                              compiler'[d].staged = compiler'[d].draft /\ compiler'[d].audited = compiler'[d].draft
      BY DEF StagedIsProbed
    <2>1. CASE d = c
      BY <1>1, <2>1
    <2>2. CASE d # c
      BY <1>1, <2>2 DEF EvaluatorInv, StagedIsProbed
    <2> QED
      BY <2>1, <2>2
  <1>4. ScoredByAudited'
    BY <1>1 DEF EvaluatorInv, ScoredByAudited, FrozenIsAudited, OneEvaluator, ScoredAsPinned
  <1>5. FrozenWithSeal' /\ ScorerRanFrozen'
    BY DEF EvaluatorInv, FrozenWithSeal, ScorerRanFrozen
  <1> QED
    BY <1>2, <1>3, <1>4, <1>5 DEF EvaluatorInv

\* A call that ends, with an error or with the evaluator that is frozen.
LEMMA CompilerEnded ==
  ASSUME EvaluatorInv, NEW c \in Compilers, NEW result \in {NoProgram, "error", frozen.sealed},
         CompilerEnds(c, result), UNCHANGED <<frozen, scoring, scorer, scores>>
  PROVE  EvaluatorInv'
  <1> DEFINE row == [CompilerIdle EXCEPT !.pc = "ended", !.result = result]
  <1>1. frozen.sealed \in EvaluatorPrograms \cup {NoProgram}
    BY DEF EvaluatorInv, EvaluatorTypeOK, FrozenRow
  <1>2. row \in CompilerRow /\ row.pc = "ended" /\ row.result = result
    BY <1>1 DEF CompilerIdle, CompilerRow
  <1>3. result \in EvaluatorPrograms => result = frozen.sealed
    BY EvaluatorAssumption DEF NoProgram
  <1>4. compiler' = [compiler EXCEPT ![c] = row]
    BY DEF CompilerEnds
  <1> HIDE DEF row
  <1> QED
    BY <1>2, <1>3, <1>4, CompilerMoves

LEMMA CompileSteps ==
  ASSUME EvaluatorInv, NEW c \in Compilers,
         \/ CompileStart(c) \/ CompileRequest(c) \/ RewriteStaged(c) \/ CompileProbe(c) \/ CompileAudit(c)
         \/ CompileAuditProbe(c) \/ CompileSeal(c) \/ CompileStops(c)
  PROVE  EvaluatorInv'
  <1> DEFINE old == compiler[c]
  <1>1. old \in CompilerRow /\ (old.result \in EvaluatorPrograms => old.result = frozen.sealed)
    BY DEF EvaluatorInv, EvaluatorTypeOK, ScoredByAudited, OneEvaluator
  <1>2. /\ old.pc \in {"probe", "probed", "audited", "sealing", "replace"} => old.draft \in EvaluatorPrograms
        /\ old.pc = "probed" => old.probed \in {old.draft, old.staged}
        /\ old.pc \in {"audited", "sealing", "replace"} => old.probed = old.draft
        /\ old.pc = "sealing" => old.audited \in {old.draft, old.staged}
    BY DEF EvaluatorInv, StagedIsProbed
  <1>3. compiler \in [Compilers -> CompilerRow]
    BY DEF EvaluatorInv, EvaluatorTypeOK
  <1>4. CASE CompileStart(c)
    <2>1. CASE CompilerTo(c, "request")
      <3> DEFINE row == [old EXCEPT !.pc = "request"]
      <3>1. row \in CompilerRow /\ row.pc = "request" /\ row.result = old.result
        BY <1>1 DEF CompilerRow
      <3>2. compiler' = [compiler EXCEPT ![c] = row] /\ UNCHANGED <<frozen, scoring, scorer, scores>>
        BY <1>3, <1>4, <2>1 DEF CompilerTo, CompileStart
      <3> HIDE DEF row
      <3> QED
        BY <1>1, <3>1, <3>2, CompilerMoves
    <2>2. CASE CompilerEnds(c, frozen.sealed) \/ CompilerEnds(c, "error")
      BY <1>4, <2>2, CompilerEnded DEF CompileStart
    <2> QED
      BY <1>4, <2>1, <2>2 DEF CompileStart
  <1>5. CASE CompileRequest(c)
    <2>1. ASSUME NEW s \in EvaluatorPrograms,
                 compiler' = [compiler EXCEPT ![c].pc = "probe", ![c].draft = s, ![c].staged = s]
          PROVE  EvaluatorInv'
      <3> DEFINE row == [old EXCEPT !.pc = "probe", !.draft = s, !.staged = s]
      <3>1. row \in CompilerRow /\ row.pc = "probe" /\ row.draft = s /\ row.result = old.result
        BY <1>1 DEF CompilerRow
      <3>2. compiler' = [compiler EXCEPT ![c] = row] /\ UNCHANGED <<frozen, scoring, scorer, scores>>
        BY <1>3, <1>5, <2>1 DEF CompileRequest
      <3> HIDE DEF row
      <3> QED
        BY <1>1, <3>1, <3>2, CompilerMoves
    <2>2. CASE CompilerEnds(c, "error")
      BY <1>5, <2>2, CompilerEnded DEF CompileRequest
    <2> QED
      BY <1>5, <2>1, <2>2 DEF CompileRequest
  <1>6. CASE RewriteStaged(c)
    <2>1. PICK s \in EvaluatorPrograms \ {old.draft} : compiler' = [compiler EXCEPT ![c].staged = s]
      BY <1>6 DEF RewriteStaged
    <2> DEFINE row == [old EXCEPT !.staged = s]
    <2>2. /\ row \in CompilerRow /\ row.pc = old.pc /\ row.draft = old.draft /\ row.probed = old.probed
          /\ row.result = old.result
      BY <1>1 DEF CompilerRow
    <2>3. compiler' = [compiler EXCEPT ![c] = row] /\ UNCHANGED <<frozen, scoring, scorer, scores>>
      BY <1>3, <1>6, <2>1 DEF RewriteStaged
    <2>4. old.pc \in {"probe", "audited"}
      BY <1>6 DEF RewriteStaged
    <2> HIDE DEF row
    <2> QED
      BY <1>1, <1>2, <2>2, <2>3, <2>4, CompilerMoves
  <1>7. CASE CompileProbe(c)
    <2>1. ASSUME NEW s \in {old.draft, old.staged},
                 compiler' = [compiler EXCEPT ![c].pc = "probed", ![c].probed = s]
          PROVE  EvaluatorInv'
      <3> DEFINE row == [old EXCEPT !.pc = "probed", !.probed = s]
      <3>1. /\ row \in CompilerRow /\ row.pc = "probed" /\ row.draft = old.draft /\ row.staged = old.staged
            /\ row.probed = s /\ row.result = old.result
        BY <1>1 DEF CompilerRow
      <3>2. compiler' = [compiler EXCEPT ![c] = row] /\ UNCHANGED <<frozen, scoring, scorer, scores>>
        BY <1>3, <1>7, <2>1 DEF CompileProbe
      <3>3. old.draft \in EvaluatorPrograms
        BY <1>2, <1>7 DEF CompileProbe, CompilerAt
      <3> HIDE DEF row
      <3> QED
        BY <1>1, <3>1, <3>2, <3>3, CompilerMoves
    <2>2. CASE CompilerEnds(c, "error")
      BY <1>7, <2>2, CompilerEnded DEF CompileProbe
    <2> QED
      BY <1>7, <2>1, <2>2 DEF CompileProbe
  <1>8. CASE CompileAudit(c)
    <2>1. CASE StagedAsWritten(c) /\ CompilerTo(c, "audited")
      <3> DEFINE row == [old EXCEPT !.pc = "audited"]
      <3>1. /\ row \in CompilerRow /\ row.pc = "audited" /\ row.draft = old.draft /\ row.probed = old.probed
            /\ row.result = old.result
        BY <1>1 DEF CompilerRow
      <3>2. compiler' = [compiler EXCEPT ![c] = row] /\ UNCHANGED <<frozen, scoring, scorer, scores>>
        BY <1>3, <1>8, <2>1 DEF CompileAudit, CompilerTo
      <3>3. old.draft \in EvaluatorPrograms /\ old.probed = old.draft
        BY <1>2, <1>8, <2>1 DEF CompileAudit, CompilerAt, StagedAsWritten
      <3> HIDE DEF row
      <3> QED
        BY <1>1, <3>1, <3>2, <3>3, CompilerMoves
    <2>2. CASE CompilerEnds(c, "error")
      BY <1>8, <2>2, CompilerEnded DEF CompileAudit
    <2> QED
      BY <1>8, <2>1, <2>2 DEF CompileAudit
  <1>9. CASE CompileAuditProbe(c)
    <2>1. ASSUME NEW s \in {old.draft, old.staged},
                 compiler' = [compiler EXCEPT ![c].pc = "sealing", ![c].audited = s]
          PROVE  EvaluatorInv'
      <3> DEFINE row == [old EXCEPT !.pc = "sealing", !.audited = s]
      <3>1. /\ row \in CompilerRow /\ row.pc = "sealing" /\ row.draft = old.draft /\ row.staged = old.staged
            /\ row.probed = old.probed /\ row.audited = s /\ row.result = old.result
        BY <1>1 DEF CompilerRow
      <3>2. compiler' = [compiler EXCEPT ![c] = row] /\ UNCHANGED <<frozen, scoring, scorer, scores>>
        BY <1>3, <1>9, <2>1 DEF CompileAuditProbe
      <3>3. old.draft \in EvaluatorPrograms /\ old.probed = old.draft
        BY <1>2, <1>9 DEF CompileAuditProbe, CompilerAt
      <3> HIDE DEF row
      <3> QED
        BY <1>1, <3>1, <3>2, <3>3, CompilerMoves
    <2>2. CASE CompilerEnds(c, "error")
      BY <1>9, <2>2, CompilerEnded DEF CompileAuditProbe
    <2> QED
      BY <1>9, <2>1, <2>2 DEF CompileAuditProbe
  <1>10. CASE CompileSeal(c)
    <2>1. CASE StagedAsWritten(c) /\ CompilerTo(c, "replace")
      <3> DEFINE row == [old EXCEPT !.pc = "replace"]
      <3>1. /\ row \in CompilerRow /\ row.pc = "replace" /\ row.draft = old.draft /\ row.staged = old.staged
            /\ row.probed = old.probed /\ row.audited = old.audited /\ row.result = old.result
        BY <1>1 DEF CompilerRow
      <3>2. compiler' = [compiler EXCEPT ![c] = row] /\ UNCHANGED <<frozen, scoring, scorer, scores>>
        BY <1>3, <1>10, <2>1 DEF CompileSeal, CompilerTo
      <3>3. old.draft \in EvaluatorPrograms /\ old.probed = old.draft /\ old.staged = old.draft /\ old.audited = old.draft
        BY <1>2, <1>10, <2>1 DEF CompileSeal, CompilerAt, StagedAsWritten
      <3> HIDE DEF row
      <3> QED
        BY <1>1, <3>1, <3>2, <3>3, CompilerMoves
    <2>2. CASE CompilerEnds(c, "error")
      BY <1>10, <2>2, CompilerEnded DEF CompileSeal
    <2> QED
      BY <1>10, <2>1, <2>2 DEF CompileSeal
  <1>11. CASE CompileStops(c)
    <2>1. CompilerIdle \in CompilerRow /\ CompilerIdle.pc = "idle" /\ CompilerIdle.result \notin EvaluatorPrograms
      BY EvaluatorAssumption DEF CompilerIdle, CompilerRow, NoProgram
    <2>2. compiler' = [compiler EXCEPT ![c] = CompilerIdle] /\ UNCHANGED <<frozen, scoring, scorer, scores>>
      BY <1>11 DEF CompileStops
    <2> QED
      BY <2>1, <2>2, CompilerMoves
  <1> QED
    BY <1>4, <1>5, <1>6, <1>7, <1>8, <1>9, <1>10, <1>11

\* The rename: the first one freezes what was probed and audited, a later one changes nothing.
LEMMA FreezeStep ==
  ASSUME EvaluatorInv, NEW c \in Compilers, CompileFreeze(c)
  PROVE  EvaluatorInv'
  <1>1. CASE ~ IsFrozen /\ frozen' = Sealed(c) /\ CompilerEnds(c, compiler[c].staged)
    <2> DEFINE src == compiler[c].staged
               row == [CompilerIdle EXCEPT !.pc = "ended", !.result = src]
    <2>1. /\ src \in EvaluatorPrograms /\ frozen' \in FrozenRow
          /\ frozen'.src = src /\ frozen'.sealed = src /\ frozen'.probed = src /\ frozen'.audited = src
      BY <1>1 DEF EvaluatorInv, EvaluatorTypeOK, StagedIsProbed, CompileFreeze, CompilerAt, Sealed, FrozenRow, CompilerRow
    <2>2. row \in CompilerRow /\ row.pc = "ended" /\ row.result = src
      BY <2>1 DEF CompilerIdle, CompilerRow
    <2>3. compiler' = [compiler EXCEPT ![c] = row]
      BY <1>1 DEF CompilerEnds
    <2> HIDE DEF row, src
    <2>4. /\ compiler' \in [Compilers -> CompilerRow] /\ compiler'[c] = row
          /\ \A d \in Compilers : d # c => compiler'[d] = compiler[d]
      BY <2>2, <2>3 DEF EvaluatorInv, EvaluatorTypeOK
    <2>5. UNCHANGED <<scoring, scorer, scores>>
      BY DEF CompileFreeze
    <2>6. frozen.src = NoProgram /\ frozen.sealed = NoProgram /\ src # NoProgram
      BY <1>1, <2>1, EvaluatorAssumption DEF EvaluatorInv, FrozenWithSeal, IsFrozen, NoProgram
    <2>7. EvaluatorTypeOK' /\ FrozenWithSeal'
      BY <2>1, <2>4, <2>5, <2>6 DEF EvaluatorInv, EvaluatorTypeOK, FrozenWithSeal
    <2>8. StagedIsProbed'
      BY <2>2, <2>4 DEF EvaluatorInv, StagedIsProbed
    <2>9. ScorerRanFrozen'
      BY <2>5, <2>6 DEF EvaluatorInv, ScorerRanFrozen
    <2>10. FrozenIsAudited' /\ ScoredAsPinned'
      BY <2>1, <2>5 DEF EvaluatorInv, ScoredByAudited, FrozenIsAudited, ScoredAsPinned
    <2>11. OneEvaluator'
      <3>1. \A d \in Compilers : compiler[d].result \notin EvaluatorPrograms
        BY <2>6, EvaluatorAssumption DEF EvaluatorInv, ScoredByAudited, OneEvaluator, NoProgram
      <3>2. scoring = NoProgram
        BY <2>6 DEF EvaluatorInv, ScoredByAudited, OneEvaluator
      <3> QED
        BY <2>1, <2>2, <2>4, <2>5, <3>1, <3>2 DEF OneEvaluator
    <2> QED
      BY <2>7, <2>8, <2>9, <2>10, <2>11 DEF EvaluatorInv, ScoredByAudited
  <1>2. CASE (CompilerEnds(c, frozen.sealed) \/ CompilerEnds(c, "error")) /\ UNCHANGED frozen
    BY <1>2, CompilerEnded DEF CompileFreeze
  <1> QED
    BY <1>1, <1>2 DEF CompileFreeze

\* Staging for a solver, the steps of a score, and those who rewrite the bundle or the evidence.
LEMMA ScoreSteps ==
  ASSUME EvaluatorInv,
         \/ \E c \in Compilers : StageScoring(c) \/ ScoreStart(c)
         \/ RewriteFrozen \/ RewriteEvidence \/ ScoreRun \/ ScoreCheck
  PROVE  EvaluatorInv'
  <1>0. compiler' = compiler
    BY DEF StageScoring, ScoreStart, RewriteFrozen, RewriteEvidence, ScoreRun, ScoreCheck
  <1>1. StagedIsProbed'
    BY <1>0 DEF EvaluatorInv, StagedIsProbed
  <1>2. ASSUME NEW c \in Compilers, StageScoring(c) PROVE EvaluatorInv'
    <2>1. OneEvaluator'
      BY <1>0, <1>2 DEF EvaluatorInv, ScoredByAudited, OneEvaluator, StageScoring
    <2> QED
      BY <1>0, <1>1, <1>2, <2>1 DEF StageScoring, EvaluatorInv, EvaluatorTypeOK, FrozenWithSeal, ScorerRanFrozen,
         ScoredByAudited, FrozenIsAudited, ScoredAsPinned
  <1>3. ASSUME NEW c \in Compilers, ScoreStart(c) PROVE EvaluatorInv'
    <2>1. /\ scorer' \in ScorerRow /\ scorer'.pc = "run"
          /\ frozen.src # NoProgram /\ UNCHANGED <<frozen, scoring, scores>>
      BY <1>3 DEF EvaluatorInv, EvaluatorTypeOK, ScorerRow, ScoreStart, LoadHolds, IsFrozen
    <2> QED
      BY <1>0, <1>1, <2>1 DEF EvaluatorInv, EvaluatorTypeOK, FrozenWithSeal, ScorerRanFrozen,
         ScoredByAudited, OneEvaluator, FrozenIsAudited, ScoredAsPinned
  <1>4. CASE RewriteFrozen
    <2>1. PICK s \in EvaluatorPrograms \ {frozen.sealed} : frozen' = [frozen EXCEPT !.src = s]
      BY <1>4 DEF RewriteFrozen
    <2>2. /\ frozen' \in FrozenRow /\ frozen'.src = s /\ s # NoProgram /\ s # frozen.sealed
          /\ frozen'.sealed = frozen.sealed /\ frozen'.probed = frozen.probed /\ frozen'.audited = frozen.audited
      BY <2>1, EvaluatorAssumption DEF EvaluatorInv, EvaluatorTypeOK, FrozenRow, NoProgram
    <2>3. frozen.sealed # NoProgram /\ UNCHANGED <<scoring, scorer, scores>>
      BY <1>4 DEF EvaluatorInv, FrozenWithSeal, RewriteFrozen, IsFrozen
    <2> QED
      BY <1>0, <1>1, <2>2, <2>3 DEF EvaluatorInv, EvaluatorTypeOK, FrozenWithSeal, ScorerRanFrozen,
         ScoredByAudited, OneEvaluator, FrozenIsAudited, ScoredAsPinned
  <1>5. CASE RewriteEvidence
    <2>1. /\ scorer' \in ScorerRow /\ scorer'.pc = scorer.pc /\ scorer'.by = scorer.by
          /\ UNCHANGED <<frozen, scoring, scores>>
      BY <1>5 DEF EvaluatorInv, EvaluatorTypeOK, ScorerRow, RewriteEvidence
    <2> QED
      BY <1>0, <1>1, <2>1 DEF EvaluatorInv, EvaluatorTypeOK, FrozenWithSeal, ScorerRanFrozen,
         ScoredByAudited, OneEvaluator, FrozenIsAudited, ScoredAsPinned
  <1>6. CASE ScoreRun
    <2>1. /\ UNCHANGED <<frozen, scoring, scores>> /\ scorer.pc = "run"
          /\ scorer' \in ScorerRow
          /\ \/ scorer'.pc = "check" /\ scorer'.by = frozen.src
             \/ scorer'.pc = "idle"
      <3>1. scorer \in ScorerRow /\ frozen \in FrozenRow /\ frozen.src \in EvaluatorPrograms \cup {NoProgram}
        BY DEF EvaluatorInv, EvaluatorTypeOK, FrozenRow
      <3>2. CASE scorer' = [scorer EXCEPT !.pc = "check", !.by = frozen.src]
        BY <1>6, <3>1, <3>2 DEF ScorerRow, ScoreRun
      <3>3. CASE scorer' = [ScorerIdle EXCEPT !.now = scorer.now]
        BY <1>6, <3>1, <3>3 DEF ScorerRow, ScoreRun, ScorerIdle
      <3> QED
        BY <1>6, <3>2, <3>3 DEF ScoreRun
    <2> QED
      BY <1>0, <1>1, <2>1 DEF EvaluatorInv, EvaluatorTypeOK, FrozenWithSeal, ScorerRanFrozen,
         ScoredByAudited, OneEvaluator, FrozenIsAudited, ScoredAsPinned
  <1>7. CASE ScoreCheck
    <2>1. scorer' \in ScorerRow /\ scorer'.pc = "idle" /\ UNCHANGED <<frozen, scoring>>
      BY <1>7 DEF EvaluatorInv, EvaluatorTypeOK, ScorerRow, ScoreCheck, ScorerIdle
    <2>2. ScoredAsPinned'
      <3>1. CASE scorer.now = scorer.evidence /\ LoadHolds /\ frozen.sealed = scorer.pin
        <4>1. Report.by = Report.pin /\ Report.evidenceStayed
          BY <1>7, <3>1 DEF EvaluatorInv, ScorerRanFrozen, LoadHolds, ScoreCheck, Report
        <4>2. scores' = scores \cup {Report}
          BY <1>7, <3>1 DEF ScoreCheck
        <4> QED
          BY <4>1, <4>2 DEF EvaluatorInv, ScoredByAudited, ScoredAsPinned
      <3>2. CASE ~ (scorer.now = scorer.evidence /\ LoadHolds /\ frozen.sealed = scorer.pin)
        BY <1>7, <3>2 DEF EvaluatorInv, ScoredByAudited, ScoredAsPinned, ScoreCheck
      <3> QED
        BY <3>1, <3>2
    <2> QED
      BY <1>0, <1>1, <2>1, <2>2 DEF EvaluatorInv, EvaluatorTypeOK, FrozenWithSeal, ScorerRanFrozen,
         ScoredByAudited, OneEvaluator, FrozenIsAudited
  <1> QED
    BY <1>2, <1>3, <1>4, <1>5, <1>6, <1>7

\* compile_evaluator_bundle and FrozenEvaluatorBundle.__call__, with evaluators that rewrite themselves
\* and several compilers: what is frozen was probed and audited, everyone uses that one, and a report
\* comes from it over evidence that stayed.
THEOREM ScoresAreAudited == EvaluatorSpec => []ScoredByAudited
  <1>1. EvaluatorInv /\ [EvaluatorNext]_evaluatorVars => EvaluatorInv'
    <2> SUFFICES ASSUME EvaluatorInv, [EvaluatorNext]_evaluatorVars PROVE EvaluatorInv'
      OBVIOUS
    <2>1. CASE EvaluatorNext
      BY <2>1, CompileSteps, FreezeStep, ScoreSteps DEF EvaluatorNext
    <2>2. CASE UNCHANGED evaluatorVars
      BY <2>2 DEF evaluatorVars, EvaluatorInv, EvaluatorTypeOK, FrozenWithSeal, StagedIsProbed, ScorerRanFrozen,
         ScoredByAudited, FrozenIsAudited, OneEvaluator, ScoredAsPinned
    <2> QED
      BY <2>1, <2>2
  <1>2. EvaluatorInv => ScoredByAudited
    BY DEF EvaluatorInv
  <1> QED
    BY <1>1, <1>2, EvaluatorInvInit, PTL DEF EvaluatorSpec

-----------------------------------------------------------------------------
(* The pipeline: what its call knows at each step, although the candidate   *)
(* and users write at any time.                                             *)

Statuses  == {"none", "succeeded", "failed", "timed_out"}
FileRow   == [c : Contents \cup {"none"}, v : Nat]
SeenRow   == [stamps : [{"source", "input", "output", "harness"} -> Nat],
              output : Contents \cup {"none"}, source : BOOLEAN]
PipePcs   == {"idle", "workspace", "inputs", "intent", "launch", "running", "result", "cleanup", "complete",
              "recorded", "snapshot", "harness", "recheck", "manifest", "archive", "archived"}
PipeEnds  == {"none", "failed", "cancelled", "unknown", "candidate", "killed"}
PipeRow   == [pc : PipePcs, id : Nat, seen : SeenRow \cup {<< >>}, status : Statuses, outcome : PipeEnds]
ProcessRow == [group : {"none", "leader", "others", "gone"}, detached : {"none", "pipes", "silent"},
               code : {"none", "zero", "nonzero"}]
RecordsRow == [intent : BOOLEAN, result : Statuses, cleanup : {"none", "verified", "failed", "unknown"}, complete : BOOLEAN]
EvaluationRow == [made : BOOLEAN, output : Contents \cup {"none"}, score : Contents \cup {"none"},
                  report : BOOLEAN, manifest : BOOLEAN]

PipeTypeOK ==
    /\ pipeline \in PipeRow
    /\ files \in [File -> FileRow]
    /\ process \in ProcessRow
    /\ attempt \in RecordsRow
    /\ evaluation \in EvaluationRow
    /\ IsFiniteSet(DOMAIN archived)
    /\ used \in [runs : Nat, writes : Nat, faults : Nat]

\* Until its result is recorded a run has not succeeded; one that did has no group left.
RunIsUnrecorded ==
    /\ pipeline.pc \in {"inputs", "intent", "launch", "running"} => attempt.result = "none"
    /\ pipeline.pc = "result" /\ pipeline.status = "succeeded" => process.group = "gone"

Evaluating == {"snapshot", "harness", "recheck", "manifest", "archive"}

\* An evaluation has a complete record of a success, of sources that were compared with the bundle.
EvaluatedIsRecorded ==
    pipeline.pc \in Evaluating =>
       /\ attempt.result = "succeeded" /\ attempt.complete
       /\ pipeline.seen \in SeenRow /\ pipeline.seen.source

\* Each step of an evaluation has what the steps before it left.
EvaluationGrows ==
    /\ pipeline.pc \in {"harness", "recheck", "manifest", "archive"} => evaluation.made
    /\ pipeline.pc \in {"recheck", "manifest", "archive"} => evaluation.score = evaluation.output
    /\ pipeline.pc \in {"manifest", "archive"} => evaluation.report
    /\ pipeline.pc = "archive" => evaluation.manifest

PipeInv ==
    /\ PipeTypeOK
    /\ RunIsUnrecorded
    /\ EvaluatedIsRecorded
    /\ EvaluationGrows
    /\ SuccessIsEvidenced

LEMMA PipeInvInit == PipeInit => PipeInv
  <1> SUFFICES ASSUME PipeInit PROVE PipeInv
    OBVIOUS
  <1>1. DOMAIN archived = {} /\ IsFiniteSet(DOMAIN archived)
    BY FS_EmptySet DEF PipeInit
  <1>2. pipeline \in PipeRow /\ files \in [File -> FileRow]
    BY DEF PipeInit, PipelineIdle, PipeRow, PipePcs, PipeEnds, Statuses, Fresh, File, FileRow, Contents
  <1>3. process \in ProcessRow /\ attempt \in RecordsRow /\ evaluation \in EvaluationRow
        /\ used \in [runs : Nat, writes : Nat, faults : Nat]
    BY DEF PipeInit, NoProcess, ProcessRow, NoAttempt, RecordsRow, Statuses, NoEvaluation, EvaluationRow
  <1>4. RunIsUnrecorded /\ EvaluatedIsRecorded /\ EvaluationGrows
    BY DEF PipeInit, PipelineIdle, RunIsUnrecorded, EvaluatedIsRecorded, EvaluationGrows, Evaluating
  <1>5. SuccessIsEvidenced
    BY <1>1 DEF PipeInit, NoAttempt, SuccessIsEvidenced, ArchivedIsEvidenced, SuccessEndsGroup
  <1> QED
    BY <1>1, <1>2, <1>3, <1>4, <1>5 DEF PipeInv, PipeTypeOK

LEMMA GoesEffect ==
  ASSUME pipeline \in PipeRow, NEW pc \in PipePcs, Goes(pc)
  PROVE  /\ pipeline' \in PipeRow /\ pipeline'.pc = pc /\ pipeline'.id = pipeline.id
         /\ pipeline'.seen = pipeline.seen /\ pipeline'.status = pipeline.status
  BY DEF Goes, PipeRow

\* A call that is over, failed, cancelled, killed or with its candidate, has nothing left to rely on.
LEMMA PipeEnded ==
  ASSUME PipeInv, NEW outcome \in PipeEnds, pipeline' = [PipelineIdle EXCEPT !.outcome = outcome],
         UNCHANGED <<files, process, attempt, evaluation, archived>>,
         used' \in [runs : Nat, writes : Nat, faults : Nat]
  PROVE  PipeInv'
  <1>1. pipeline' \in PipeRow /\ pipeline'.pc = "idle"
    BY DEF PipelineIdle, PipeRow, PipePcs, PipeEnds, Statuses
  <1>2. PipeTypeOK' /\ RunIsUnrecorded' /\ EvaluatedIsRecorded' /\ EvaluationGrows'
    BY <1>1 DEF PipeInv, PipeTypeOK, RunIsUnrecorded, EvaluatedIsRecorded, EvaluationGrows, Evaluating
  <1> QED
    BY <1>2 DEF PipeInv, SuccessIsEvidenced, ArchivedIsEvidenced, SuccessEndsGroup

LEMMA PipeAbandons ==
  ASSUME PipeInv, NEW outcome \in PipeEnds, Abandon(outcome),
         UNCHANGED <<files, process, attempt, evaluation, archived>>,
         used' \in [runs : Nat, writes : Nat, faults : Nat]
  PROVE  PipeInv'
  BY PipeEnded DEF Abandon

\* What candidates and users write, and where processes of the candidate come and go.
LEMMA OutsideSteps ==
  ASSUME PipeInv, CandidateWrites \/ Detach \/ LeaderExits \/ DetachedExits \/ UserWrites \/ CancelRun
  PROVE  PipeInv'
  <1>0. UNCHANGED <<pipeline, attempt, evaluation, archived>>
    BY DEF CandidateWrites, Detach, LeaderExits, DetachedExits, UserWrites, CancelRun
  <1>1. EvaluatedIsRecorded' /\ EvaluationGrows' /\ ArchivedIsEvidenced'
    BY <1>0 DEF PipeInv, EvaluatedIsRecorded, EvaluationGrows, SuccessIsEvidenced, ArchivedIsEvidenced
  <1>2. files' \in [File -> FileRow] /\ used' \in [runs : Nat, writes : Nat, faults : Nat]
    <2>1. CASE CandidateWrites \/ UserWrites
      <3>1. used' \in [runs : Nat, writes : Nat, faults : Nat]
        BY <2>1 DEF CandidateWrites, UserWrites, PipeInv, PipeTypeOK
      <3>2. PICK f \in File, c \in Contents : files' = [files EXCEPT ![f] = [c |-> c, v |-> used'.writes]]
        BY <2>1 DEF CandidateWrites, UserWrites, File
      <3>3. [c |-> c, v |-> used'.writes] \in FileRow
        BY <3>1 DEF FileRow
      <3> QED
        BY <3>1, <3>2, <3>3 DEF PipeInv, PipeTypeOK
    <2>2. CASE Detach \/ LeaderExits \/ DetachedExits \/ CancelRun
      BY <2>2 DEF Detach, LeaderExits, DetachedExits, CancelRun, PipeInv, PipeTypeOK
    <2> QED
      BY <2>1, <2>2
  <1>3. process' \in ProcessRow /\ (process'.group = process.group \/ process.group = "leader")
    BY DEF CandidateWrites, Detach, LeaderExits, DetachedExits, UserWrites, CancelRun, PipeInv, PipeTypeOK, ProcessRow
  <1>4. PipeTypeOK'
    BY <1>0, <1>2, <1>3 DEF PipeInv, PipeTypeOK
  <1>5. RunIsUnrecorded' /\ SuccessEndsGroup'
    BY <1>0, <1>3 DEF PipeInv, RunIsUnrecorded, SuccessIsEvidenced, SuccessEndsGroup
  <1> QED
    BY <1>1, <1>4, <1>5 DEF PipeInv, SuccessIsEvidenced

\* A call starts, fails or is killed.
LEMMA CallSteps ==
  ASSUME PipeInv, Start \/ Fails \/ Killed \/ ReturnCandidate
  PROVE  PipeInv'
  <1>0. UNCHANGED <<files, process, attempt, evaluation, archived>>
    BY DEF Start, Fails, Killed, ReturnCandidate
  <1>1. used' \in [runs : Nat, writes : Nat, faults : Nat]
    <2>1. \/ used' = [used EXCEPT !.runs = @ + 1]
          \/ used' = [used EXCEPT !.faults = @ + 1]
          \/ used' = used
      BY DEF Start, Fails, Killed, ReturnCandidate
    <2>2. used \in [runs : Nat, writes : Nat, faults : Nat]
      BY DEF PipeInv, PipeTypeOK
    <2> QED
      BY <2>1, <2>2
  <1>2. CASE pipeline' = [PipelineIdle EXCEPT !.pc = "workspace", !.id = NextId]
    <2>1. NextId \in Nat
      BY FS_CardinalityType DEF PipeInv, PipeTypeOK, NextId
    <2>2. pipeline' \in PipeRow /\ pipeline'.pc = "workspace"
      BY <1>2, <2>1 DEF PipelineIdle, PipeRow, PipePcs, PipeEnds, Statuses
    <2>3. PipeTypeOK' /\ RunIsUnrecorded' /\ EvaluatedIsRecorded' /\ EvaluationGrows'
      BY <1>0, <1>1, <2>2 DEF PipeInv, PipeTypeOK, RunIsUnrecorded, EvaluatedIsRecorded, EvaluationGrows, Evaluating
    <2> QED
      BY <1>0, <2>3 DEF PipeInv, SuccessIsEvidenced, ArchivedIsEvidenced, SuccessEndsGroup
  <1>3. CASE \E o \in PipeEnds : pipeline' = [PipelineIdle EXCEPT !.outcome = o]
    BY <1>0, <1>1, <1>3, PipeEnded
  <1>4. \A o \in {"failed", "cancelled", "candidate", "killed"} : o \in PipeEnds
    BY DEF PipeEnds
  <1> QED
    BY <1>2, <1>3, <1>4 DEF Start, Fails, Killed, ReturnCandidate, Continues, Abandon

\* A step to the next place that leaves everything else alone, where that place asks for nothing new.
LEMMA PipeGoes ==
  ASSUME PipeInv, NEW pc \in PipePcs, Goes(pc), files' \in [File -> FileRow],
         UNCHANGED <<process, attempt, evaluation, archived, used>>,
         pc \in {"inputs", "intent", "launch", "running"} => attempt.result = "none",
         pc # "result", pc \notin Evaluating
  PROVE  PipeInv'
  <1>1. pipeline' \in PipeRow /\ pipeline'.pc = pc
    BY GoesEffect DEF PipeInv, PipeTypeOK
  <1>2. PipeTypeOK' /\ RunIsUnrecorded' /\ EvaluatedIsRecorded' /\ EvaluationGrows'
    BY <1>1 DEF PipeInv, PipeTypeOK, RunIsUnrecorded, EvaluatedIsRecorded, EvaluationGrows, Evaluating
  <1> QED
    BY <1>2 DEF PipeInv, SuccessIsEvidenced, ArchivedIsEvidenced, SuccessEndsGroup

\* From the sources in their workspace to the launch.
LEMMA LaunchSteps ==
  ASSUME PipeInv, Materialize \/ StageInputs \/ RecordIntent \/ Launch
  PROVE  PipeInv'
  <1>0. /\ pipeline \in PipeRow /\ files \in [File -> FileRow] /\ process \in ProcessRow /\ attempt \in RecordsRow
        /\ used \in [runs : Nat, writes : Nat, faults : Nat]
        /\ "failed" \in PipeEnds /\ "cancelled" \in PipeEnds
    BY DEF PipeInv, PipeTypeOK, PipeEnds
  <1>1. CASE Materialize
    <2>1. pipeline' \in PipeRow /\ pipeline'.pc = "inputs"
      BY <1>0, <1>1, GoesEffect DEF Materialize, PipePcs
    <2>2. files' \in [File -> FileRow]
      BY <1>0, <1>1 DEF Materialize, File, FileRow, Fresh, Contents
    <2>3. /\ process' \in ProcessRow /\ attempt' \in RecordsRow /\ evaluation' \in EvaluationRow
          /\ attempt'.result = "none" /\ UNCHANGED <<archived, used>>
      BY <1>1 DEF Materialize, AllocateRun, NoProcess, NoAttempt, NoEvaluation, ProcessRow, RecordsRow,
         EvaluationRow, Statuses
    <2>4. PipeTypeOK' /\ RunIsUnrecorded' /\ EvaluatedIsRecorded' /\ EvaluationGrows'
      BY <2>1, <2>2, <2>3 DEF PipeInv, PipeTypeOK, RunIsUnrecorded, EvaluatedIsRecorded, EvaluationGrows, Evaluating
    <2> QED
      BY <2>3, <2>4 DEF PipeInv, SuccessIsEvidenced, ArchivedIsEvidenced, SuccessEndsGroup
  <1>2. CASE StageInputs
    <2>1. UNCHANGED <<process, attempt, evaluation, archived, used>> /\ attempt.result = "none"
      BY <1>2 DEF StageInputs, PipelineAt, PipeInv, RunIsUnrecorded
    <2>2. CASE Goes("intent") /\ files' = [files EXCEPT !["input"] = Fresh("declared")]
      <3>1. files' \in [File -> FileRow] /\ "intent" \in PipePcs /\ "intent" \notin Evaluating
        BY <1>0, <2>2 DEF File, FileRow, Fresh, Contents, PipePcs, Evaluating
      <3> QED
        BY <2>1, <2>2, <3>1, PipeGoes
    <2>3. CASE (Abandon("failed") \/ Abandon("cancelled")) /\ UNCHANGED files
      BY <1>0, <2>1, <2>3, PipeAbandons
    <2> QED
      BY <1>2, <2>2, <2>3 DEF StageInputs
  <1>3. CASE RecordIntent
    <2>1. UNCHANGED <<files, process, evaluation, archived, used>> /\ attempt.result = "none"
      BY <1>3 DEF RecordIntent, PipelineAt, PipeInv, RunIsUnrecorded
    <2>2. CASE Goes("launch") /\ attempt' = [attempt EXCEPT !.intent = TRUE]
      <3>1. pipeline' \in PipeRow /\ pipeline'.pc = "launch"
        BY <1>0, <2>2, GoesEffect DEF PipePcs
      <3>2. attempt' \in RecordsRow /\ attempt'.result = "none"
        BY <1>0, <2>1, <2>2 DEF RecordsRow
      <3>3. PipeTypeOK' /\ RunIsUnrecorded' /\ EvaluatedIsRecorded' /\ EvaluationGrows'
        BY <2>1, <3>1, <3>2 DEF PipeInv, PipeTypeOK, RunIsUnrecorded, EvaluatedIsRecorded, EvaluationGrows, Evaluating
      <3> QED
        BY <2>1, <3>2, <3>3 DEF PipeInv, SuccessIsEvidenced, ArchivedIsEvidenced, SuccessEndsGroup
    <2>3. CASE Abandon("failed") /\ UNCHANGED attempt
      BY <1>0, <2>1, <2>3, PipeAbandons
    <2> QED
      BY <1>3, <2>2, <2>3 DEF RecordIntent
  <1>4. CASE Launch
    <2>1. UNCHANGED <<files, attempt, evaluation, archived, used>> /\ attempt.result = "none"
      BY <1>4 DEF Launch, PipelineAt, PipeInv, RunIsUnrecorded
    <2>2. CASE Goes("running") /\ process' = [process EXCEPT !.group = "leader"]
      <3>1. pipeline' \in PipeRow /\ pipeline'.pc = "running"
        BY <1>0, <2>2, GoesEffect DEF PipePcs
      <3>2. process' \in ProcessRow
        BY <1>0, <2>2 DEF ProcessRow
      <3>3. PipeTypeOK' /\ RunIsUnrecorded' /\ EvaluatedIsRecorded' /\ EvaluationGrows'
        BY <2>1, <3>1, <3>2 DEF PipeInv, PipeTypeOK, RunIsUnrecorded, EvaluatedIsRecorded, EvaluationGrows, Evaluating
      <3> QED
        BY <2>1, <3>3 DEF PipeInv, SuccessIsEvidenced, ArchivedIsEvidenced, SuccessEndsGroup
    <2>3. CASE (Abandon("failed") \/ Abandon("cancelled")) /\ UNCHANGED process
      BY <1>0, <2>1, <2>3, PipeAbandons
    <2> QED
      BY <1>4, <2>2, <2>3 DEF Launch, Continues
  <1> QED
    BY <1>1, <1>2, <1>3, <1>4

\* The supervisor calls a run a success only when it has seen that the group is gone.
LEMMA SuperviseSteps ==
  ASSUME PipeInv, SuperviseExit \/ SuperviseTimeout \/ SuperviseOverflow
  PROVE  PipeInv'
  <1>0. /\ pipeline \in PipeRow /\ process \in ProcessRow /\ used \in [runs : Nat, writes : Nat, faults : Nat]
        /\ UNCHANGED <<files, attempt, evaluation, archived>>
        /\ pipeline.pc = "running"
    BY DEF SuperviseExit, SuperviseTimeout, TimesOut, SuperviseOverflow, PipelineAt, PipeInv, PipeTypeOK
  <1>1. PICK status \in Statuses, left \in KillLeaves :
           /\ pipeline' = [pipeline EXCEPT !.pc = "result", !.status = status]
           /\ KillGroup(left)
           /\ status = "succeeded" => CleanedUp(left)
    BY DEF SuperviseExit, SuperviseTimeout, TimesOut, SuperviseOverflow, Statuses
  <1>2. pipeline' \in PipeRow /\ pipeline'.pc = "result" /\ pipeline'.status = status
    BY <1>0, <1>1 DEF PipeRow, PipePcs
  <1>3. process' \in ProcessRow /\ process'.group = left
    BY <1>0, <1>1 DEF KillGroup, KillLeaves, ProcessRow
  <1>4. used' \in [runs : Nat, writes : Nat, faults : Nat]
    BY <1>0, <1>1 DEF KillGroup
  <1>5. attempt'.result = "none"
    BY <1>0 DEF PipeInv, RunIsUnrecorded
  <1>6. PipeTypeOK' /\ RunIsUnrecorded' /\ EvaluatedIsRecorded' /\ EvaluationGrows'
    BY <1>0, <1>1, <1>2, <1>3, <1>4
       DEF CleanedUp, PipeInv, PipeTypeOK, RunIsUnrecorded, EvaluatedIsRecorded, EvaluationGrows, Evaluating
  <1> QED
    BY <1>0, <1>5, <1>6 DEF PipeInv, SuccessIsEvidenced, ArchivedIsEvidenced, SuccessEndsGroup

\* The records of the run, in their order.
LEMMA RecordSteps ==
  ASSUME PipeInv, RecordResult \/ RecordCleanup \/ RecordComplete
  PROVE  PipeInv'
  <1>0. /\ pipeline \in PipeRow /\ attempt \in RecordsRow /\ "cancelled" \in PipeEnds
        /\ used \in [runs : Nat, writes : Nat, faults : Nat]
        /\ UNCHANGED <<files, process, evaluation, archived, used>>
    BY DEF PipeInv, PipeTypeOK, PipeEnds, RecordResult, RecordCleanup, RecordComplete
  <1>1. CASE Abandon("cancelled") /\ UNCHANGED attempt
    BY <1>0, <1>1, PipeAbandons
  <1>2. ASSUME NEW pc \in {"cleanup", "complete", "recorded"}, Goes(pc), attempt' \in RecordsRow,
               attempt'.result = "succeeded" => process.group = "gone"
        PROVE  PipeInv'
    <2>1. pipeline' \in PipeRow /\ pipeline'.pc = pc
      BY <1>0, <1>2, GoesEffect DEF PipePcs
    <2>2. PipeTypeOK' /\ RunIsUnrecorded' /\ EvaluatedIsRecorded' /\ EvaluationGrows'
      BY <1>0, <1>2, <2>1 DEF PipeInv, PipeTypeOK, RunIsUnrecorded, EvaluatedIsRecorded, EvaluationGrows, Evaluating
    <2> QED
      BY <1>0, <1>2, <2>2 DEF PipeInv, SuccessIsEvidenced, ArchivedIsEvidenced, SuccessEndsGroup
  <1>3. CASE RecordResult /\ ~ cancelled
    <2>1. /\ Goes("cleanup") /\ attempt' = [attempt EXCEPT !.result = pipeline.status]
          /\ pipeline.status = "succeeded" => process.group = "gone"
      BY <1>3 DEF RecordResult, Continues, PipelineAt, PipeInv, RunIsUnrecorded
    <2>2. attempt' \in RecordsRow /\ attempt'.result = pipeline.status
      BY <1>0, <2>1 DEF RecordsRow, PipeRow
    <2> QED
      BY <1>2, <2>1, <2>2
  <1>4. CASE RecordCleanup \/ RecordComplete
    <2>1. attempt' \in RecordsRow /\ attempt'.result = attempt.result
      BY <1>0, <1>4 DEF RecordCleanup, CleanupReceipts, RecordComplete, RecordsRow
    <2>2. \E pc \in {"cleanup", "complete", "recorded"} : Goes(pc)
      BY <1>4 DEF RecordCleanup, RecordComplete
    <2> QED
      BY <1>2, <2>1, <2>2 DEF PipeInv, SuccessIsEvidenced, SuccessEndsGroup
  <1> QED
    BY <1>1, <1>3, <1>4 DEF RecordResult, Continues

\* The evaluation, from the observation of a recorded success to the archive line.
LEMMA EvaluateSteps ==
  ASSUME PipeInv, Observe \/ Snapshot \/ Harness \/ Recheck \/ Manifest
  PROVE  PipeInv'
  <1>0. /\ pipeline \in PipeRow /\ evaluation \in EvaluationRow /\ "cancelled" \in PipeEnds /\ "failed" \in PipeEnds
        /\ used \in [runs : Nat, writes : Nat, faults : Nat]
        /\ UNCHANGED <<files, process, attempt, archived, used>>
    BY DEF PipeInv, PipeTypeOK, PipeEnds, Observe, Snapshot, Harness, Recheck, Manifest
  <1>1. CASE (Abandon("cancelled") \/ Abandon("failed")) /\ UNCHANGED evaluation
    BY <1>0, <1>1, PipeAbandons
  <1>2. ASSUME NEW pc \in Evaluating, pipeline' \in PipeRow, pipeline'.pc = pc,
               attempt.result = "succeeded" /\ attempt.complete,
               pipeline'.seen \in SeenRow /\ pipeline'.seen.source,
               evaluation' \in EvaluationRow, EvaluationGrows'
        PROVE  PipeInv'
    <2>1. PipeTypeOK' /\ RunIsUnrecorded' /\ EvaluatedIsRecorded'
      BY <1>0, <1>2 DEF PipeInv, PipeTypeOK, RunIsUnrecorded, EvaluatedIsRecorded, Evaluating
    <2> QED
      BY <1>0, <1>2, <2>1 DEF PipeInv, SuccessIsEvidenced, ArchivedIsEvidenced, SuccessEndsGroup
  <1>3. CASE Observe
    <2>1. CASE ~ cancelled /\ Recorded /\ attempt.result = "succeeded" /\ AsDeclared
      <3> DEFINE seen == [stamps |-> Stamps, output |-> files["output"].c, source |-> SourceDeclared]
      <3>1. SourceDeclared
        BY <2>1 DEF AsDeclared
      <3>2. seen \in SeenRow /\ seen.source
        BY <3>1 DEF PipeInv, PipeTypeOK, File, FileRow, SeenRow, Stamps, SourceDeclared
      <3>3. pipeline' = [pipeline EXCEPT !.pc = "snapshot", !.seen = seen] /\ UNCHANGED evaluation
        BY <1>3, <2>1 DEF Observe
      <3> HIDE DEF seen
      <3>4. pipeline' \in PipeRow /\ pipeline'.pc = "snapshot" /\ pipeline'.seen = seen
        BY <1>0, <3>2, <3>3 DEF PipeRow, PipePcs
      <3> QED
        BY <1>0, <1>2, <2>1, <3>2, <3>3, <3>4 DEF Recorded, EvaluationGrows, Evaluating
    <2>2. CASE (Abandon("cancelled") \/ Abandon("failed")) /\ UNCHANGED evaluation
      BY <1>1, <2>2
    <2> QED
      BY <1>3, <2>1, <2>2 DEF Observe
  <1>4. pipeline.pc \in Evaluating => /\ attempt.result = "succeeded" /\ attempt.complete
                                      /\ pipeline.seen \in SeenRow /\ pipeline.seen.source
    BY DEF PipeInv, EvaluatedIsRecorded
  <1>5. CASE Snapshot /\ ~ Abandon("failed")
    <2>1. /\ Goes("harness") /\ evaluation' = [NoEvaluation EXCEPT !.made = TRUE, !.output = pipeline.seen.output]
          /\ pipeline.pc = "snapshot"
      BY <1>5 DEF Snapshot, PipelineAt
    <2>2. pipeline.pc \in Evaluating
      BY <2>1 DEF Evaluating
    <2>3. evaluation' \in EvaluationRow /\ evaluation'.made
      BY <1>4, <2>1, <2>2 DEF NoEvaluation, EvaluationRow, SeenRow
    <2>4. pipeline' \in PipeRow /\ pipeline'.pc = "harness" /\ pipeline'.seen = pipeline.seen
      BY <1>0, <2>1, GoesEffect DEF PipePcs
    <2> QED
      BY <1>2, <1>4, <2>2, <2>3, <2>4 DEF EvaluationGrows, Evaluating
  <1>6. CASE Harness /\ ~ (Abandon("failed") \/ Abandon("cancelled"))
    <2>1. /\ Goes("recheck") /\ evaluation' = [evaluation EXCEPT !.score = evaluation.output]
          /\ pipeline.pc = "harness"
      BY <1>6 DEF Harness, Continues, PipelineAt
    <2>2. pipeline.pc \in Evaluating
      BY <2>1 DEF Evaluating
    <2>3. evaluation' \in EvaluationRow /\ evaluation'.made /\ evaluation'.score = evaluation'.output
      BY <1>0, <2>1 DEF EvaluationRow, PipeInv, EvaluationGrows
    <2>4. pipeline' \in PipeRow /\ pipeline'.pc = "recheck" /\ pipeline'.seen = pipeline.seen
      BY <1>0, <2>1, GoesEffect DEF PipePcs
    <2> QED
      BY <1>2, <1>4, <2>2, <2>3, <2>4 DEF EvaluationGrows, Evaluating
  <1>7. CASE Recheck /\ ~ (Abandon("failed") \/ Abandon("cancelled"))
    <2>1. Goes("manifest") /\ evaluation' = [evaluation EXCEPT !.report = TRUE] /\ pipeline.pc = "recheck"
      BY <1>7 DEF Recheck, PipelineAt
    <2>2. pipeline.pc \in Evaluating
      BY <2>1 DEF Evaluating
    <2>3. /\ evaluation' \in EvaluationRow /\ evaluation'.made /\ evaluation'.score = evaluation'.output
          /\ evaluation'.report
      BY <1>0, <2>1 DEF EvaluationRow, PipeInv, EvaluationGrows
    <2>4. pipeline' \in PipeRow /\ pipeline'.pc = "manifest" /\ pipeline'.seen = pipeline.seen
      BY <1>0, <2>1, GoesEffect DEF PipePcs
    <2> QED
      BY <1>2, <1>4, <2>2, <2>3, <2>4 DEF EvaluationGrows, Evaluating
  <1>8. CASE Manifest /\ ~ (Abandon("failed") \/ Abandon("cancelled"))
    <2>1. Goes("archive") /\ evaluation' = [evaluation EXCEPT !.manifest = TRUE] /\ pipeline.pc = "manifest"
      BY <1>8 DEF Manifest, PipelineAt
    <2>2. pipeline.pc \in Evaluating
      BY <2>1 DEF Evaluating
    <2>3. /\ evaluation' \in EvaluationRow /\ evaluation'.made /\ evaluation'.score = evaluation'.output
          /\ evaluation'.report /\ evaluation'.manifest
      BY <1>0, <2>1 DEF EvaluationRow, PipeInv, EvaluationGrows
    <2>4. pipeline' \in PipeRow /\ pipeline'.pc = "archive" /\ pipeline'.seen = pipeline.seen
      BY <1>0, <2>1, GoesEffect DEF PipePcs
    <2> QED
      BY <1>2, <1>4, <2>2, <2>3, <2>4 DEF EvaluationGrows, Evaluating
  <1>9. CASE (Abandon("failed") \/ Abandon("cancelled")) /\ (Snapshot \/ Harness \/ Recheck \/ Manifest)
    <2>1. pipeline'.pc = "idle"
      BY <1>9 DEF Abandon, PipelineIdle
    <2>2. ~ Goes("harness") /\ ~ Goes("recheck") /\ ~ Goes("manifest") /\ ~ Goes("archive")
      BY <1>0, <2>1, GoesEffect DEF PipePcs
    <2>3. UNCHANGED evaluation
      BY <1>9, <2>2 DEF Snapshot, Harness, Recheck, Manifest, Continues
    <2> QED
      BY <1>1, <1>9, <2>3
  <1> QED
    BY <1>3, <1>5, <1>6, <1>7, <1>8, <1>9

\* CandidateArchive.persist, also when it cannot tell whether the line was written.
LEMMA ArchiveStep ==
  ASSUME PipeInv, Archive
  PROVE  PipeInv'
  <1>0. /\ pipeline \in PipeRow /\ "cancelled" \in PipeEnds /\ "unknown" \in PipeEnds
        /\ used \in [runs : Nat, writes : Nat, faults : Nat]
        /\ UNCHANGED <<files, process, attempt, evaluation, used>> /\ pipeline.pc = "archive"
    BY DEF PipeInv, PipeTypeOK, PipeEnds, Archive, PipelineAt
  <1>1. ArchivedIsEvidenced /\ SuccessEndsGroup /\ IsFiniteSet(DOMAIN archived)
    BY DEF PipeInv, PipeTypeOK, SuccessIsEvidenced
  <1>2. CASE Abandon("cancelled") /\ UNCHANGED archived
    BY <1>0, <1>2, PipeAbandons
  <1>3. CASE /\ archived' = archived \/ archived' = Archived
             /\ Goes("archived") \/ pipeline' = [PipelineIdle EXCEPT !.outcome = "unknown"]
    <2>1. pipeline' \in PipeRow /\ pipeline'.pc \in {"archived", "idle"}
      <3>1. CASE Goes("archived")
        BY <1>0, <3>1, GoesEffect DEF PipePcs
      <3>2. CASE pipeline' = [PipelineIdle EXCEPT !.outcome = "unknown"]
        BY <3>2 DEF PipelineIdle, PipeRow, PipePcs, PipeEnds, Statuses
      <3> QED
        BY <1>3, <3>1, <3>2
    <2>2. /\ Evidence.result = "succeeded" /\ Evidence.complete /\ Evidence.evaluated
          /\ Evidence.scored = Evidence.output /\ Evidence.sourceDeclared
      BY <1>0 DEF PipeInv, EvaluatedIsRecorded, EvaluationGrows, Evaluating, Evidence, Inspected
    <2>3. /\ DOMAIN Archived = DOMAIN archived \cup {pipeline.id}
          /\ \A id \in DOMAIN Archived : Archived[id] = IF id = pipeline.id THEN Evidence ELSE archived[id]
      BY DEF Archived
    <2>4. ArchivedIsEvidenced'
      BY <1>1, <1>3, <2>2, <2>3 DEF ArchivedIsEvidenced
    <2>5. IsFiniteSet(DOMAIN archived')
      BY <1>1, <1>3, <2>3, FS_AddElement
    <2>6. PipeTypeOK' /\ RunIsUnrecorded' /\ EvaluatedIsRecorded' /\ EvaluationGrows'
      BY <1>0, <2>1, <2>5 DEF PipeInv, PipeTypeOK, RunIsUnrecorded, EvaluatedIsRecorded, EvaluationGrows, Evaluating
    <2> QED
      BY <1>0, <1>1, <2>4, <2>6 DEF PipeInv, SuccessIsEvidenced, SuccessEndsGroup
  <1> QED
    BY <1>2, <1>3 DEF Archive, Continues

\* MultiFileCandidatePipeline.persist with candidates that rewrite their files, fork and outlive a
\* killed search: an archived candidate has a recorded success and a finished evaluation of the
\* outputs it left, of declared sources, and no process of its group is left when the success is
\* recorded.
THEOREM SuccessesAreEvidenced == PipeSpec => []SuccessIsEvidenced
  <1>1. PipeInv /\ [PipeNext]_pipeVars => PipeInv'
    <2> SUFFICES ASSUME PipeInv, [PipeNext]_pipeVars PROVE PipeInv'
      OBVIOUS
    <2>1. CASE PipeNext
      BY <2>1, OutsideSteps, CallSteps, LaunchSteps, SuperviseSteps, RecordSteps, EvaluateSteps, ArchiveStep
         DEF PipeNext, Steps
    <2>2. CASE UNCHANGED pipeVars
      BY <2>2 DEF pipeVars, PipeInv, PipeTypeOK, RunIsUnrecorded, EvaluatedIsRecorded, EvaluationGrows,
         SuccessIsEvidenced, ArchivedIsEvidenced, SuccessEndsGroup
    <2> QED
      BY <2>1, <2>2
  <1>2. PipeInv => SuccessIsEvidenced
    BY DEF PipeInv
  <1> QED
    BY <1>1, <1>2, PipeInvInit, PTL DEF PipeSpec

-----------------------------------------------------------------------------
(* A population search: what a call that resumes a killed one relies on.      *)

SearchPlaces == {"off", "clean", "gate", "seed", "swapout", "swapin", "dropbackup", "init", "announce", "loop", "stagnate", "batch",
                 "evaluate", "receipt", "append", "journal", "finish"}
Making   == {"evaluate", "receipt", "append"}
Between  == {"init", "announce", "loop", "stagnate"}
ProcFields == {"pc", "active", "n", "source", "parent", "outcome", "error", "judged"}

TreeTypes ==
    tree \in [root : {"absent", "contract", "full"}, stage : {"absent", "partial", "complete"},
              backup : {"absent", "contract", "partial"}, contract : BOOLEAN]

\* A pending batch is the next one.
StateTypes ==
    state # NoState =>
      /\ state.status \in {"running", "completed", "stagnated", "cancelled", "failed"}
      /\ state.iteration \in 0..MaxRounds /\ state.pending \in 0..MaxRounds
      /\ state.pending # 0 => state.pending = state.iteration + 1

ProcTypes ==
    /\ proc.pc \in SearchPlaces
    /\ proc.pc # "off" => DOMAIN proc = ProcFields /\ proc.n \in Nat
    /\ proc.pc \in Making => proc.source \in Sources /\ proc.parent \in Nat
    /\ proc.pc = "journal" =>
         /\ proc.outcome.code \in {"evaluated", "candidate_failed", "evaluator_timeout"} /\ proc.outcome.candidate \in Nat
         /\ proc.outcome.code = "evaluated" <=> proc.outcome.candidate # 0

\* What a call does fits what state.json announces.
ProcFollowsState ==
    /\ proc.pc \in {"seed", "swapout", "swapin"} => state = NoState
    /\ proc.pc \in Between => ~InBatch /\ ~Terminal(state)
    /\ proc.pc \in {"batch", "journal", "finish"} => InBatch
    /\ proc.pc \in Making /\ ~InBatch => ~Terminal(state)
    /\ proc.pc \in Making \cup {"journal"} /\ InBatch => proc.n < Offspring

\* The evidence in the directory of a candidate under way is of this call.
EvidenceOfCall ==
    /\ proc.pc \in Making => DOMAIN dir = {"source", "execution", "receipt"} /\ dir.execution \in {0, Call}
    /\ proc.pc = "append" => dir.receipt = Call

\* The root is there while the backup is removed.
RootIsThere ==
    /\ proc.pc = "clean" => (tree.contract => tree.root # "absent")
    /\ proc.pc = "dropbackup" => tree.root = "full"

Reached(n) == state # NoState /\ (n <= state.iteration \/ (n = state.iteration + 1 /\ (state.pending = n \/ Terminal(state))))

\* Attempts are made in order, once each, in the batch that is announced.
AttemptsFollow ==
    /\ started \in [(1..MaxRounds) \X Attempts -> Nat]
    /\ \A n \in 1..MaxRounds : \A k \in Attempts : started[<<n, k>>] <= 1 /\ (started[<<n, k>>] # 0 => Reached(n))
    /\ proc.pc = "batch" => \A k \in Attempts : k >= proc.n => started[<<state.pending, k>>] = 0
    /\ proc.pc \in Making \cup {"journal"} /\ InBatch => \A k \in Attempts : k > proc.n => started[<<state.pending, k>>] = 0

EvoInv ==
    /\ TypeOK /\ \A k \in DOMAIN seeds : ~seeds[k].stale
    /\ TreeTypes /\ StateTypes /\ ProcTypes /\ ProcFollowsState
    /\ EvidenceOfCall /\ RootIsThere /\ AttemptsFollow
    /\ EvidenceIsOwn /\ ContractSurvives

LEMMA EvoInit ==
  ASSUME Init
  PROVE  EvoInv
  <1>1. seeds \in Seq(Candidate) /\ \A k \in DOMAIN seeds : ~seeds[k].stale
    BY SeedsAssumption DEF Init
  <1>2. TypeOK
    <2>1. archive = << >> /\ outcomes = << >> /\ torn = FALSE /\ kills = 0
      BY DEF Init
    <2>2. MaxKills \in Nat
      BY EvolutionAssumption
    <2>3. archive \in Seq(Candidate) /\ outcomes \in Seq(OffspringOutcome)
      BY <2>1, EmptySeq
    <2>4. torn \in BOOLEAN
      BY <2>1
    <2>5. kills \in 0..MaxKills
      BY <2>1, <2>2
    <2> QED
      BY <1>1, <2>3, <2>4, <2>5 DEF TypeOK
  <1>3. TreeTypes /\ ContractSurvives
    <2>1. PICK contract \in BOOLEAN :
            tree = [root |-> IF contract THEN "contract" ELSE "absent", stage |-> "absent", backup |-> "absent", contract |-> contract]
      BY DEF Init
    <2> QED
      BY <2>1 DEF TreeTypes, ContractSurvives
  <1>4. StateTypes /\ ProcTypes /\ ProcFollowsState /\ EvidenceOfCall /\ RootIsThere /\ EvidenceIsOwn
    BY DEF Init, StateTypes, ProcTypes, ProcFollowsState, EvidenceOfCall, RootIsThere, EvidenceIsOwn, Off, SearchPlaces, Making, Between
  <1>5. AttemptsFollow
    BY DEF Init, AttemptsFollow, Off, Making
  <1> QED
    BY <1>1, <1>2, <1>3, <1>4, <1>5 DEF EvoInv

-----------------------------------------------------------------------------
(* The tree and the seeds.                                                   *)

\* What a step that only moves directories, or only the process, leaves alone.
LEMMA TreeStep ==
  ASSUME EvoInv, UNCHANGED <<archive, torn, outcomes, state, dir, seeds, started, kills>>,
         TreeTypes', ProcTypes', ProcFollowsState', RootIsThere', ContractSurvives',
         proc'.pc \notin Making \cup {"batch", "journal"}
  PROVE  EvoInv'
  <1>1. TypeOK' /\ (\A k \in DOMAIN seeds : ~seeds[k].stale)' /\ StateTypes' /\ EvidenceIsOwn'
    BY DEF EvoInv, TypeOK, StateTypes, EvidenceIsOwn
  <1>2. EvidenceOfCall'
    BY DEF EvidenceOfCall, Making
  <1>3. AttemptsFollow'
    BY DEF EvoInv, AttemptsFollow, Reached, Terminal, Making
  <1> QED
    BY <1>1, <1>2, <1>3 DEF EvoInv

LEMMA OpenKeeps ==
  ASSUME EvoInv, Open
  PROVE  EvoInv'
  <1>1. /\ UNCHANGED <<archive, torn, outcomes, state, dir, seeds, started, kills>>
        /\ proc'.pc \in {"clean", "gate"} /\ DOMAIN proc' = ProcFields /\ proc'.n = 0
    BY DEF Open, Disk, Else, ProcFields
  <1>2. TreeTypes' /\ ContractSurvives' /\ RootIsThere'
    BY <1>1 DEF EvoInv, Open, TreeTypes, ContractSurvives, RootIsThere
  <1>3. ProcTypes' /\ ProcFollowsState'
    BY <1>1 DEF ProcTypes, ProcFollowsState, SearchPlaces, Making, Between
  <1> QED
    BY <1>1, <1>2, <1>3, TreeStep DEF Making

LEMMA Gone ==
  ASSUME EvoInv, NEW pc \in SearchPlaces, Go(pc), proc.pc # "off"
  PROVE  proc'.pc = pc /\ DOMAIN proc' = ProcFields /\ proc'.n = proc.n /\ proc'.n \in Nat
         /\ proc'.source = proc.source /\ proc'.parent = proc.parent
  BY DEF EvoInv, ProcTypes, Go, ProcFields

LEMMA SeedingKeeps ==
  ASSUME EvoInv, Clean \/ SeedStage \/ SwapOut \/ DropBackup \/ SeedFails
  PROVE  EvoInv'
  <1>1. UNCHANGED <<archive, torn, outcomes, state, dir, seeds, started, kills>>
    BY DEF Clean, SeedStage, SwapOut, DropBackup, SeedFails, Disk, Else
  <1>2. \/ SeedFails /\ proc' = Off
        \/ proc.pc = "clean" /\ Go("gate")
        \/ proc.pc = "dropbackup" /\ Go("gate")
        \/ proc.pc = "seed" /\ \E pc \in {"seed", "swapout", "swapin"} : Go(pc)
        \/ proc.pc = "swapout" /\ Go("swapin")
    BY DEF Clean, SeedStage, SwapOut, DropBackup, SeedFails, At, Return
  <1>3. /\ proc'.pc \in {"off", "gate", "seed", "swapout", "swapin"}
        /\ proc'.pc # "off" => DOMAIN proc' = ProcFields /\ proc'.n \in Nat
        /\ proc'.pc \in {"seed", "swapout", "swapin"} => proc.pc \in {"seed", "swapout"}
    BY <1>2, Gone DEF SearchPlaces, Off
  <1>4. ProcTypes' /\ ProcFollowsState'
    BY <1>1, <1>3 DEF EvoInv, ProcTypes, ProcFollowsState, SearchPlaces, Making, Between
  <1>5. TreeTypes' /\ ContractSurvives'
    BY DEF EvoInv, Clean, SeedStage, SwapOut, DropBackup, SeedFails, TreeTypes, ContractSurvives, RootIsThere, At
  <1>6. RootIsThere'
    BY <1>3 DEF RootIsThere
  <1> QED
    BY <1>1, <1>3, <1>4, <1>5, <1>6, TreeStep DEF Making

\* The seeds become the archive; no attempt was made before.
LEMMA SwapInKeeps ==
  ASSUME EvoInv, SwapIn
  PROVE  EvoInv'
  <1>1. /\ UNCHANGED <<torn, outcomes, dir, seeds, started, kills>> /\ archive' = seeds
        /\ state'.status = "running" /\ state'.iteration = 0 /\ state'.pending = 0 /\ state' # NoState
        /\ tree' = [tree EXCEPT !.root = "full", !.stage = "absent"] /\ proc.pc = "swapin" /\ state = NoState
    BY DEF EvoInv, ProcFollowsState, SwapIn, Else, At, NoState
  <1>2. proc'.pc = "dropbackup" /\ DOMAIN proc' = ProcFields /\ proc'.n \in Nat
    BY <1>1, Gone DEF SwapIn, SearchPlaces
  <1>3. TypeOK' /\ (\A k \in DOMAIN seeds : ~seeds[k].stale)' /\ EvidenceIsOwn'
    BY <1>1 DEF EvoInv, TypeOK, EvidenceIsOwn
  <1>4. TreeTypes' /\ RootIsThere' /\ ContractSurvives'
    BY <1>1, <1>2 DEF EvoInv, TreeTypes, RootIsThere, ContractSurvives
  <1>5. StateTypes' /\ ProcTypes' /\ ProcFollowsState' /\ EvidenceOfCall'
    BY <1>1, <1>2, EvolutionAssumption
       DEF StateTypes, ProcTypes, ProcFollowsState, EvidenceOfCall, SearchPlaces, Making, Between
  <1>6. AttemptsFollow'
    BY <1>1, <1>2 DEF EvoInv, AttemptsFollow, Reached, Making
  <1> QED
    BY <1>3, <1>4, <1>5, <1>6 DEF EvoInv

-----------------------------------------------------------------------------
(* Steps that write the state.                                               *)

\* A state that goes on where the last one was, or ends the search there.
LEMMA Wrote ==
  ASSUME NEW status, NEW iteration, NEW active, NEW stagnation, NEW error, NEW migration, NEW pending, NEW bind, NEW failed,
         Write(status, iteration, active, stagnation, error, migration, pending, bind, failed), status # "absent"
  PROVE  /\ state' # NoState /\ state'.status = status /\ state'.iteration = iteration /\ state'.pending = pending
         /\ tree' = [tree EXCEPT !.root = "full"]
  <1> DEFINE old == IF state = NoState
                    THEN [bind |-> None, failed |-> None, marks |-> None, seeded |-> FALSE] ELSE state
  <1>1. PICK marks : state' = [status |-> status, iteration |-> iteration, active |-> active,
                    stagnation |-> stagnation, error |-> error, best |-> Best(archive),
                    migration |-> migration, pending |-> pending,
                    bind |-> IF bind = None THEN old.bind ELSE bind,
                    failed |-> IF failed = None THEN old.failed ELSE failed,
                    marks |-> marks,
                    seeded |-> old.seeded]
    BY DEF Write, WriteState
  <1>2. tree' = [tree EXCEPT !.root = "full"]
    BY DEF Write, WriteState
  <1> QED
    BY <1>1, <1>2 DEF NoState

LEMMA StateStep ==
  ASSUME EvoInv, UNCHANGED <<archive, torn, outcomes, dir, seeds, started, kills>>,
         tree' \in {tree, [tree EXCEPT !.root = "full"]},
         StateTypes', ProcTypes', ProcFollowsState', proc'.pc \notin Making \cup {"journal", "clean", "dropbackup"},
         \A n \in 1..MaxRounds : Reached(n) => Reached(n)',
         proc'.pc = "batch" => state'.pending \in 1..MaxRounds /\ \A k \in Attempts : k >= proc'.n => started[<<state'.pending, k>>] = 0
  PROVE  EvoInv'
  <1>1. TypeOK' /\ (\A k \in DOMAIN seeds : ~seeds[k].stale)' /\ EvidenceIsOwn'
    BY DEF EvoInv, TypeOK, EvidenceIsOwn
  <1>2. EvidenceOfCall' /\ RootIsThere'
    BY DEF EvidenceOfCall, RootIsThere, Making
  <1>3. TreeTypes' /\ ContractSurvives'
    BY DEF EvoInv, TreeTypes, ContractSurvives
  <1>4. AttemptsFollow'
    BY DEF EvoInv, AttemptsFollow, Making
  <1> QED
    BY <1>1, <1>2, <1>3, <1>4 DEF EvoInv

\* Where the search is.
LEMMA IterationBounds ==
  ASSUME EvoInv
  PROVE  /\ Iteration \in 0..MaxRounds
         /\ ~InBatch => Target = 0
         /\ InBatch => state # NoState /\ Target = state.pending /\ Target \in 1..MaxRounds /\ Target = state.iteration + 1
  <1>1. CASE state = NoState
    BY <1>1, EvolutionAssumption DEF Iteration, InBatch, Target
  <1>2. CASE state # NoState
    BY <1>2, EvolutionAssumption DEF EvoInv, StateTypes, Iteration, InBatch, Target
  <1> QED
    BY <1>1, <1>2

\* A state that is written for the iteration the search is in, without a batch under way.
LEMMA SameIteration ==
  ASSUME EvoInv, proc.pc \in Between, state' # NoState, state'.iteration = Iteration
  PROVE  \A n \in 1..MaxRounds : Reached(n) => Reached(n)'
  BY DEF EvoInv, StateTypes, ProcFollowsState, InBatch, Reached, Iteration

LEMMA GateKeeps ==
  ASSUME EvoInv, Gate
  PROVE  EvoInv'
  <1>1. /\ UNCHANGED <<archive, torn, outcomes, state, dir, seeds, started, kills>> /\ tree' = tree /\ proc.pc = "gate"
    BY DEF Gate, Disk, Else, At
  <1>2. DOMAIN proc = ProcFields /\ proc.n \in Nat
    BY <1>1 DEF EvoInv, ProcTypes
  <1>3. \/ proc' = Off
        \/ InBatch /\ proc'.pc = "finish" /\ DOMAIN proc' = ProcFields /\ proc'.n \in Nat
        \/ ~InBatch /\ ~Terminal(state) /\ proc'.pc \in {"init", "announce"} /\ DOMAIN proc' = ProcFields /\ proc'.n \in Nat
        \/ state = NoState /\ proc'.pc = "seed" /\ DOMAIN proc' = ProcFields /\ proc'.n \in Nat
    <2>1. CASE MayResume
      <3>1. state # NoState
        BY <2>1 DEF MayResume
      <3>2. CASE state.pending # 0
        <4>1. ResumeOffspringBatch
          BY <2>1, <3>2 DEF Gate
        <4> QED
          BY <1>2, <3>1, <3>2, <4>1 DEF ResumeOffspringBatch, Return, InBatch, ProcFields
      <3>3. CASE state.pending = 0 /\ Terminal(state)
        BY <2>1, <3>3 DEF Gate, Return
      <3>4. CASE state.pending = 0 /\ ~Terminal(state)
        <4>1. proc' = [proc EXCEPT !.pc = IF Nobody(state.active) /\ archive = <<>> THEN "init" ELSE "announce",
                                   !.active = state.active, !.error = state.error]
          BY <2>1, <3>4 DEF Gate
        <4> QED
          BY <1>2, <3>4, <4>1 DEF InBatch, ProcFields
      <3> QED
        BY <3>2, <3>3, <3>4
    <2>2. CASE ~MayResume /\ MayStart
      <3>1. state = NoState /\ ~Terminal(state) /\ ~InBatch
        BY <2>2 DEF MayStart, NoState, Terminal, InBatch
      <3>2. Go("init") \/ Go("seed") \/ proc' = Off
        BY <2>2 DEF Gate, Return
      <3> QED
        BY <1>1, <1>2, <3>1, <3>2, Gone DEF SearchPlaces
    <2>3. CASE ~MayResume /\ ~MayStart
      BY <2>3 DEF Gate, Return
    <2> QED
      BY <2>1, <2>2, <2>3
  <1>4. TreeTypes' /\ ContractSurvives'
    BY <1>1 DEF EvoInv, TreeTypes, ContractSurvives
  <1>5. proc'.pc \in {"off", "finish", "init", "announce", "seed"}
    BY <1>3 DEF Off
  <1>6. RootIsThere'
    BY <1>5 DEF RootIsThere
  <1>7. ProcTypes'
    BY <1>3 DEF ProcTypes, SearchPlaces, Making, Off
  <1>8. InBatch' <=> InBatch
    BY <1>1 DEF InBatch
  <1>9. ProcFollowsState'
    BY <1>1, <1>3, <1>8 DEF ProcFollowsState, Making, Between, Off, Terminal
  <1> QED
    BY <1>1, <1>4, <1>5, <1>6, <1>7, <1>9, TreeStep DEF Making

LEMMA CancelKeeps ==
  ASSUME EvoInv, Cancel
  PROVE  EvoInv'
  <1>1. proc.pc \in Between /\ proc' = Off /\ UNCHANGED <<archive, torn, outcomes, dir, seeds, started, kills>>
    BY DEF Cancel, At, Between, Return, Else
  <1>2. state' # NoState /\ state'.status = "cancelled" /\ state'.iteration = Iteration /\ state'.pending = 0
        /\ tree' = [tree EXCEPT !.root = "full"]
    BY Wrote DEF Cancel
  <1>3. StateTypes'
    BY <1>2, IterationBounds, EvolutionAssumption DEF StateTypes
  <1>4. ProcTypes' /\ ProcFollowsState'
    BY <1>1 DEF ProcTypes, ProcFollowsState, Off, SearchPlaces, Making, Between
  <1> QED
    BY <1>1, <1>2, <1>3, <1>4, SameIteration, StateStep DEF Off, Making

LEMMA PopulateKeeps ==
  ASSUME EvoInv, Populate
  PROVE  EvoInv'
  <1>1. proc.pc = "init" /\ proc.pc \in Between /\ UNCHANGED <<archive, torn, outcomes, dir, seeds, started, kills>>
    BY DEF Populate, At, Between, Else
  <1>2. \/ Write("failed", Iteration, Trim(archive, proc.active), 0, proc.judged, Migration, 0, None, None) /\ proc' = Off
        \/ /\ proc' = [proc EXCEPT !.pc = "announce", !.active = Trim(archive, proc.active)]
           /\ UNCHANGED <<state, tree>>
    BY DEF Populate, Return
  <1>3. CASE Write("failed", Iteration, Trim(archive, proc.active), 0, proc.judged, Migration, 0, None, None) /\ proc' = Off
    <2>1. state' # NoState /\ state'.status = "failed" /\ state'.iteration = Iteration /\ state'.pending = 0
          /\ tree' = [tree EXCEPT !.root = "full"]
      BY <1>3, Wrote
    <2>2. StateTypes'
      BY <2>1, IterationBounds, EvolutionAssumption DEF StateTypes
    <2>3. ProcTypes' /\ ProcFollowsState'
      BY <1>3 DEF ProcTypes, ProcFollowsState, Off, SearchPlaces, Making, Between
    <2> QED
      BY <1>1, <1>3, <2>1, <2>2, <2>3, SameIteration, StateStep DEF Off, Making
  <1>4. CASE proc' = [proc EXCEPT !.pc = "announce", !.active = Trim(archive, proc.active)] /\ UNCHANGED <<state, tree>>
    <2>1. proc'.pc = "announce" /\ DOMAIN proc' = ProcFields /\ proc'.n \in Nat
      BY <1>1, <1>4 DEF EvoInv, ProcTypes, ProcFields
    <2>2. StateTypes' /\ (InBatch' <=> InBatch) /\ \A n \in 1..MaxRounds : Reached(n) => Reached(n)'
      BY <1>4 DEF EvoInv, StateTypes, InBatch, Reached, Terminal
    <2>3. ProcTypes'
      BY <2>1 DEF ProcTypes, SearchPlaces, Making
    <2>4. ProcFollowsState'
      BY <1>1, <1>4, <2>1, <2>2 DEF EvoInv, ProcFollowsState, Making, Between, Terminal
    <2> QED
      BY <1>1, <1>4, <2>1, <2>2, <2>3, <2>4, StateStep DEF Making
  <1> QED
    BY <1>2, <1>3, <1>4

LEMMA AnnounceKeeps ==
  ASSUME EvoInv, Announce
  PROVE  EvoInv'
  <1>1. proc.pc \in Between /\ proc.pc # "off" /\ UNCHANGED <<archive, torn, outcomes, dir, seeds, started, kills>>
    BY DEF Announce, At, Between, Else
  <1>2. state' # NoState /\ state'.status = "running" /\ state'.iteration = Iteration /\ state'.pending = 0
        /\ tree' = [tree EXCEPT !.root = "full"]
    BY Wrote DEF Announce
  <1>3. proc'.pc \in {"stagnate", "loop"} /\ DOMAIN proc' = ProcFields /\ proc'.n \in Nat
    BY <1>1, Gone DEF Announce, SearchPlaces
  <1>4. StateTypes'
    BY <1>2, IterationBounds, EvolutionAssumption DEF StateTypes
  <1>5. ProcTypes'
    BY <1>3 DEF ProcTypes, SearchPlaces, Making
  <1>6. ProcFollowsState'
    BY <1>2, <1>3 DEF ProcFollowsState, Making, Between, InBatch, Terminal
  <1> QED
    BY <1>1, <1>2, <1>3, <1>4, <1>5, <1>6, SameIteration, StateStep DEF Making

LEMMA ConcludeKeeps ==
  ASSUME EvoInv, Conclude
  PROVE  EvoInv'
  <1>1. proc.pc \in Between /\ proc' = Off /\ UNCHANGED <<archive, torn, outcomes, dir, seeds, started, kills>>
    BY DEF Conclude, At, Between, Return, Else
  <1>2. \E status \in {"completed", "stagnated", "failed"} : \E error :
           Write(status, Iteration, proc.active, Stagnation, error, Migration, 0, None, None)
    BY DEF Conclude
  <1>3. state' # NoState /\ state'.status \in {"completed", "stagnated", "failed"} /\ state'.iteration = Iteration /\ state'.pending = 0
        /\ tree' = [tree EXCEPT !.root = "full"]
    BY <1>2, Wrote
  <1>4. StateTypes'
    BY <1>3, IterationBounds, EvolutionAssumption DEF StateTypes
  <1>5. ProcTypes' /\ ProcFollowsState'
    BY <1>1 DEF ProcTypes, ProcFollowsState, Off, SearchPlaces, Making, Between
  <1> QED
    BY <1>1, <1>3, <1>4, <1>5, SameIteration, StateStep DEF Off, Making

\* The next batch: none of its attempts was made.
LEMMA BeginKeeps ==
  ASSUME EvoInv, BeginOffspringBatch
  PROVE  EvoInv'
  <1>1. /\ proc.pc = "loop" /\ proc.pc \in Between /\ Iteration < MaxRounds
        /\ UNCHANGED <<archive, torn, outcomes, dir, seeds, started, kills>>
        /\ proc' = [proc EXCEPT !.pc = "batch", !.n = 0]
    BY DEF BeginOffspringBatch, At, Between, Else
  <1>2. state' # NoState /\ state'.status = "running" /\ state'.iteration = Iteration /\ state'.pending = Iteration + 1
        /\ tree' = [tree EXCEPT !.root = "full"]
    BY Wrote DEF BeginOffspringBatch
  <1>3. proc'.pc = "batch" /\ DOMAIN proc' = ProcFields /\ proc'.n = 0
    BY <1>1 DEF EvoInv, ProcTypes, ProcFields
  <1>4. Iteration + 1 \in 1..MaxRounds /\ MaxRounds \in Nat
    BY <1>1, IterationBounds, EvolutionAssumption
  <1>5. StateTypes'
    BY <1>2, <1>4, IterationBounds DEF StateTypes
  <1>6. ProcTypes'
    BY <1>3 DEF ProcTypes, SearchPlaces, Making
  <1>7. ProcFollowsState'
    BY <1>2, <1>3, <1>4 DEF ProcFollowsState, Making, Between, InBatch
  <1>8. ~Reached(Iteration + 1)
    BY <1>1, IterationBounds DEF EvoInv, StateTypes, ProcFollowsState, Reached, Iteration, InBatch
  <1>9. \A k \in Attempts : started[<<Iteration + 1, k>>] = 0
    BY <1>4, <1>8 DEF EvoInv, AttemptsFollow
  <1> QED
    BY <1>1, <1>2, <1>3, <1>4, <1>5, <1>6, <1>7, <1>9, SameIteration, StateStep DEF Making

\* A batch ends: the search is in its iteration, or has failed before it.
LEMMA FinishKeeps ==
  ASSUME EvoInv, FinishOffspringBatch
  PROVE  EvoInv'
  <1>1. proc.pc = "finish" /\ InBatch /\ UNCHANGED <<archive, torn, outcomes, dir, seeds, started, kills>>
    BY DEF EvoInv, ProcFollowsState, FinishOffspringBatch, At, Else
  <1>2. /\ state # NoState /\ Target = state.pending /\ Target \in 1..MaxRounds /\ Target = state.iteration + 1
        /\ Iteration = state.iteration /\ Iteration \in 0..MaxRounds
    BY <1>1, IterationBounds DEF Iteration
  <1>3. CASE EvaluatedIn(outcomes, Target) = <<>>
    <2>1. proc' = Off /\ state' # NoState /\ state'.status = "failed" /\ state'.iteration = Iteration /\ state'.pending = 0
          /\ tree' = [tree EXCEPT !.root = "full"]
      BY <1>3, Wrote DEF FinishOffspringBatch, BatchFails, Return
    <2>2. StateTypes'
      BY <1>2, <2>1, EvolutionAssumption DEF StateTypes
    <2>3. ProcTypes' /\ ProcFollowsState'
      BY <2>1 DEF ProcTypes, ProcFollowsState, Off, SearchPlaces, Making, Between
    <2>4. \A n \in 1..MaxRounds : Reached(n) => Reached(n)'
      BY <1>2, <2>1 DEF Reached, Terminal
    <2> QED
      BY <1>1, <2>1, <2>2, <2>3, <2>4, StateStep DEF Off, Making
  <1>4. CASE EvaluatedIn(outcomes, Target) # <<>>
    <2>1. /\ \E active, stagnation, error, migration, bind :
               Write("running", Target, active, stagnation, error, migration, 0, bind, None)
          /\ \E pc \in {"stagnate", "loop"} : \E active, error :
               proc' = [proc EXCEPT !.pc = pc, !.active = active, !.error = error, !.n = 0]
      BY <1>4 DEF FinishOffspringBatch, BatchSucceeds
    <2>2. state' # NoState /\ state'.status = "running" /\ state'.iteration = Target /\ state'.pending = 0
          /\ tree' = [tree EXCEPT !.root = "full"]
      BY <2>1, Wrote
    <2>3. proc'.pc \in {"stagnate", "loop"} /\ DOMAIN proc' = ProcFields /\ proc'.n = 0
      BY <1>1, <2>1 DEF EvoInv, ProcTypes, ProcFields
    <2>4. StateTypes'
      BY <1>2, <2>2, EvolutionAssumption DEF StateTypes
    <2>5. ProcTypes'
      BY <2>3 DEF ProcTypes, SearchPlaces, Making
    <2>6. ProcFollowsState'
      BY <2>2, <2>3 DEF ProcFollowsState, Making, Between, InBatch, Terminal
    <2>7. \A n \in 1..MaxRounds : Reached(n) => Reached(n)'
      BY <1>2, <2>2 DEF Reached
    <2> QED
      BY <1>1, <2>2, <2>3, <2>4, <2>5, <2>6, <2>7, StateStep DEF Making
  <1> QED
    BY <1>3, <1>4

-----------------------------------------------------------------------------
(* Steps that make a candidate.                                              *)

LEMMA MakingStep ==
  ASSUME EvoInv, proc.pc \in Making, UNCHANGED <<outcomes, state, seeds, started, kills>>,
         tree' \in {tree, [tree EXCEPT !.root = "full"]},
         TypeOK', EvidenceIsOwn', ProcTypes', EvidenceOfCall',
         proc'.pc \in Making \cup {"journal", "init", "off"},
         proc'.pc \in Making => proc'.n = proc.n,
         proc'.pc = "journal" => InBatch /\ proc'.n = proc.n,
         proc'.pc = "init" => ~InBatch
  PROVE  EvoInv'
  <1>1. (\A k \in DOMAIN seeds : ~seeds[k].stale)' /\ StateTypes' /\ (InBatch' <=> InBatch)
    BY DEF EvoInv, StateTypes, InBatch
  <1>2. TreeTypes' /\ ContractSurvives' /\ RootIsThere'
    BY DEF EvoInv, TreeTypes, ContractSurvives, RootIsThere, Making
  <1>3. ProcFollowsState'
    BY <1>1 DEF EvoInv, ProcFollowsState, Making, Between, Terminal
  <1>4. AttemptsFollow'
    BY <1>1 DEF EvoInv, AttemptsFollow, Reached, Terminal, Making
  <1> QED
    BY <1>1, <1>2, <1>3, <1>4 DEF EvoInv

\* A failed attempt is journalled in a batch, and counted in the initial population.
LEMMA FailedGoes ==
  ASSUME EvoInv, proc.pc # "off", NEW code \in {"candidate_failed", "evaluator_timeout"}, NEW judged, Failed(code, judged)
  PROVE  /\ DOMAIN proc' = ProcFields /\ proc'.n \in Nat
         /\ InBatch => proc'.pc = "journal" /\ proc'.n = proc.n /\ proc'.outcome = [code |-> code, candidate |-> 0]
         /\ ~InBatch => proc'.pc = "init"
         /\ ProcTypes' /\ EvidenceOfCall'
  <1>1. DOMAIN proc = ProcFields /\ proc.n \in Nat
    BY DEF EvoInv, ProcTypes
  <1>2. CASE InBatch
    <2>1. proc' = [proc EXCEPT !.pc = "journal", !.outcome = [code |-> code, candidate |-> 0]]
      BY <1>2 DEF Failed
    <2>2. proc'.pc = "journal" /\ proc'.n = proc.n /\ proc'.outcome = [code |-> code, candidate |-> 0] /\ DOMAIN proc' = ProcFields
      BY <1>1, <2>1 DEF ProcFields
    <2> QED
      BY <1>1, <1>2, <2>2 DEF ProcTypes, EvidenceOfCall, SearchPlaces, Making
  <1>3. CASE ~InBatch
    <2>1. \E error, judge : proc' = [proc EXCEPT !.pc = "init", !.n = @ + 1, !.error = error, !.judged = judge]
      BY <1>3 DEF Failed
    <2>2. proc'.pc = "init" /\ proc'.n = proc.n + 1 /\ DOMAIN proc' = ProcFields
      BY <1>1, <2>1 DEF ProcFields
    <2> QED
      BY <1>1, <1>3, <2>2 DEF ProcTypes, EvidenceOfCall, SearchPlaces, Making
  <1> QED
    BY <1>2, <1>3

\* The generator is called: the first time for this attempt.
LEMMA GenerateKeeps ==
  ASSUME EvoInv, Generate
  PROVE  EvoInv'
  <1>1. /\ proc.pc \in {"init", "batch"} /\ UNCHANGED <<tree, archive, torn, outcomes, state, seeds, kills>>
        /\ proc.pc = "batch" => proc.n < Offspring /\ InBatch
        /\ proc.pc = "init" => ~InBatch /\ ~Terminal(state)
        /\ DOMAIN proc = ProcFields /\ proc.n \in Nat
    BY DEF EvoInv, ProcTypes, ProcFollowsState, Between, Generate, At, Disk
  <1>2. \/ "fail" \in Environment /\ Failed("candidate_failed", FALSE)
        \/ \E source \in Sources : \E parent \in DOMAIN archive \cup {0} :
             dir' = Stage /\ proc' = [proc EXCEPT !.pc = "evaluate", !.source = source, !.parent = parent]
    BY DEF Generate, ParentPool
  <1>3. /\ ProcTypes' /\ EvidenceOfCall' /\ proc'.pc \in {"evaluate", "journal", "init"}
        /\ proc'.pc # "init" => proc'.n = proc.n
        /\ proc'.pc = "journal" => InBatch
        /\ proc'.pc = "init" => ~InBatch
    <2>1. CASE Failed("candidate_failed", FALSE)
      BY <1>1, <2>1, FailedGoes
    <2>2. CASE \E source \in Sources : \E parent \in DOMAIN archive \cup {0} :
             dir' = Stage /\ proc' = [proc EXCEPT !.pc = "evaluate", !.source = source, !.parent = parent]
      <3>1. PICK source \in Sources : \E parent \in DOMAIN archive \cup {0} :
             dir' = Stage /\ proc' = [proc EXCEPT !.pc = "evaluate", !.source = source, !.parent = parent]
        BY <2>2
      <3>2. PICK parent \in DOMAIN archive \cup {0} :
             dir' = Stage /\ proc' = [proc EXCEPT !.pc = "evaluate", !.source = source, !.parent = parent]
        BY <3>1
      <3>3. parent \in Nat
        <4>1. DOMAIN archive = 1..Len(archive) /\ Len(archive) \in Nat
          BY LenProperties DEF EvoInv, TypeOK
        <4> QED
          BY <4>1
      <3>4. proc'.pc = "evaluate" /\ proc'.n = proc.n /\ proc'.source = source /\ proc'.parent = parent /\ DOMAIN proc' = ProcFields
        BY <1>1, <3>2 DEF ProcFields
      <3>5. ProcTypes'
        BY <1>1, <3>3, <3>4 DEF ProcTypes, SearchPlaces, Making
      <3>6. EvidenceOfCall'
        BY <1>1, <3>2, <3>4 DEF EvidenceOfCall, Stage, Making
      <3> QED
        BY <3>4, <3>5, <3>6
    <2> QED
      BY <1>2, <2>1, <2>2
  <1>4. TypeOK' /\ (\A k \in DOMAIN seeds : ~seeds[k].stale)' /\ StateTypes' /\ EvidenceIsOwn' /\ (InBatch' <=> InBatch)
    BY <1>1 DEF EvoInv, TypeOK, StateTypes, EvidenceIsOwn, InBatch
  <1>5. TreeTypes' /\ ContractSurvives' /\ RootIsThere'
    BY <1>1, <1>3 DEF EvoInv, TreeTypes, ContractSurvives, RootIsThere
  <1>6. ProcFollowsState'
    BY <1>1, <1>3, <1>4 DEF ProcFollowsState, Making, Between, Terminal
  <1>7. AttemptsFollow'
    <2>1. CASE ~InBatch
      <3>1. started' = started
        BY <2>1 DEF Generate
      <3> QED
        BY <1>1, <1>3, <1>4, <2>1, <3>1 DEF EvoInv, AttemptsFollow, Reached, Terminal, Making
    <2>2. CASE InBatch
      <3>1. proc.pc = "batch" /\ proc.n < Offspring /\ proc.n \in Attempts
        BY <1>1, <2>2, EvolutionAssumption DEF Attempts
      <3>2. state # NoState /\ Target = state.pending /\ Target \in 1..MaxRounds /\ Target = state.iteration + 1
        BY <2>2, IterationBounds
      <3>3. started' = [started EXCEPT ![<<Target, proc.n>>] = @ + 1]
        BY <2>2 DEF Generate
      <3>4. started[<<Target, proc.n>>] = 0 /\ \A k \in Attempts : k >= proc.n => started[<<Target, k>>] = 0
        BY <1>1, <3>1, <3>2 DEF EvoInv, AttemptsFollow
      <3>5. started \in [(1..MaxRounds) \X Attempts -> Nat]
        BY DEF EvoInv, AttemptsFollow
      <3>6. started' \in [(1..MaxRounds) \X Attempts -> Nat]
        BY <3>1, <3>2, <3>3, <3>4, <3>5
      <3>7. ASSUME NEW n \in 1..MaxRounds, NEW k \in Attempts
            PROVE  started'[<<n, k>>] = IF n = Target /\ k = proc.n THEN 1 ELSE started[<<n, k>>]
        BY <3>1, <3>2, <3>3, <3>4, <3>5
      <3>8. ASSUME NEW n \in 1..MaxRounds, NEW k \in Attempts
            PROVE  started'[<<n, k>>] <= 1 /\ (started'[<<n, k>>] # 0 => Reached(n)')
        <4>1. Reached(n) => Reached(n)'
          BY <1>1 DEF Reached, Terminal
        <4>2. n = Target => Reached(n)'
          BY <1>1, <3>2 DEF Reached
        <4> QED
          BY <3>7, <4>1, <4>2 DEF EvoInv, AttemptsFollow
      <3>9. ASSUME NEW k \in Attempts, k > proc'.n PROVE started'[<<state'.pending, k>>] = 0
        <4>1. k # proc.n /\ k >= proc.n
          BY <1>1, <1>3, <2>2, <3>9, EvolutionAssumption DEF Attempts
        <4> QED
          BY <1>1, <3>2, <3>4, <3>7, <4>1
      <3> QED
        BY <1>3, <3>6, <3>8, <3>9 DEF AttemptsFollow
    <2> QED
      BY <2>1, <2>2
  <1> QED
    BY <1>3, <1>4, <1>5, <1>6, <1>7 DEF EvoInv

LEMMA EvaluateKeeps ==
  ASSUME EvoInv, Evaluate \/ WriteReceipt \/ AppendRolledBack
  PROVE  EvoInv'
  <1>1. /\ proc.pc \in Making /\ proc.pc # "off" /\ UNCHANGED <<archive, torn, outcomes, state, seeds, started, kills>>
        /\ tree' \in {tree, [tree EXCEPT !.root = "full"]}
    BY DEF Evaluate, WriteReceipt, AppendRolledBack, At, Making, Disk, Else
  <1>2. TypeOK' /\ EvidenceIsOwn'
    BY <1>1 DEF EvoInv, TypeOK, EvidenceIsOwn
  <1>3. CASE Failed("evaluator_timeout", TRUE) \/ Failed("candidate_failed", TRUE)
    BY <1>1, <1>2, <1>3, FailedGoes, MakingStep DEF Making
  <1>4. CASE \/ proc.pc = "evaluate" /\ dir' \in {dir, [dir EXCEPT !.execution = Call]} /\ Go("receipt")
             \/ proc.pc = "receipt" /\ dir' = [dir EXCEPT !.receipt = Call] /\ Go("append")
    <2>1. /\ proc'.pc \in {"receipt", "append"} /\ DOMAIN proc' = ProcFields /\ proc'.n = proc.n /\ proc'.n \in Nat
          /\ proc'.source = proc.source /\ proc'.parent = proc.parent
      BY <1>1, <1>4, Gone DEF SearchPlaces
    <2>2. ProcTypes'
      BY <1>1, <2>1 DEF EvoInv, ProcTypes, SearchPlaces, Making
    <2>3. DOMAIN dir = {"source", "execution", "receipt"} /\ dir.execution \in {0, Call} /\ Call' = Call
      BY <1>1 DEF EvoInv, EvidenceOfCall, Call
    <2>4. DOMAIN dir' = {"source", "execution", "receipt"} /\ dir'.execution \in {0, Call}
      BY <1>4, <2>3
    <2>5. proc'.pc = "append" => dir'.receipt = Call
      BY <1>4, <2>1, <2>3 DEF Go, EvoInv, ProcTypes, ProcFields
    <2>6. EvidenceOfCall'
      BY <2>1, <2>3, <2>4, <2>5 DEF EvidenceOfCall
    <2> QED
      BY <1>1, <1>2, <2>1, <2>2, <2>6, MakingStep DEF Making
  <1> QED
    BY <1>3, <1>4 DEF Evaluate, WriteReceipt, AppendRolledBack, At

\* A line is a candidate, and its evidence is of the call that appends it.
LEMMA LineHolds ==
  ASSUME EvoInv, proc.pc = "append"
  PROVE  Line \in Candidate /\ ~Line.stale
  <1>1. proc.n \in Nat /\ proc.source \in Sources /\ proc.parent \in Nat /\ dir.execution \in {0, dir.receipt}
    BY DEF EvoInv, ProcTypes, EvidenceOfCall, Making
  <1>2. Island \in Islands
    BY <1>1, EvolutionAssumption DEF Island, Islands
  <1>3. Target \in 0..MaxRounds
    BY IterationBounds, EvolutionAssumption
  <1>4. ReportOf[proc.source].valid \in BOOLEAN /\ ReportOf[proc.source].score \in Nat
    BY <1>1, EvolutionAssumption
  <1>5. (dir.execution \notin {0, dir.receipt}) = FALSE
    BY <1>1
  <1> QED
    BY <1>1, <1>2, <1>3, <1>4, <1>5 DEF Line, Candidate

LEMMA Appended ==
  ASSUME EvoInv, proc.pc = "append", archive' = Append(archive, Line), UNCHANGED <<seeds, outcomes, kills>>, torn' \in BOOLEAN
  PROVE  TypeOK' /\ EvidenceIsOwn' /\ Len(archive) \in Nat
  <1>1. archive \in Seq(Candidate) /\ Line \in Candidate /\ ~Line.stale
    BY LineHolds DEF EvoInv, TypeOK
  <1>2. /\ archive' \in Seq(Candidate) /\ Len(archive) \in Nat /\ DOMAIN archive' = 1..Len(archive) + 1 /\ DOMAIN archive = 1..Len(archive)
        /\ \A i \in 1..Len(archive) : archive'[i] = archive[i]
        /\ archive'[Len(archive) + 1] = Line
    BY <1>1, AppendProperties, LenProperties
  <1>3. EvidenceIsOwn'
    BY <1>1, <1>2 DEF EvoInv, EvidenceIsOwn
  <1> QED
    BY <1>2, <1>3 DEF EvoInv, TypeOK

LEMMA AppendKeeps ==
  ASSUME EvoInv, AppendLine \/ AppendUnknown
  PROVE  EvoInv'
  <1>1. /\ proc.pc = "append" /\ proc.pc \in Making /\ UNCHANGED <<outcomes, state, seeds, started, kills>>
        /\ tree' = [tree EXCEPT !.root = "full"]
    BY DEF AppendLine, AppendUnknown, At, Making, Else
  <1>2. DOMAIN proc = ProcFields /\ proc.n \in Nat
    BY <1>1 DEF EvoInv, ProcTypes
  <1>3. CASE AppendLine
    <2>1. TypeOK' /\ EvidenceIsOwn' /\ Len(archive) \in Nat
      BY <1>1, <1>3, Appended DEF AppendLine, EvoInv, TypeOK
    <2>2. CASE InBatch
      <3>1. proc' = [proc EXCEPT !.pc = "journal", !.outcome = [code |-> "evaluated", candidate |-> Len(archive) + 1]]
        BY <1>3, <2>2 DEF AppendLine
      <3>2. proc'.pc = "journal" /\ proc'.n = proc.n /\ DOMAIN proc' = ProcFields
            /\ proc'.outcome = [code |-> "evaluated", candidate |-> Len(archive) + 1]
        BY <1>2, <3>1 DEF ProcFields
      <3>3. ProcTypes' /\ EvidenceOfCall'
        BY <1>2, <2>1, <3>2 DEF ProcTypes, EvidenceOfCall, SearchPlaces, Making
      <3> QED
        BY <1>1, <2>1, <2>2, <3>2, <3>3, MakingStep DEF Making
    <2>3. CASE ~InBatch
      <3>1. \E active : proc' = [proc EXCEPT !.pc = "init", !.n = @ + 1, !.active = active]
        BY <1>3, <2>3 DEF AppendLine
      <3>2. proc'.pc = "init" /\ proc'.n = proc.n + 1 /\ DOMAIN proc' = ProcFields
        BY <1>2, <3>1 DEF ProcFields
      <3>3. ProcTypes' /\ EvidenceOfCall'
        BY <1>2, <3>2 DEF ProcTypes, EvidenceOfCall, SearchPlaces, Making
      <3> QED
        BY <1>1, <2>1, <2>3, <3>2, <3>3, MakingStep DEF Making
    <2> QED
      BY <2>2, <2>3
  <1>4. CASE AppendUnknown
    <2>1. TypeOK' /\ EvidenceIsOwn'
      <3>1. CASE archive' = Append(archive, Line) /\ UNCHANGED torn
        BY <1>1, <3>1, Appended DEF EvoInv, TypeOK
      <3>2. CASE torn' = TRUE /\ UNCHANGED archive
        BY <1>1, <3>2 DEF EvoInv, TypeOK, EvidenceIsOwn
      <3> QED
        BY <1>4, <3>1, <3>2 DEF AppendUnknown
    <2>2. proc'.pc = "off"
      BY <1>4 DEF AppendUnknown, Return, Off
    <2>3. ProcTypes' /\ EvidenceOfCall'
      BY <2>2 DEF ProcTypes, EvidenceOfCall, SearchPlaces, Making
    <2> QED
      BY <1>1, <2>1, <2>2, <2>3, MakingStep DEF Making
  <1> QED
    BY <1>3, <1>4

LEMMA AppendOutcomeKeeps ==
  ASSUME EvoInv, AppendOutcome
  PROVE  EvoInv'
  <1>1. /\ proc.pc = "journal" /\ InBatch /\ UNCHANGED <<tree, archive, torn, state, dir, seeds, started, kills>>
        /\ DOMAIN proc = ProcFields /\ proc.n \in Nat /\ proc.n < Offspring
    BY DEF EvoInv, ProcTypes, ProcFollowsState, AppendOutcome, At, Else
  <1>2. state # NoState /\ Target = state.pending /\ Target \in 1..MaxRounds
    BY <1>1, IterationBounds
  <1>3. TypeOK'
    <2> DEFINE o == [iteration |-> Target, attempt |-> proc.n, island |-> Island, code |-> proc.outcome.code,
                     candidate |-> proc.outcome.candidate]
    <2>1. Island \in Islands
      BY <1>1, EvolutionAssumption DEF Island, Islands
    <2>2. proc.n \in 0..(Offspring - 1)
      BY <1>1, EvolutionAssumption
    <2>3. /\ proc.outcome.code \in {"evaluated", "candidate_failed", "evaluator_timeout"} /\ proc.outcome.candidate \in Nat
          /\ proc.outcome.code = "evaluated" <=> proc.outcome.candidate # 0
      BY <1>1 DEF EvoInv, ProcTypes
    <2>4. o \in OffspringOutcome
      BY <1>2, <2>1, <2>2, <2>3 DEF OffspringOutcome
    <2>5. outcomes' = Append(outcomes, o)
      BY DEF AppendOutcome
    <2>6. outcomes' \in Seq(OffspringOutcome)
      BY <2>4, <2>5, AppendProperties DEF EvoInv, TypeOK
    <2> QED
      BY <1>1, <2>6 DEF EvoInv, TypeOK
  <1>4. /\ proc'.pc \in {"finish", "batch"} /\ proc'.n = proc.n + 1 /\ DOMAIN proc' = ProcFields
    BY <1>1 DEF AppendOutcome, ProcFields
  <1>5. (\A k \in DOMAIN seeds : ~seeds[k].stale)' /\ StateTypes' /\ EvidenceIsOwn' /\ (InBatch' <=> InBatch)
    BY <1>1 DEF EvoInv, StateTypes, EvidenceIsOwn, InBatch
  <1>6. TreeTypes' /\ ContractSurvives' /\ RootIsThere'
    BY <1>1, <1>4 DEF EvoInv, TreeTypes, ContractSurvives, RootIsThere
  <1>7. ProcTypes' /\ EvidenceOfCall'
    BY <1>1, <1>4 DEF ProcTypes, EvidenceOfCall, SearchPlaces, Making
  <1>8. ProcFollowsState'
    BY <1>1, <1>4, <1>5 DEF ProcFollowsState, Making, Between
  <1>9. AttemptsFollow'
    <2>1. ASSUME NEW k \in Attempts, k >= proc'.n PROVE started[<<state.pending, k>>] = 0
      <3>1. k > proc.n
        BY <1>1, <1>4, <2>1, EvolutionAssumption DEF Attempts
      <3> QED
        BY <1>1, <3>1 DEF EvoInv, AttemptsFollow
    <2> QED
      BY <1>1, <1>4, <2>1 DEF EvoInv, AttemptsFollow, Reached, Terminal, Making
  <1> QED
    BY <1>3, <1>5, <1>6, <1>7, <1>8, <1>9 DEF EvoInv

LEMMA KillKeeps ==
  ASSUME EvoInv, Kill
  PROVE  EvoInv'
  <1>1. proc' = Off /\ kills' = kills + 1 /\ kills < MaxKills /\ torn' \in BOOLEAN /\ UNCHANGED <<seeds, archive, outcomes, state, dir, started>>
    BY DEF Kill, Return, EvoInv, TypeOK
  <1>2. TypeOK' /\ (\A k \in DOMAIN seeds : ~seeds[k].stale)' /\ StateTypes' /\ EvidenceIsOwn'
    BY <1>1, EvolutionAssumption DEF EvoInv, TypeOK, StateTypes, EvidenceIsOwn
  <1>3. ProcTypes' /\ ProcFollowsState' /\ EvidenceOfCall' /\ RootIsThere'
    BY <1>1 DEF ProcTypes, ProcFollowsState, EvidenceOfCall, RootIsThere, Off, SearchPlaces, Making, Between
  <1>4. TreeTypes' /\ ContractSurvives'
    BY DEF Kill, At, EvoInv, TreeTypes, ContractSurvives, RootIsThere
  <1>5. AttemptsFollow'
    BY <1>1 DEF EvoInv, AttemptsFollow, Reached, Terminal, Off, Making
  <1> QED
    BY <1>2, <1>3, <1>4, <1>5 DEF EvoInv

-----------------------------------------------------------------------------

\* A call of PopulationStrategy.run that resumes a killed one repeats no offspring attempt, appends no line with the evidence of
\* another call, and finds the contract the controller wrote: for any population, rounds, sources, seeds and kills, cut files and
\* failures of the generator, the evaluator and the archive included.
THEOREM ResumedSearchesAreClean == Spec => []ResumesCleanly
  <1>1. Init => EvoInv
    BY EvoInit
  <1>2. EvoInv /\ [Next]_vars => EvoInv'
    <2> SUFFICES ASSUME EvoInv, [Next]_vars PROVE EvoInv'
      OBVIOUS
    <2>1. CASE UNCHANGED vars
      <3>1. UNCHANGED <<seeds, tree, archive, torn, outcomes, state, dir, proc, started, kills>>
        BY <2>1 DEF vars
      <3> QED
        BY <3>1 DEF EvoInv, TypeOK, TreeTypes, StateTypes, ProcTypes, ProcFollowsState, EvidenceOfCall, RootIsThere, AttemptsFollow,
                    EvidenceIsOwn, ContractSurvives, Reached, Terminal, InBatch, Call
    <2>2. CASE Open \/ Clean \/ SeedStage \/ SwapOut \/ SwapIn \/ DropBackup \/ SeedFails \/ Gate
      BY <2>2, OpenKeeps, SeedingKeeps, SwapInKeeps, GateKeeps
    <2>3. CASE Populate \/ Announce \/ Conclude \/ BeginOffspringBatch \/ Cancel \/ FinishOffspringBatch
      BY <2>3, PopulateKeeps, AnnounceKeeps, ConcludeKeeps, BeginKeeps, CancelKeeps, FinishKeeps
    <2>4. CASE Generate \/ Evaluate \/ WriteReceipt \/ AppendRolledBack \/ AppendLine \/ AppendUnknown \/ AppendOutcome \/ Kill
      BY <2>4, GenerateKeeps, EvaluateKeeps, AppendKeeps, AppendOutcomeKeeps, KillKeeps
    <2> QED
      BY <2>1, <2>2, <2>3, <2>4 DEF Next
  <1>3. EvoInv => ResumesCleanly
    <2> SUFFICES ASSUME EvoInv PROVE ResumesCleanly
      OBVIOUS
    <2>1. AttemptedOnce
      <3> SUFFICES ASSUME NEW x \in DOMAIN started PROVE started[x] <= 1
        BY DEF AttemptedOnce
      <3>1. x \in (1..MaxRounds) \X Attempts
        BY DEF EvoInv, AttemptsFollow
      <3>2. x = <<x[1], x[2]>> /\ x[1] \in 1..MaxRounds /\ x[2] \in Attempts
        BY <3>1
      <3> QED
        BY <3>2 DEF EvoInv, AttemptsFollow
    <2> QED
      BY <2>1 DEF EvoInv, ResumesCleanly
  <1> QED
    BY <1>1, <1>2, <1>3, PTL DEF Spec
=============================================================================
