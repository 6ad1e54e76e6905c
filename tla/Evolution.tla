----------------------------- MODULE Evolution -----------------------------
(***************************************************************************)
(* The population search of evolution.py: one process at a time runs       *)
(* PopulationStrategy.run over the durable archive of a workspace and may  *)
(* be killed between any two durable writes; run is then called again.     *)
(*                                                                         *)
(* On disk: the directory trees of the seed transaction, archive.jsonl,    *)
(* offspring-outcomes.jsonl, state.json and the directory of the candidate *)
(* that is not archived yet.  A digest is the value it is a digest of.     *)
(* Candidates are numbered by their line in the archive.                   *)
(***************************************************************************)
EXTENDS Integers, Sequences, FiniteSets, SequencesExt, FiniteSetsExt

CONSTANTS
    PopulationSize, Offspring, NumIslands, MaxRounds, StagnationRounds,
    MigrationInterval, MigrationRate,   \* the rate in percent
    Sources,       \* what a generator can propose
    FamilyOf,      \* the algorithm family of a source, NoFamily if none
    NoFamily,
    ReportOf,      \* the evaluator's report on a source: valid or not, and its score
    SeedBatches,   \* the admitted seeds a run may start with, <<>> for none
    MaxKills,      \* bound on kills
    Environment    \* "torn", "unknown", "fail", "cancel", "stubborn"

ASSUME EvolutionAssumption ==
    /\ {PopulationSize, Offspring, NumIslands, MaxRounds, StagnationRounds} \subseteq Nat \ {0}
    /\ NumIslands <= PopulationSize
    /\ MigrationInterval \in Nat /\ MigrationRate \in 0..100
    /\ ReportOf \in [Sources -> [valid : BOOLEAN, score : Nat]] /\ MaxKills \in Nat

VARIABLES
    seeds,      \* context.initial_seeds
    tree,       \* the directories evolution, its seed stage and its backup
    archive,    \* the lines of archive.jsonl
    torn,       \* the last line of archive.jsonl is cut
    outcomes,   \* the lines of offspring-outcomes.jsonl
    state,      \* state.json
    dir,        \* evidence in the directory of the next candidate: whose call wrote it
    proc,       \* the process
    started,    \* history: offspring attempts whose generator was called, a bag of one or two
    kills

vars == <<seeds, tree, archive, torn, outcomes, state, dir, proc, started, kills>>

Islands == 0..(NumIslands - 1)
NoState == [status |-> "absent"]
None == [none |-> TRUE]
Empty == [i \in Islands |-> <<>>]
NoDir == [source |-> 0, execution |-> 0, receipt |-> 0]
Off == [pc |-> "off"]

\* A line of the archive; parent 0 is none.
Candidate ==
    [iteration : 0..MaxRounds, island : Islands, parent : Nat, source : Sources, valid : BOOLEAN,
     score : Nat, seed : BOOLEAN, stale : BOOLEAN]

\* _prepare_initial_seeds: an admitted seed is a candidate with a receipt for its own evidence.
ASSUME SeedsAssumption == \A batch \in SeedBatches : batch \in Seq(Candidate) /\ \A k \in DOMAIN batch : ~batch[k].stale

\* A line of the journal: only an evaluated attempt claims a candidate.
OffspringOutcome ==
    {o \in [iteration : 1..MaxRounds, attempt : 0..(Offspring - 1), island : Islands,
            code : {"evaluated", "candidate_failed", "evaluator_timeout", "worker_unknown", "run_failed"},
            candidate : Nat] : (o.code = "evaluated") <=> (o.candidate # 0)}

Ordinary(rs) == SelectSeq(rs, LAMBDA c : ~c.seed)
Count(S) == Cardinality(S)

\* The numbers in S, smallest first.
Ascending(S) == SelectSeq([k \in 1..Max(S \cup {0}) |-> k], LAMBDA k : k \in S)

---------------------------------------------------------------------------
(* Selection.                                                              *)

Capacity(i) == PopulationSize \div NumIslands + (IF i < PopulationSize % NumIslands THEN 1 ELSE 0)

ActiveIds(active) == UNION {ToSet(active[i]) : i \in Islands}

\* Sources share no tokens, so the distance to the nearest peer is 0 for an equal source, else 1.
Novelty(rs, id, peers) == IF \E p \in peers \ {id} : rs[p].source = rs[id].source THEN 0 ELSE 1

\* The sort key, largest first: score, novelty, identifier (a seed's sorts after a candidate's).
RanksBefore(rs, all, a, b) ==
    \/ rs[a].score > rs[b].score
    \/ /\ rs[a].score = rs[b].score
       /\ LET na == Novelty(rs, a, all)
              nb == Novelty(rs, b, all)
          IN  \/ na > nb
              \/ na = nb /\ (rs[a].seed = rs[b].seed => a > b) /\ (rs[b].seed => rs[a].seed)

Rank(rs, ids, all) == SortSeq(Ascending(ids), LAMBDA a, b : RanksBefore(rs, all, a, b))

\* The best valid candidate of each family, in rank order.
FamilyElites(rs, ranked) ==
    LET fam(k) == FamilyOf[rs[ranked[k]].source]
        firsts == {k \in 1..Len(ranked) :
                     /\ rs[ranked[k]].valid /\ fam(k) # NoFamily
                     /\ \A j \in 1..(k - 1) : rs[ranked[j]].valid => fam(j) # fam(k)}
    IN  [n \in 1..Count(firsts) |-> ranked[Ascending(firsts)[n]]]

TrimIsland(rs, ids, all, capacity) ==
    LET ranked == Rank(rs, ids, all)
        valid  == SelectSeq(ranked, LAMBDA id : rs[id].valid)
        elites == FamilyElites(rs, ranked)
        first  == {valid[1]}
        chosen == first \cup ToSet(elites)
        order  == <<valid[1]>> \o SelectSeq(elites, LAMBDA id : id \notin first)
                               \o SelectSeq(valid, LAMBDA id : id \notin chosen)
    IN  IF valid = <<>> THEN <<>> ELSE SubSeq(order, 1, Min({Len(order), capacity}))

\* Fault: an island keeps its newest candidates instead of its best.
TrimNewest(rs, active) ==
    [i \in Islands |-> LET valid == {id \in ToSet(active[i]) : rs[id].valid}
                           s == SortSeq(Ascending(valid), LAMBDA a, b : a > b)
                       IN  SubSeq(s, 1, Min({Len(s), Capacity(i)}))]

Trim(rs, active) ==
    [i \in Islands |-> TrimIsland(rs, ToSet(active[i]), ActiveIds(active), Capacity(i))]

\* Ring migration: the best Migrants of each island with more than one candidate move on together.
Migrants == Max({1, (Capacity(0) * MigrationRate) \div 100})

Migrates(iteration) ==
    /\ NumIslands > 1 /\ MigrationInterval > 0 /\ MigrationRate > 0
    /\ iteration % MigrationInterval = 0

Movers(rs, active, i) ==
    LET ranked == Rank(rs, ToSet(active[i]), ActiveIds(active))
    IN  IF Len(active[i]) > 1 THEN SubSeq(ranked, 1, Min({Len(ranked), Migrants})) ELSE <<>>

Migrate(rs, active, iteration) ==
    LET gone == UNION {ToSet(Movers(rs, active, i)) : i \in Islands}
        back(i) == (i + NumIslands - 1) % NumIslands
        moved == [i \in Islands |->
                    SelectSeq(active[i], LAMBDA id : id \notin gone) \o Movers(rs, active, back(i))]
    IN  IF Migrates(iteration) THEN Trim(rs, moved) ELSE active

Migrated(rs, active, iteration) ==
    Migrates(iteration) /\ \E i \in Islands : Movers(rs, active, i) # <<>>

\* The (at most three) candidates a parent is drawn from: family elites first.
ParentPool(rs, active, i) ==
    LET ids    == IF active[i] # <<>> THEN ToSet(active[i]) ELSE ActiveIds(active)
        ranked == Rank(rs, ids, ActiveIds(active))
        elites == FamilyElites(rs, ranked)
        order  == elites \o SelectSeq(ranked, LAMBDA id : id \notin ToSet(elites))
    IN  {id \in DOMAIN rs : id \in ToSet(SubSeq(order, 1, Min({3, Len(order)})))}

BestScore(rs) == Max({0} \cup {c.score : c \in {d \in ToSet(rs) : d.valid}})

\* archive.best: the first line with the highest score, 0 if there is none.
Best(rs) ==
    LET top == {id \in DOMAIN rs : rs[id].valid /\ rs[id].score = BestScore(rs)}
    IN  IF top = {} THEN 0 ELSE Min(top)

---------------------------------------------------------------------------
(* What state.json says, replayed from archive and journal.                *)

Batch(rs, iteration) == {id \in DOMAIN rs : ~rs[id].seed /\ rs[id].iteration = iteration}

Place(rs, active, ids) ==
    [i \in Islands |-> active[i] \o Ascending({id \in ids : rs[id].island = i})]

\* Replay of iteration n: active islands, stagnation and the last migration.
Replay(rs) ==
    LET first == [i \in Islands |->
                    Ascending({id \in DOMAIN rs : rs[id].iteration = 0 /\ rs[id].island = i})]
        upto(n) == SelectSeq(rs, LAMBDA c : c.iteration <= n)
        r[n \in 0..MaxRounds] ==
          IF n = 0
          THEN [active |-> IF \E id \in DOMAIN rs : rs[id].seed THEN first ELSE Trim(rs, first),
                stagnation |-> 0, migration |-> 0]
          ELSE LET a == Trim(rs, Place(rs, r[n-1].active, Batch(rs, n)))
               IN  [active |-> Migrate(rs, a, n),
                    stagnation |-> IF BestScore(upto(n)) > BestScore(upto(n - 1))
                                   THEN 0 ELSE r[n-1].stagnation + 1,
                    migration |-> IF Migrated(rs, a, n) THEN n ELSE r[n-1].migration]
    IN  r

\* _reconstruct_population_projection agrees with the stored projection.
ProjectionMatches(st, rs) ==
    LET p == Replay(rs)[st.iteration] IN
    /\ \A n \in 1..st.iteration : Batch(rs, n) # {}
    /\ ~((\E id \in DOMAIN rs : rs[id].seed) /\ (\E id \in Batch(rs, 0) : TRUE))
    /\ st.active = p.active /\ st.stagnation = p.stagnation /\ st.migration = p.migration
    /\ st.best = Best(SelectSeq(rs, LAMBDA c : c.iteration <= st.iteration))

\* _validate_reconstructed_status.
StatusPossible(st) ==
    LET nobody == \A i \in Islands : st.active[i] = <<>>
        fresh  == st.iteration = 0 /\ st.best = 0 /\ nobody /\ st.bind = None IN
    CASE st.status = "running" ->
           /\ st.error \notin {"cancelled", "no valid candidate", "offspring_batch_failed"}
           /\ ~(fresh /\ st.error = "evaluator_timeout")
      [] st.status = "completed" ->
           st.iteration = MaxRounds /\ st.stagnation < StagnationRounds /\ st.best # 0
      [] st.status = "stagnated" ->
           st.iteration > 0 /\ st.stagnation >= StagnationRounds /\ st.best # 0
      [] st.status = "cancelled" -> st.iteration < MaxRounds /\ st.error = "cancelled"
      [] st.status = "failed" ->
           /\ st.error # "none"
           /\ \/ st.failed # None
              \/ fresh /\ st.error \in {"candidate_failed", "evaluator_timeout"}
              \/ st.best = 0 /\ (st.iteration = MaxRounds \/ st.stagnation >= StagnationRounds)

Of(os, iteration) == {o \in ToSet(os) : o.iteration = iteration}
Attempts == 0..(Offspring - 1)
EvaluatedIn(os, iteration) == SelectSeq(os, LAMBDA o : o.iteration = iteration /\ o.code = "evaluated")
Complete(os, iteration) == {o.attempt : o \in Of(os, iteration)} = Attempts

\* _validate_outcome_history, the part that binds the journal to the state.
JournalBound(st, rs, os) ==
    IF st.bind = None
    THEN /\ os = <<>> /\ st.pending = 0 /\ st.failed = None
         /\ st.marks # None =>
              ~st.seeded /\ st.iteration = 0 /\ st.status \notin {"completed", "stagnated"}
         /\ \A id \in DOMAIN rs : rs[id].iteration <= st.iteration
    ELSE /\ st.bind.start <= st.iteration + 1
         /\ st.pending # 0 =>
              st.status = "running" /\ st.failed = None /\ st.pending = st.iteration + 1
         /\ st.failed # None =>
              /\ st.status = "failed" /\ st.failed.iteration = st.iteration + 1
              /\ st.failed.digest = Of(os, st.failed.iteration)
         /\ st.bind.start = st.iteration + 1 => st.pending # 0 \/ st.failed # None
         /\ \A n \in st.bind.start..st.iteration :
              Complete(os, n) /\ EvaluatedIn(os, n) # <<>>
         /\ st.bind.done = {o \in ToSet(os) : o.iteration <= st.iteration}
         /\ st.bind.baseline = SelectSeq(rs, LAMBDA c : c.iteration < st.bind.start)

\* ... and the part that pairs journal entries with archive lines.
JournalPaired(st, rs, os) ==
    st.bind # None =>
      /\ \A o \in ToSet(os) :
           /\ o.iteration >= st.bind.start /\ o.island = o.attempt % NumIslands
           /\ o.iteration > st.iteration =>
                \/ st.pending = o.iteration
                \/ /\ st.failed # None /\ st.failed.iteration = o.iteration
                   /\ Complete(os, o.iteration) /\ o.code # "evaluated"
           /\ o.code = "evaluated" =>
                /\ o.candidate \in DOMAIN rs
                /\ rs[o.candidate].iteration = o.iteration /\ rs[o.candidate].island = o.island
      /\ \A id \in DOMAIN rs : rs[id].iteration >= st.bind.start =>
           \E o \in ToSet(os) : o.code = "evaluated" /\ o.candidate = id
      /\ \A n \in 1..MaxRounds : Of(os, n) # {} =>
           [k \in 1..Len(EvaluatedIn(os, n)) |-> EvaluatedIn(os, n)[k].candidate]
             = Ascending(Batch(rs, n))

\* _allowed_delayed_root_ids: parentless offspring of a batch before which nothing was valid.
DelayedRoots(st, rs, os) ==
    IF st.bind = None THEN {} ELSE
    {id \in DOMAIN rs :
       /\ rs[id].parent = 0 /\ rs[id].iteration > 0
       /\ \E o \in ToSet(os) : o.code = "evaluated" /\ o.candidate = id
                               /\ (o.iteration <= st.iteration \/ Complete(os, o.iteration))
       /\ ~\E e \in DOMAIN rs : rs[e].iteration < rs[id].iteration /\ rs[e].valid}

\* validate_candidate_integrity: lineage, and evidence of the candidate's own evaluation.
LineageHolds(rs, roots) ==
    \A id \in DOMAIN rs : ~rs[id].seed =>
      /\ ~rs[id].stale
      /\ IF rs[id].parent = 0 THEN rs[id].iteration = 0 \/ id \in roots
         ELSE /\ rs[id].parent < id /\ rs[rs[id].parent].valid
              /\ rs[rs[id].parent].iteration < rs[id].iteration

\* _pending_candidate_archive_extension_matches: the archive grew by exactly the pending batch.
ExtensionMatches(st, rs, os) ==
    /\ st.pending # 0 /\ Complete(os, st.pending)
    /\ st.marks.digest = Ordinary(SelectSeq(rs, LAMBDA c : c.iteration # st.pending))
    /\ st.marks.digest = SubSeq(Ordinary(rs), 1, Len(st.marks.digest))

\* _validate_candidate_integrity_state.
IntegrityHolds(st, rs, os) ==
    IF st.marks = None THEN Ordinary(rs) = <<>> /\ st.seeded
    ELSE \/ Ordinary(rs) = <<>> /\ st.marks.digest = <<>>
         \/ /\ Ordinary(rs) # <<>>
            /\ \/ st.pending # 0 /\ ~Complete(os, st.pending)
               \/ /\ LineageHolds(rs, DelayedRoots(st, rs, os))
                  /\ \/ st.marks.digest = Ordinary(rs)
                     \/ ExtensionMatches(st, rs, os)

\* _active: the stored islands are well formed and, under the current schema, are the replay.
ActiveHolds(st, rs, os) ==
    /\ \A id \in ActiveIds(st.active) : id \in DOMAIN rs /\ rs[id].valid
    /\ FoldFunction(LAMBDA s, n : Len(s) + n, 0, st.active) = Count(ActiveIds(st.active))
    /\ Count(ActiveIds(st.active)) <= PopulationSize
    /\ st.best # 0 => st.best \in DOMAIN rs /\ rs[st.best].valid
    /\ \/ st.marks = None
       \/ st.pending # 0 /\ ~Complete(os, st.pending)
       \/ ProjectionMatches(st, rs) /\ StatusPossible(st)

\* validate_initial_seeds: the archive starts with the admitted seeds of this run, if it has any.
SeedsHold(st, rs) ==
    /\ st.seeded = (seeds # <<>>)
    /\ seeds = SubSeq(rs, 1, Len(seeds)) /\ \A id \in DOMAIN rs : rs[id].seed => id <= Len(seeds)

\* Everything run() checks before it resumes from a state.
Accepted(st, rs, os) ==
    /\ SeedsHold(st, rs)
    /\ JournalBound(st, rs, os) /\ JournalPaired(st, rs, os)
    /\ IntegrityHolds(st, rs, os) /\ ActiveHolds(st, rs, os)

---------------------------------------------------------------------------
(* The seed transaction: three directories and two renames.                *)

\* The tree that commit_initial_seeds publishes, before anything else was written to it.
InitialTree == archive = seeds /\ outcomes = <<>> /\ state.status # "absent" /\ state.iteration = 0

Recognized == tree.backup \in {"absent", "contract"} /\ tree.stage \in {"absent", "complete"}

\* _recover_seed_publication raises verified_seed_recovery_ambiguous.
Ambiguous ==
    \/ ~Recognized
    \/ /\ tree.backup = "contract" /\ tree.root # "absent"
       /\ tree.stage # "absent" \/ ~(tree.root = "full" /\ InitialTree)
    \/ /\ tree.backup = "absent" /\ tree.stage = "complete"
       /\ tree.root # (IF tree.contract THEN "contract" ELSE "absent")

At(pc) == proc.pc = pc
Go(pc) == proc' = [proc EXCEPT !.pc = pc]
Return == proc' = Off
Disk == <<archive, torn, outcomes, state>>
Else == <<seeds, started, kills>>

\* CandidateArchive(): put the backup back, then remove what is left over.
Open ==
    /\ At("off") /\ ~Ambiguous
    /\ IF tree.backup = "contract" /\ tree.root = "absent"
       THEN tree' = [tree EXCEPT !.root = "contract", !.backup = "absent"]
       ELSE tree' = tree
    /\ proc' = [pc |-> IF tree'.stage # "absent" \/ tree'.backup # "absent" THEN "clean" ELSE "gate",
                active |-> Empty, n |-> 0, source |-> "", parent |-> 0,
                outcome |-> None, error |-> "none", judged |-> "none"]
    /\ UNCHANGED <<Disk, dir, Else>>

Clean ==
    /\ At("clean")
    /\ tree' = [tree EXCEPT !.stage = "absent", !.backup = "absent"]
    /\ Go("gate")
    /\ UNCHANGED <<Disk, dir, Else>>

\* The private sibling directory is made and filled.
SeedStage ==
    /\ At("seed")
    /\ tree.root = (IF tree.contract THEN "contract" ELSE "absent")
    /\ tree' = [tree EXCEPT !.stage = IF @ = "absent" THEN "partial" ELSE "complete"]
    /\ Go(IF tree.stage = "absent" THEN "seed" ELSE IF tree.contract THEN "swapout" ELSE "swapin")
    /\ UNCHANGED <<Disk, dir, Else>>

\* Any exception before the last rename: the old root comes back and the stage goes.
SeedFails ==
    /\ "fail" \in Environment
    /\ proc.pc \in {"seed", "swapout", "swapin"} /\ tree.stage # "absent"
    /\ tree' = [tree EXCEPT !.stage = "absent",
                            !.root = IF tree.backup # "absent" THEN "contract" ELSE @,
                            !.backup = "absent"]
    /\ Return
    /\ UNCHANGED <<Disk, dir, Else>>

SwapOut ==
    /\ At("swapout")
    /\ tree' = [tree EXCEPT !.root = "absent", !.backup = "contract"]
    /\ Go("swapin")
    /\ UNCHANGED <<Disk, dir, Else>>

SeedActive == [i \in Islands |-> Ascending({k \in DOMAIN seeds : seeds[k].island = i})]

SwapIn ==
    /\ At("swapin")
    /\ tree' = [tree EXCEPT !.root = "full", !.stage = "absent"]
    /\ archive' = seeds
    /\ state' = [status |-> "running", iteration |-> 0, active |-> SeedActive, stagnation |-> 0,
                 error |-> "none", best |-> Best(seeds), migration |-> 0, pending |-> 0,
                 bind |-> None, failed |-> None, marks |-> None, seeded |-> TRUE]
    /\ Go("dropbackup")
    /\ UNCHANGED <<torn, outcomes, dir, Else>>

\* A backup that cannot be removed is left to the next constructor.
DropBackup ==
    /\ At("dropbackup")
    /\ \/ tree' = [tree EXCEPT !.backup = "absent"]
       \/ "stubborn" \in Environment /\ tree' = tree
    /\ Go("gate")
    /\ UNCHANGED <<Disk, dir, Else>>

---------------------------------------------------------------------------
(* run(): the gate, the initial population and the rounds.                 *)

Nobody(active) == \A i \in Islands : active[i] = <<>>

\* state.json is replaced at once.
WriteState(payload) == state' = payload /\ tree' = [tree EXCEPT !.root = "full"]

\* _state_payload and write_state.
Write(status, iteration, active, stagnation, error, migration, pending, bind, failed) ==
    LET old == IF state = NoState
               THEN [bind |-> None, failed |-> None, marks |-> None, seeded |-> FALSE] ELSE state
        marked == seeds = <<>> \/ pending # 0 \/ old.marks # None \/ Ordinary(archive) # <<>>
    IN  WriteState([status |-> status, iteration |-> iteration, active |-> active,
                    stagnation |-> stagnation, error |-> error, best |-> Best(archive),
                    migration |-> migration, pending |-> pending,
                    bind |-> IF bind = None THEN old.bind ELSE bind,
                    failed |-> IF failed = None THEN old.failed ELSE failed,
                    marks |-> IF marked THEN [digest |-> Ordinary(archive)] ELSE None,
                    seeded |-> old.seeded])

Iteration == IF state = NoState THEN 0 ELSE state.iteration
Stagnation == IF state = NoState THEN 0 ELSE state.stagnation
Migration == IF state = NoState THEN 0 ELSE state.migration

Terminal(st) == st.status \in {"completed", "stagnated", "cancelled", "failed"}

\* Both files are read whole before a decision: a cut line is an error.
Readable == ~torn
MayStart == state = NoState /\ archive = <<>> /\ Readable
MayResume == state # NoState /\ Readable /\ Accepted(state, archive, outcomes)

\* Fault: the attempts without an outcome are made again.
ResumeRest ==
    proc' = [proc EXCEPT !.pc = IF Complete(outcomes, state.pending) THEN "finish" ELSE "batch",
                         !.n = Count(Of(outcomes, state.pending)), !.active = state.active]

\* _resume_offspring_batch: a batch is finished from its journal, never continued.
ResumeOffspringBatch ==
    IF Complete(outcomes, state.pending)
    THEN proc' = [proc EXCEPT !.pc = "finish", !.active = state.active]
    ELSE Return

Gate ==
    /\ At("gate")
    /\ IF MayResume
       THEN CASE state.pending # 0 -> ResumeOffspringBatch
              [] state.pending = 0 /\ Terminal(state) -> Return
              [] OTHER ->
                   proc' = [proc EXCEPT !.pc = IF Nobody(state.active) /\ archive = <<>>
                                               THEN "init" ELSE "announce",
                                        !.active = state.active, !.error = state.error]
       ELSE IF MayStart /\ seeds = <<>> THEN Go("init")
       ELSE IF MayStart /\ tree.root # "full" THEN Go("seed") ELSE Return
    /\ UNCHANGED <<tree, Disk, dir, Else>>

Cancel ==
    /\ "cancel" \in Environment
    /\ (At("init") /\ proc.n < PopulationSize) \/ (At("loop") /\ Iteration < MaxRounds)
    /\ Write("cancelled", Iteration,
             IF At("init") THEN Trim(archive, proc.active) ELSE proc.active,
             Stagnation, "cancelled", Migration, 0, None, None)
    /\ Return
    /\ UNCHANGED <<archive, torn, outcomes, dir, Else>>

\* The initial population is complete: trim it, or give up when an evaluator failed and nobody lives.
Populate ==
    /\ At("init") /\ proc.n = PopulationSize
    /\ LET active == Trim(archive, proc.active) IN
       IF Nobody(active) /\ proc.judged # "none"
       THEN /\ Write("failed", Iteration, active, 0, proc.judged, Migration, 0, None, None)
            /\ Return
       ELSE /\ proc' = [proc EXCEPT !.pc = "announce", !.active = active]
            /\ UNCHANGED <<state, tree>>
    /\ UNCHANGED <<archive, torn, outcomes, dir, Else>>

Announce ==
    /\ At("announce")
    /\ Write("running", Iteration, proc.active, Stagnation, proc.error, Migration, 0, None, None)
    /\ Go(IF Iteration > 0 /\ Stagnation >= StagnationRounds THEN "stagnate" ELSE "loop")
    /\ UNCHANGED <<archive, torn, outcomes, dir, Else>>

\* No improvement for StagnationRounds, or all rounds done.
Conclude ==
    /\ At("stagnate") \/ (At("loop") /\ Iteration = MaxRounds)
    /\ LET found  == IF At("stagnate") THEN "stagnated" ELSE "completed"
           status == IF Best(archive) # 0 THEN found ELSE "failed"
           error  == IF proc.error # "none" THEN proc.error
                     ELSE IF status = "failed" THEN "no valid candidate" ELSE "none"
       IN  Write(status, Iteration, proc.active, Stagnation, error, Migration, 0, None, None)
    /\ Return
    /\ UNCHANGED <<archive, torn, outcomes, dir, Else>>

\* The intent to make a batch is durable before its first attempt.
BeginOffspringBatch ==
    /\ At("loop") /\ Iteration < MaxRounds
    /\ Of(outcomes, Iteration + 1) = {}
    /\ LET bind == IF state.bind # None THEN state.bind
                   ELSE [start |-> Iteration + 1, done |-> {}, baseline |-> archive]
       IN  Write("running", Iteration, proc.active, Stagnation, "none", Migration,
                 Iteration + 1, bind, None)
    /\ proc' = [proc EXCEPT !.pc = "batch", !.n = 0]
    /\ UNCHANGED <<archive, torn, outcomes, dir, Else>>

---------------------------------------------------------------------------
(* One candidate: source, evaluation, receipt and record, archive line.    *)

Call == kills + 1
InBatch == state # NoState /\ state.pending # 0
Target == IF InBatch THEN state.pending ELSE 0
Island == proc.n % NumIslands

\* The attempt failed with a fixed code: its directory is discarded.
Failed(code, judged) ==
    /\ dir' = NoDir
    /\ proc' = IF InBatch
               THEN [proc EXCEPT !.pc = "journal", !.outcome = [code |-> code, candidate |-> 0]]
               ELSE [proc EXCEPT !.pc = "init", !.n = @ + 1,
                                 !.error = IF @ = "none" THEN code ELSE @,
                                 !.judged = IF judged /\ @ = "none" THEN code ELSE @]

\* _discard_unarchived_candidate, then the source is written.
Stage == [source |-> Call, execution |-> 0, receipt |-> 0]

Generate ==
    /\ (At("init") /\ proc.n < PopulationSize) \/ (At("batch") /\ proc.n < Offspring)
    /\ started' = IF InBatch THEN [started EXCEPT ![<<Target, proc.n>>] = @ + 1] ELSE started
    /\ \/ "fail" \in Environment /\ Failed("candidate_failed", FALSE)
       \/ \E source \in Sources :
          \E parent \in IF InBatch /\ ~Nobody(proc.active)
                        THEN ParentPool(archive, proc.active, Island) ELSE {0} :
            /\ dir' = Stage
            /\ proc' = [proc EXCEPT !.pc = "evaluate", !.source = source, !.parent = parent]
    /\ UNCHANGED <<tree, Disk, seeds, kills>>

\* The evaluator may leave execution evidence next to the source.
Evaluate ==
    /\ At("evaluate")
    /\ \/ "fail" \in Environment /\ Failed("evaluator_timeout", TRUE)
       \/ /\ dir' \in {dir, [dir EXCEPT !.execution = Call]}
          /\ Go("receipt")
    /\ UNCHANGED <<tree, Disk, Else>>

\* The receipt binds the evidence that is there; a failed write discards all.
WriteReceipt ==
    /\ At("receipt")
    /\ \/ dir' = [dir EXCEPT !.receipt = Call] /\ Go("append")
       \/ "fail" \in Environment /\ Failed("candidate_failed", TRUE)
    /\ UNCHANGED <<tree, Disk, Else>>

Line ==
    [iteration |-> Target, island |-> Island, parent |-> proc.parent, source |-> proc.source,
     valid |-> ReportOf[proc.source].valid, score |-> ReportOf[proc.source].score, seed |-> FALSE,
     stale |-> dir.execution \notin {0, dir.receipt}]

AppendLine ==
    /\ At("append")
    /\ archive' = Append(archive, Line) /\ dir' = NoDir
    /\ LET id == Len(archive) + 1 IN
       proc' = IF InBatch
               THEN [proc EXCEPT !.pc = "journal",
                                 !.outcome = [code |-> "evaluated", candidate |-> id]]
               ELSE [proc EXCEPT !.pc = "init", !.n = @ + 1,
                                 !.active[Island] = IF Line.valid THEN Append(@, id) ELSE @]
    /\ tree' = [tree EXCEPT !.root = "full"]
    /\ UNCHANGED <<torn, outcomes, state, Else>>

\* The append fails and is rolled back ...
AppendRolledBack ==
    /\ At("append") /\ "fail" \in Environment
    /\ Failed("candidate_failed", TRUE)
    /\ tree' = [tree EXCEPT !.root = "full"]
    /\ UNCHANGED <<Disk, Else>>

\* ... or cannot be: the error leaves run() and the evidence stays.
AppendUnknown ==
    /\ At("append") /\ "unknown" \in Environment
    /\ \/ archive' = Append(archive, Line) /\ UNCHANGED torn
       \/ torn' = TRUE /\ UNCHANGED archive
    /\ tree' = [tree EXCEPT !.root = "full"]
    /\ Return
    /\ UNCHANGED <<outcomes, state, dir, Else>>

AppendOutcome ==
    /\ At("journal")
    /\ outcomes' = Append(outcomes, [iteration |-> Target, attempt |-> proc.n, island |-> Island,
                                     code |-> proc.outcome.code,
                                     candidate |-> proc.outcome.candidate])
    /\ proc' = [proc EXCEPT !.pc = IF proc.n + 1 = Offspring THEN "finish" ELSE "batch",
                            !.n = @ + 1, !.outcome = None]
    /\ UNCHANGED <<tree, archive, torn, state, dir, Else>>

---------------------------------------------------------------------------
(* The end of a batch.                                                     *)

BatchFails ==
    Write("failed", Iteration, proc.active, Stagnation, "offspring_batch_failed", Migration, 0, None,
          [iteration |-> Target, digest |-> Of(outcomes, Target)])

\* Fault: stagnation is counted against the best candidate at hand, which includes the new batch.
PreviousBestNow == BestScore(archive)

PreviousBest == BestScore(SelectSeq(archive, LAMBDA c : c.iteration <= Iteration))

BatchSucceeds ==
    LET placed == [i \in Islands |-> proc.active[i] \o
                     Ascending({o.candidate : o \in {q \in Of(outcomes, Target) :
                                     q.code = "evaluated" /\ q.island = i}})]
        trimmed == Trim(archive, placed)
        active  == Migrate(archive, trimmed, Target)
        moved   == Migrated(archive, trimmed, Target)
        stag    == IF BestScore(archive) > PreviousBest THEN 0 ELSE Stagnation + 1
        error   == IF \A o \in Of(outcomes, Target) : o.code = "evaluated"
                   THEN "none" ELSE "offspring_attempt_failed"
    IN  /\ Write("running", Target, active, stag, error, IF moved THEN Target ELSE Migration, 0,
                 [state.bind EXCEPT !.done = ToSet(outcomes)], None)
        /\ proc' = [proc EXCEPT !.pc = IF stag >= StagnationRounds THEN "stagnate" ELSE "loop",
                                !.active = active, !.error = error, !.n = 0]

FinishOffspringBatch ==
    /\ At("finish")
    /\ IF EvaluatedIn(outcomes, Target) = <<>> THEN BatchFails /\ Return ELSE BatchSucceeds
    /\ UNCHANGED <<archive, torn, outcomes, dir, Else>>

\* The process dies; what it was writing may be cut.
Kill ==
    /\ ~At("off") /\ kills < MaxKills
    /\ kills' = kills + 1 /\ Return
    /\ \/ At("clean") /\ tree' \in {tree, [tree EXCEPT !.stage = IF @ = "absent" THEN @ ELSE "partial",
                                                     !.backup = IF @ = "absent" THEN @ ELSE "partial"]}
       \/ At("dropbackup") /\ tree' \in {tree, [tree EXCEPT !.backup = IF @ = "absent" THEN @ ELSE "partial"]}
       \/ proc.pc \notin {"clean", "dropbackup"} /\ UNCHANGED tree
    /\ torn' \in {torn, torn \/ ("torn" \in Environment /\ proc.pc \in {"append", "journal"})}
    /\ UNCHANGED <<seeds, archive, outcomes, state, dir, started>>

Init ==
    /\ seeds \in SeedBatches
    /\ \E contract \in IF seeds = <<>> THEN {TRUE} ELSE BOOLEAN :
         tree = [root |-> IF contract THEN "contract" ELSE "absent", stage |-> "absent",
                 backup |-> "absent", contract |-> contract]
    /\ archive = <<>> /\ torn = FALSE /\ outcomes = <<>> /\ state = NoState /\ dir = NoDir
    /\ proc = Off /\ kills = 0
    /\ started = [x \in (1..MaxRounds) \X Attempts |-> 0]

Next ==
    \/ Open \/ Clean \/ SeedStage \/ SwapOut \/ SwapIn \/ DropBackup \/ Gate
    \/ Populate \/ Announce \/ Conclude \/ BeginOffspringBatch
    \/ Generate \/ Evaluate \/ WriteReceipt \/ AppendLine \/ AppendOutcome \/ FinishOffspringBatch
    \/ SeedFails \/ Cancel \/ AppendRolledBack \/ AppendUnknown \/ Kill

Spec == Init /\ [][Next]_vars

---------------------------------------------------------------------------

\* A call of run() would be refused although nothing was cut or lost: resuming accepts whatever the
\* program itself left behind, except in the windows where it cannot know what happened (a
\* population without a state, a batch whose attempts are not all journalled).
OwnStatesAccepted ==
    At("off") /\ state # NoState /\ ~torn =>
      \/ Accepted(state, archive, outcomes)
      \/ state.pending # 0 /\ ~Complete(outcomes, state.pending)
      \/ Ordinary(archive) # state.marks.digest /\ state.pending = 0

\* Selection, migration and trimming never lose the best score: an active candidate has the score
\* of the best candidate the state announces.
EliteSurvives ==
    state # NoState /\ state.best # 0 =>
      \E id \in ActiveIds(state.active) : archive[id].score = archive[state.best].score

\* An offspring attempt whose generator was called is never made again, whatever was killed.
AttemptedOnce == \A x \in DOMAIN started : started[x] <= 1

\* Execution evidence that an earlier, killed call left is never bound to a new candidate.
EvidenceIsOwn == \A id \in DOMAIN archive : ~archive[id].stale

\* The contract file the controller wrote survives the seed transaction and its recovery.
ContractSurvives ==
    tree.contract => tree.root # "absent" \/ tree.backup = "contract"

\* The lines of both journals are of their kinds, and the seeds are candidates.
TypeOK ==
    /\ archive \in Seq(Candidate) /\ seeds \in Seq(Candidate)
    /\ outcomes \in Seq(OffspringOutcome)
    /\ torn \in BOOLEAN /\ kills \in 0..MaxKills

\* A call that resumes a killed one repeats no attempt, takes over no stranger's evidence and finds the contract.
ResumesCleanly == TypeOK /\ AttemptedOnce /\ EvidenceIsOwn /\ ContractSurvives
=============================================================================
