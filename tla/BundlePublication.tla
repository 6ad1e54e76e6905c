------------------------- MODULE BundlePublication -------------------------
(***************************************************************************)
(* A batch of producer bundles enters the archive of a search all at once. *)
(* A publisher adjudicates the candidates, stages complete copies of the   *)
(* archive and of the state, leaves a marker and then moves everything     *)
(* into place.  The marker holds back every search from its first sight    *)
(* to the end of the batch; a batch that stops halfway keeps it.           *)
(*                                                                         *)
(* A search does not take the lock of the publishers.  It looks for the    *)
(* marker at each of its calls and reads or writes afterwards; and what it *)
(* writes as the state is what it has in memory since it read it.          *)
(***************************************************************************)
EXTENDS Integers, Sequences, FiniteSets

CONSTANTS
    Publishers,
    Batches,         \* journal identifiers
    Width,           \* candidates of a batch
    MaxFaults,       \* bound on failing writes and on kills of publishers
    MaxAppends       \* bound on the candidates that searches generate

ASSUME BundleAssumption ==
    /\ Width \in Nat
    /\ "none" \notin Batches /\ "search" \notin Batches
    /\ "free" \notin Publishers

VARIABLES
    archive,         \* archive.jsonl: the identifiers of its lines
    active,          \* state.json: the identifiers it names
    shown,           \* evolution/candidates
    marker,          \* producer-publication.json, and which temporary files lie beside it
    dir,             \* each batch's directory
    publisher,
    publicationLock, \* flock on the publication lock
    search,          \* the call of a search
    faults,
    late,            \* history: lines appended while a publisher held the lock or a marker stood
    spanned,         \* history: batches whose state was published during the call of a search
    torn             \* history: a temporary file was left beside the marker

archiveVars == <<archive, active, shown>>
excuses == <<late, spanned, torn>>
bundleVars == <<archive, active, shown, marker, dir, publisher, publicationLock, search, faults, late, spanned, torn>>

NoMarker == [status |-> "absent", batch |-> "none", draft |-> FALSE, successor |-> FALSE]
Absent == marker.status = "absent"
EmptyDir == [stage |-> "none", left |-> << >>, archive |-> << >>, active |-> {}, journal |-> "none",
             ids |-> << >>, manifest |-> FALSE, terminal |-> FALSE]
PublisherIdle == [pc |-> "idle", batch |-> "none", ids |-> << >>, archive |-> << >>, active |-> {}]

Lines == {archive[i] : i \in DOMAIN archive}
Members(ids) == {ids[i] : i \in DOMAIN ids}

At(p, pc) == publisher[p].pc = pc
Batch(p) == publisher[p].batch
Dir(p) == dir[Batch(p)]
Moves(p, pc) == publisher' = [publisher EXCEPT ![p].pc = pc]
Stops(p) == publisher' = [publisher EXCEPT ![p] = [@ EXCEPT !.pc = "ended"]]
SetDir(p, d) == dir' = [dir EXCEPT ![Batch(p)] = d]

Acquire(p) == publicationLock = "free" /\ publicationLock' = p
Release == publicationLock' = "free"

---------------------------------------------------------------------------
(* Planning: read only.                                                    *)

\* prepare_producer_bundle_manifest: the verified groups of a producer's material.
Bundles == 1..Width

\* build_producer_bundle_admission_plan: one candidate for each, in a fixed order.
Plan(b) == [i \in Bundles |-> <<b, i>>]

\* The candidates that execution and evaluation receipts admit: one or more, in the plan's order.
Adjudicated(b) ==
    {ids \in UNION {[1..n -> Members(Plan(b))] : n \in Bundles} :
        \A i, j \in DOMAIN ids : i < j => ids[i][2] < ids[j][2]}

\* The journal of the plan: the archive and the state it is based on.
BuildJournal(p) ==
    /\ At(p, "idle") /\ Batch(p) = "none"
    /\ \E b \in Batches : \E ids \in Adjudicated(b) :
         publisher' = [publisher EXCEPT ![p] = [pc |-> "preflight", batch |-> b, ids |-> ids,
                                                archive |-> archive, active |-> active]]
    /\ UNCHANGED <<archiveVars, marker, dir, publicationLock, search, faults, excuses>>

BaseHolds(p) == publisher[p].archive = archive /\ publisher[p].active = active

\* preflight_producer_bundle_publication
Preflight(p) ==
    /\ At(p, "preflight")
    /\ IF /\ Absent /\ BaseHolds(p)
          /\ Lines \cap Members(publisher[p].ids) = {}
       THEN Moves(p, "enter") ELSE Stops(p)
    /\ UNCHANGED <<archiveVars, marker, dir, publicationLock, search, faults, excuses>>

---------------------------------------------------------------------------
(* stage_producer_bundle_publication                                       *)

StageEnter(p) ==
    /\ At(p, "enter")
    /\ IF Dir(p).stage = "none" THEN Moves(p, "lock") ELSE Stops(p)
    /\ UNCHANGED <<archiveVars, marker, dir, publicationLock, search, faults, excuses>>

\* The base is confirmed under the lock, the marker is absent and the stage is made.
StageLock(p) ==
    /\ At(p, "lock") /\ publicationLock = "free"
    /\ IF BaseHolds(p) /\ Absent /\ Dir(p).stage = "none"
       THEN Moves(p, "files") /\ Acquire(p) /\ SetDir(p, [Dir(p) EXCEPT !.stage = "made"])
       ELSE Stops(p) /\ UNCHANGED <<dir, publicationLock>>
    /\ UNCHANGED <<archiveVars, marker, search, faults, excuses>>

\* Candidate directories, the archive and the state as they will be.
StageFiles(p) ==
    /\ At(p, "files") /\ Moves(p, "journal")
    /\ SetDir(p, [Dir(p) EXCEPT !.stage = "written", !.left = publisher[p].ids,
                                !.archive = publisher[p].archive \o publisher[p].ids,
                                !.active = publisher[p].active \cup Members(publisher[p].ids)])
    /\ UNCHANGED <<archiveVars, marker, publicationLock, search, faults, excuses>>

StageGone(p) == SetDir(p, [Dir(p) EXCEPT !.stage = "none", !.left = << >>, !.archive = << >>, !.active = {}])

\* journal.json, journal.staged.json and preflight.json are new files; an earlier attempt's stay and
\* refuse this one.
StageJournal(p) ==
    /\ At(p, "journal")
    /\ IF Dir(p).journal # "none" THEN StageGone(p) /\ Stops(p) /\ Release
       ELSE /\ SetDir(p, [Dir(p) EXCEPT !.journal = "publishing", !.ids = publisher[p].ids])
            /\ Moves(p, "manifest") /\ UNCHANGED publicationLock
    /\ UNCHANGED <<archiveVars, marker, search, faults, excuses>>

StageManifest(p) ==
    /\ At(p, "manifest") /\ Moves(p, "marker")
    /\ SetDir(p, [Dir(p) EXCEPT !.manifest = TRUE])
    /\ UNCHANGED <<archiveVars, marker, publicationLock, search, faults, excuses>>

\* _write_new of the marker: a temporary file, which must not lie there yet, ...
StageDraft(p) ==
    /\ At(p, "marker")
    /\ IF marker.draft THEN StageGone(p) /\ Stops(p) /\ Release /\ UNCHANGED marker
       ELSE marker' = [marker EXCEPT !.draft = TRUE] /\ Moves(p, "link") /\ UNCHANGED <<dir, publicationLock>>
    /\ UNCHANGED <<archiveVars, search, faults, excuses>>

\* ... a link to it at the marker's name, which searches see from here on ...
StageLink(p) ==
    /\ At(p, "link") /\ Moves(p, "linked")
    /\ marker' = [marker EXCEPT !.status = "staged", !.batch = Batch(p)]
    /\ UNCHANGED <<archiveVars, dir, publicationLock, search, faults, excuses>>

\* ... and the end of the temporary file.  Until then the marker has two links.
StageMarker(p) ==
    /\ At(p, "linked") /\ Moves(p, "commit") /\ Release
    /\ marker' = [marker EXCEPT !.draft = FALSE]
    /\ UNCHANGED <<archiveVars, dir, search, faults, excuses>>

Fault == faults < MaxFaults /\ faults' = faults + 1

\* A handler removes the temporary file; that may fail too, and is ignored.
Tidied(clean) ==
    \E gone \in BOOLEAN :
        /\ marker' = IF gone THEN clean ELSE marker
        /\ torn' = (torn \/ ~gone)

\* A write fails: without a marker the stage is removed, the files beside it are not.
StageFails(p) ==
    /\ publisher[p].pc \in {"files", "journal", "manifest", "marker", "link", "linked"} /\ Fault
    /\ IF Absent THEN StageGone(p) ELSE UNCHANGED dir
    /\ IF publisher[p].pc \in {"link", "linked"} THEN Tidied([marker EXCEPT !.draft = FALSE])
       ELSE UNCHANGED <<marker, torn>>
    /\ Stops(p) /\ Release
    /\ UNCHANGED <<archiveVars, search, late, spanned>>

---------------------------------------------------------------------------
(* commit_producer_bundle_publication                                      *)

\* _load_manifest, the staged journal, _verify_stage
StageVerified(b) ==
    /\ dir[b].manifest /\ dir[b].journal = "publishing"
    /\ dir[b].stage = "written" /\ dir[b].left = dir[b].ids

\* The stage is verified; then _replace_existing writes the marker's successor beside it.  It refuses a
\* marker with two links and a successor that lies there already.
CommitVerify(p) ==
    /\ At(p, "commit") /\ publicationLock = "free"
    /\ IF /\ marker.status = "staged" /\ marker.batch = Batch(p) /\ StageVerified(Batch(p))
          /\ ~marker.draft /\ ~marker.successor
       THEN marker' = [marker EXCEPT !.successor = TRUE] /\ Moves(p, "begin") /\ Acquire(p)
       ELSE Stops(p) /\ UNCHANGED <<marker, publicationLock>>
    /\ UNCHANGED <<archiveVars, dir, search, faults, excuses>>

\* Fault: the marker is removed before the files move.
CommitBeginBare(p) ==
    /\ At(p, "begin") /\ Moves(p, "move")
    /\ marker' = NoMarker
    /\ UNCHANGED <<archiveVars, dir, publicationLock, search, faults, excuses>>

\* From here on a failure is unknown: the marker says so.
CommitBegin(p) ==
    /\ At(p, "begin") /\ Moves(p, "move")
    /\ marker' = [marker EXCEPT !.status = "unknown", !.successor = FALSE]
    /\ UNCHANGED <<archiveVars, dir, publicationLock, search, faults, excuses>>

\* One candidate directory after the other; a target that exists ends the commit.
CommitMove(p) ==
    /\ At(p, "move") /\ Dir(p).left # << >>
    /\ IF Head(Dir(p).left) \in shown THEN Stops(p) /\ Release /\ UNCHANGED <<shown, dir>>
       ELSE /\ shown' = shown \cup {Head(Dir(p).left)}
            /\ SetDir(p, [Dir(p) EXCEPT !.left = Tail(@)])
            /\ UNCHANGED <<publisher, publicationLock>>
    /\ UNCHANGED <<archive, active, marker, search, faults, excuses>>

CommitArchive(p) ==
    /\ At(p, "move") /\ Dir(p).left = << >> /\ Moves(p, "state")
    /\ archive' = Dir(p).archive
    /\ UNCHANGED <<active, shown, marker, dir, publicationLock, search, faults, excuses>>

CommitState(p) ==
    /\ At(p, "state") /\ Moves(p, "terminal")
    /\ active' = Dir(p).active
    /\ spanned' = IF search.pc = "idle" THEN spanned ELSE spanned \cup {Batch(p)}
    /\ UNCHANGED <<archive, shown, marker, dir, publicationLock, search, faults, late, torn>>

AfterHolds(b) == archive = dir[b].archive /\ active = dir[b].active

\* What was moved is read back; then terminal.json.
CommitTerminal(p) ==
    /\ At(p, "terminal")
    /\ IF AfterHolds(Batch(p))
       THEN SetDir(p, [Dir(p) EXCEPT !.terminal = TRUE]) /\ Moves(p, "published") /\ UNCHANGED publicationLock
       ELSE Stops(p) /\ Release /\ UNCHANGED dir
    /\ UNCHANGED <<archiveVars, marker, search, faults, excuses>>

\* journal.published.json and journal.json
CommitJournal(p) ==
    /\ At(p, "published") /\ Moves(p, "unlink")
    /\ SetDir(p, [Dir(p) EXCEPT !.journal = "published"])
    /\ UNCHANGED <<archiveVars, marker, publicationLock, search, faults, excuses>>

CommitEnd(p) ==
    /\ At(p, "unlink") /\ Stops(p) /\ Release
    /\ marker' = NoMarker
    /\ UNCHANGED <<archiveVars, dir, search, faults, excuses>>

CommitFails(p) ==
    /\ publisher[p].pc \in {"begin", "move", "state", "terminal", "published", "unlink"} /\ Fault
    /\ IF At(p, "begin") THEN Tidied([marker EXCEPT !.successor = FALSE]) ELSE UNCHANGED <<marker, torn>>
    /\ Stops(p) /\ Release
    /\ UNCHANGED <<archiveVars, dir, search, late, spanned>>

---------------------------------------------------------------------------
(* A killed publisher drops the lock; its caller asks what is there.       *)

PublisherKilled(p) ==
    /\ publisher[p].pc \notin {"idle", "ended"} /\ Fault
    /\ Moves(p, "idle")
    /\ publicationLock' = IF publicationLock = p THEN "free" ELSE publicationLock
    /\ torn' = (torn \/ publisher[p].pc \in {"link", "linked", "begin"})
    /\ UNCHANGED <<archiveVars, marker, dir, search, late, spanned>>

\* _manifest, _verify_manifest_files, _check_preflight
EvidenceHolds(b) == dir[b].manifest /\ dir[b].stage = "written" /\ dir[b].left = dir[b].ids

\* resume_producer_bundle_publication reads only: an unknown marker is final, a published journal
\* must agree with the archive, and a complete stage may be committed.
Recovery(b) ==
    IF dir[b].journal = "none" \/ marker.status = "unknown" \/ (~Absent /\ marker.batch # b) THEN "error"
    ELSE IF dir[b].journal = "published" THEN (IF dir[b].terminal /\ AfterHolds(b) THEN "published" ELSE "error")
    ELSE IF EvidenceHolds(b) THEN "resume" ELSE "error"

Recover(p) ==
    /\ At(p, "idle") /\ Batch(p) # "none"
    /\ IF Recovery(Batch(p)) = "resume" THEN Moves(p, "commit") ELSE Stops(p)
    /\ UNCHANGED <<archiveVars, marker, dir, publicationLock, search, faults, excuses>>

---------------------------------------------------------------------------
(* A search in the same workspace.                                         *)

SearchMoves(pc) == search' = [search EXCEPT !.pc = pc]
SearchFrame == UNCHANGED <<marker, dir, publisher, publicationLock, faults, spanned, torn>>

\* The constructor of CandidateArchive.  This guard stands at the beginning of every call on the archive;
\* what the call reads or writes comes after it.
SearchStart ==
    /\ search.pc = "idle" /\ Absent /\ SearchMoves("read")
    /\ UNCHANGED <<archiveVars, late>> /\ SearchFrame

\* run: the state's population, or else the lines of the archive, or else a first candidate.
SearchRead ==
    /\ search.pc = "read"
    /\ search' = [search EXCEPT !.pc = IF active = {} /\ archive = << >> THEN "generate" ELSE "ready",
                                !.active = IF active = {} THEN Lines ELSE active,
                                !.seen = archive, !.seeds = TRUE]
    /\ UNCHANGED <<archiveVars, late>> /\ SearchFrame

\* _state: running at the start, completed, cancelled or stagnated at the end.
SearchSave ==
    /\ search.pc = "ready" /\ Absent /\ SearchMoves("save")
    /\ UNCHANGED <<archiveVars, late>> /\ SearchFrame

\* _begin_offspring_batch: once outcomes are recorded, the archive must be the one they belong to.
SearchBegin ==
    /\ search.pc = "ready" /\ Absent /\ search.made < MaxAppends
    /\ search.history => archive = search.seen
    /\ search' = [search EXCEPT !.pc = "begin", !.seen = archive, !.seeds = FALSE]
    /\ UNCHANGED <<archiveVars, late>> /\ SearchFrame

\* write_state replaces state.json by the population in memory.
SearchWrite ==
    /\ search.pc \in {"save", "begin", "finish"}
    /\ active' = search.active
    /\ search' = [search EXCEPT !.pc = IF @ = "begin" THEN "generate" ELSE "ready",
                                !.history = @ \/ search.pc = "begin"]
    /\ UNCHANGED <<archive, shown, late>> /\ SearchFrame

\* next_id, the directory and the source of a candidate, which is then evaluated.
SearchGenerate ==
    /\ search.pc = "generate" /\ Absent /\ search.made < MaxAppends
    /\ search' = [search EXCEPT !.pc = "evaluate", !.made = @ + 1]
    /\ shown' = shown \cup {<<"search", search.made + 1>>}
    /\ UNCHANGED <<archive, active, late>> /\ SearchFrame

Generated == <<"search", search.made>>

SearchPersist ==
    /\ search.pc = "evaluate" /\ Absent /\ SearchMoves("append")
    /\ UNCHANGED <<archiveVars, late>> /\ SearchFrame

\* The line goes to the file that has the archive's name now.
SearchAppend ==
    /\ search.pc = "append"
    /\ archive' = Append(archive, Generated)
    /\ late' = IF Absent /\ publicationLock = "free" THEN late ELSE late \cup {Generated}
    /\ search' = [search EXCEPT !.pc = IF search.seeds THEN "ready" ELSE "appended",
                                !.active = IF search.seeds THEN @ \cup {Generated} ELSE @,
                                !.seen = Append(@, Generated)]
    /\ UNCHANGED <<active, shown>> /\ SearchFrame

\* _finish_offspring_batch: the archive has grown by the candidates of the batch and by nothing else.
SearchFinish ==
    /\ search.pc = "appended" /\ Absent /\ archive = search.seen
    /\ search' = [search EXCEPT !.pc = "finish", !.active = @ \cup {Generated}]
    /\ UNCHANGED <<archiveVars, late>> /\ SearchFrame

\* It ends: completed, cancelled, refused by a guard or a check, or killed.
SearchStops ==
    /\ search.pc # "idle"
    /\ search' = [search EXCEPT !.pc = "idle", !.active = {}, !.seen = << >>, !.seeds = FALSE]
    /\ UNCHANGED <<archiveVars, late>> /\ SearchFrame

---------------------------------------------------------------------------

BundleInit ==
    /\ archive = << >> /\ active = {} /\ shown = {} /\ marker = NoMarker
    /\ dir = [b \in Batches |-> EmptyDir]
    /\ publisher = [p \in Publishers |-> PublisherIdle]
    /\ publicationLock = "free"
    /\ search = [pc |-> "idle", active |-> {}, seen |-> << >>, seeds |-> FALSE, history |-> FALSE, made |-> 0]
    /\ faults = 0 /\ late = {} /\ spanned = {} /\ torn = FALSE

BundleNext ==
    \/ \E p \in Publishers :
         \/ BuildJournal(p) \/ Preflight(p)
         \/ StageEnter(p) \/ StageLock(p) \/ StageFiles(p) \/ StageJournal(p) \/ StageManifest(p)
         \/ StageDraft(p) \/ StageLink(p) \/ StageMarker(p) \/ StageFails(p)
         \/ CommitVerify(p) \/ CommitBegin(p) \/ CommitMove(p) \/ CommitArchive(p) \/ CommitState(p) \/ CommitTerminal(p)
         \/ CommitJournal(p) \/ CommitEnd(p) \/ CommitFails(p)
         \/ PublisherKilled(p) \/ Recover(p)
    \/ SearchStart \/ SearchRead \/ SearchSave \/ SearchBegin \/ SearchWrite
    \/ SearchGenerate \/ SearchPersist \/ SearchAppend \/ SearchFinish \/ SearchStops

---------------------------------------------------------------------------

\* A batch is among the lines and the candidates as a whole once its journal says published, whatever
\* was published or appended since, and not at all before, except while the marker names it.
BatchIsWhole ==
    \A b \in Batches :
        IF dir[b].journal = "published"
        THEN Members(dir[b].ids) # {} /\ Members(dir[b].ids) \subseteq Lines \cap shown
        ELSE marker.batch = b \/ \A i \in Bundles : <<b, i>> \notin Lines \cup active \cup shown

\* The state names a published batch, unless a search was under way while the state was published: that
\* one writes the population it had read before.
BatchIsNamed ==
    \A b \in Batches :
        dir[b].journal = "published" => b \in spanned \/ Members(dir[b].ids) \subseteq active

\* A staged marker stops every search: whoever failed or died, recovery must find the stage complete, so
\* that the batch can be committed, unless a temporary file was left beside the marker.
StagedCanCommit ==
    marker.status = "staged" /\ publicationLock = "free" =>
        /\ Recovery(marker.batch) = "resume" /\ StageVerified(marker.batch)
        /\ marker.draft \/ marker.successor => torn

\* No batch is ever visible in part or lost again, and none is stuck.
PublicationIsWhole == BatchIsWhole /\ BatchIsNamed /\ StagedCanCommit

\* A publication replaces the archive and keeps every line in it, those of searches that wrote between
\* the plan and the stage included; only a line that came after its stage was begun may be lost.
LinesStay == [][Lines \ late \subseteq {archive'[i] : i \in DOMAIN archive'}]_bundleVars
=============================================================================
