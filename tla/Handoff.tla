------------------------------ MODULE Handoff ------------------------------
(***************************************************************************)
(* Programs of an external producer become seeds of a search.  An exporter *)
(* copies selected rows of the producer's database, with their sources, to *)
(* a fresh directory; an admission reads a manifest of sources, evaluates  *)
(* a private copy of each and admits what it scored itself.  The producer  *)
(* goes on writing, several exporters share one destination, a candidate   *)
(* may overwrite its own copy while it is evaluated, and the published     *)
(* files may be edited.                                                    *)
(*                                                                         *)
(* A file is its content and a stamp that every write renews: device,      *)
(* inode, size and times.  A read compares the stamps around it and fails  *)
(* when they differ, so that an accepted read is one step.                 *)
(***************************************************************************)
EXTENDS Integers, FiniteSets

CONSTANTS
    Programs,
    Parent,      \* [Programs -> Programs \cup {NoParent}]: the producer's lineage, without cycles
    NoParent,
    Contents,
    Exporters,
    MaxEdits,    \* bound on writes by the producer, by candidates and by users
    MaxKills     \* bound on kills of exporters

ASSUME HandoffAssumption == MaxEdits \in Nat

VARIABLES
    native,      \* the producer is OpenEvolve, whose result is admitted where it lies, or ShinkaEvolve
    db,          \* ShinkaEvolve's database: rows, signature, an open transaction
    source,      \* the producer's files: one per program, and best
    past,        \* history: the rows that belonged to each signature of the database
    exporter,    \* each export call
    export,      \* the published directory
    admission,   \* the admission call
    edits, exportKills

producer == <<native, db, source, past>>
handoffVars == <<native, db, source, past, exporter, export, admission, edits, exportKills>>

Missing == "missing"
NoExport == [env |-> << >>, lineage |-> << >>, files |-> << >>, by |-> "nobody", sig |-> 0]
ExportIdle == [pc |-> "idle", sig |-> 0, rows |-> << >>, lineage |-> << >>]
NoCopy == [c |-> Missing, v |-> 0]
AdmissionIdle == [pc |-> "idle", root |-> "none", seeds |-> << >>, seed |-> "none",
                  original |-> NoCopy, copy |-> NoCopy, stamp |-> 0, seen |-> Missing,
                  report |-> "none", admitted |-> << >>, done |-> {}]

Published == export.by # "nobody"
Present(rows) == {p \in Programs : rows[p] # Missing}

---------------------------------------------------------------------------
(* The producer, users and candidates write.                               *)

Edit == edits < MaxEdits /\ edits' = edits + 1

\* A transaction is open while a write-ahead log or a journal lies beside the database.
BeginTransaction ==
    /\ ~native /\ ~db.open /\ edits < MaxEdits
    /\ db' = [db EXCEPT !.open = TRUE]
    /\ UNCHANGED <<native, source, past, exporter, export, admission, edits, exportKills>>

EndTransaction ==
    /\ db.open /\ Edit
    /\ \E p \in Programs, c \in Contents :
         /\ db' = [rows |-> [db.rows EXCEPT ![p] = c], sig |-> db.sig + 1, open |-> FALSE]
         /\ past' = [past EXCEPT ![db.sig + 1] = db'.rows]
    /\ UNCHANGED <<native, source, exporter, export, admission, exportKills>>

WriteSource ==
    /\ Edit
    /\ \E k \in Programs \cup {"best"}, c \in Contents : source' = [source EXCEPT ![k] = [c |-> c, v |-> edits']]
    /\ UNCHANGED <<native, db, past, exporter, export, admission, exportKills>>

EditExport ==
    /\ Published /\ Edit
    /\ \E p \in DOMAIN export.files, c \in Contents : export' = [export EXCEPT !.files[p] = [c |-> c, v |-> edits']]
    /\ UNCHANGED <<producer, exporter, admission, exportKills>>

---------------------------------------------------------------------------
(* export_shinka_result                                                    *)

ExportAt(e, pc) == exporter[e].pc = pc
ExportEnds(e) == exporter' = [exporter EXCEPT ![e] = [ExportIdle EXCEPT !.pc = "ended"]]

\* _select_rows: the requested programs, all of which must be there, or the best one.
SelectRows(rows, wanted) ==
    LET chosen == IF wanted = {} THEN {CHOOSE p \in Present(rows) : TRUE} ELSE wanted IN
    [p \in chosen |-> rows[p]]

\* _lineage: every ancestor has a row.
Ancestors(p) ==
    LET up[n \in 0..Cardinality(Programs)] ==
          IF n = 0 THEN {p} ELSE up[n - 1] \cup {Parent[q] : q \in up[n - 1] \ {NoParent}}
    IN up[Cardinality(Programs)] \ {p, NoParent}
LineageHolds(p, rows) == Ancestors(p) \subseteq Present(rows)

\* _candidate_source: the generation's file, or best when there is none; it must be the row's code.
SourceOf(p) == IF source[p].c # Missing THEN source[p].c ELSE source["best"].c

\* _database_path, _database_signature, _open_database, _check_schema
ExportOpen(e) ==
    /\ ExportAt(e, "idle") /\ ~native /\ ~db.open /\ admission.pc = "idle"
    /\ \E wanted \in SUBSET Programs :
         /\ wanted \subseteq Present(db.rows) /\ Present(db.rows) # {}
         /\ exporter' = [exporter EXCEPT ![e] =
              [ExportIdle EXCEPT !.pc = "rows", !.sig = db.sig, !.rows = SelectRows(db.rows, wanted)]]
    /\ UNCHANGED <<producer, export, admission, edits, exportKills>>

\* The lineage and the source of each row; the database may have moved on.
ExportRead(e) ==
    /\ ExportAt(e, "rows")
    /\ LET rows == exporter[e].rows
           todo == DOMAIN rows \ DOMAIN exporter[e].lineage IN
       \E p \in todo :
         IF LineageHolds(p, db.rows) /\ SourceOf(p) = rows[p]
         THEN exporter' = [exporter EXCEPT ![e].lineage = [q \in DOMAIN @ \cup {p} |-> Ancestors(q)],
                                           ![e].pc = IF todo = {p} THEN "check" ELSE "rows"]
         ELSE ExportEnds(e)
    /\ UNCHANGED <<producer, export, admission, edits, exportKills>>

ExportCheck(e) ==
    /\ ExportAt(e, "check")
    /\ IF db.open \/ db.sig # exporter[e].sig THEN ExportEnds(e)
       ELSE exporter' = [exporter EXCEPT ![e].pc = "root"]
    /\ UNCHANGED <<producer, export, admission, edits, exportKills>>

\* _prepare_export_root, _make_staging_root: a private directory beside the destination, which
\* receives the files and the envelope.
ExportStage(e) ==
    /\ ExportAt(e, "root")
    /\ IF Published THEN ExportEnds(e)
       ELSE exporter' = [exporter EXCEPT ![e].pc = "commit"]
    /\ UNCHANGED <<producer, export, admission, edits, exportKills>>

\* ProducerMaterial, ProducerResultEnvelope: digests and lineage of what was read, not of the producer's scores.
Envelope(e) == exporter[e].rows

\* Writing or synchronising the private directory fails, and the call with it.
ExportWriteFails(e) ==
    /\ ExportAt(e, "commit") /\ exportKills < MaxKills /\ exportKills' = exportKills + 1
    /\ ExportEnds(e)
    /\ UNCHANGED <<producer, export, admission, edits>>

Tree(e) ==
    [env |-> Envelope(e), lineage |-> exporter[e].lineage, by |-> e, sig |-> exporter[e].sig,
     files |-> [p \in DOMAIN Envelope(e) |-> [c |-> Envelope(e)[p], v |-> 0]]]

\* _rename_noreplace: the destination may have appeared since it was looked for.
ExportCommit(e) ==
    /\ ExportAt(e, "commit")
    /\ export' = IF Published THEN export ELSE Tree(e)
    /\ ExportEnds(e)
    /\ UNCHANGED <<producer, admission, edits, exportKills>>

\* A killed call leaves a private directory that nobody looks at again; it is called again.
ExportKilled(e) ==
    /\ ExportAt(e, "commit") /\ exportKills < MaxKills /\ exportKills' = exportKills + 1
    /\ exporter' = [exporter EXCEPT ![e] = ExportIdle]
    /\ UNCHANGED <<producer, export, admission, edits>>

---------------------------------------------------------------------------
(* admit_seed_manifest                                                     *)

AdmitAt(pc) == admission.pc = pc
Go(pc) == admission' = [admission EXCEPT !.pc = pc]

\* What the manifest's source root holds for a seed.
FileAt(root, p) == IF root = "export" THEN export.files[p] ELSE source[p]

\* SeedManifest: the declared digest of each seed's source.
Manifest(root, digests) ==
    [AdmissionIdle EXCEPT !.pc = "seeds", !.root = root, !.seeds = digests]

\* _prepare_producer_envelope: every file of the envelope must be as the envelope says.
EnvelopeHolds == \A p \in DOMAIN export.env : export.files[p].c = export.env[p]

\* prepare_producer_seed_manifest.  An admission and an export share the published directory alone:
\* a bound starts the one when no export is under way.
AdmitExport ==
    /\ AdmitAt("idle") /\ Published /\ exportKills = 0
    /\ \A e \in Exporters : exporter[e].pc \in {"idle", "ended"}
    /\ EnvelopeHolds
    /\ admission' = Manifest("export", export.env)
    /\ UNCHANGED <<producer, exporter, export, edits, exportKills>>

\* admit_openevolve_result: one program, read from the producer's own directory.
AdmitNative ==
    /\ AdmitAt("idle") /\ native
    /\ \E p \in Programs :
         /\ source[p].c # Missing
         /\ admission' = Manifest("producer", [q \in {p} |-> source[p].c])
    /\ UNCHANGED <<producer, exporter, export, edits, exportKills>>

Settle(p, admitted) ==
    admission' = [admission EXCEPT !.pc = "seeds", !.admitted = admitted, !.done = @ \cup {p}]

\* _adjudicate_seed up to the private copy: _safe_source_snapshot, _stage_source
SeedSnapshot ==
    /\ AdmitAt("seeds")
    /\ \E p \in DOMAIN admission.seeds \ admission.done :
         LET original == FileAt(admission.root, p) IN
         IF original.c # admission.seeds[p] THEN Settle(p, admission.admitted)
         ELSE admission' = [admission EXCEPT !.pc = "evaluate", !.seed = p, !.original = original,
                                             !.copy = [c |-> original.c, v |-> 0], !.stamp = 0]
    /\ UNCHANGED <<producer, exporter, export, edits, exportKills>>

\* The candidate writes its own source while the evaluator runs it.
OverwriteCopy ==
    /\ admission.pc \in {"evaluate", "recheck"} /\ Edit
    /\ \E c \in Contents : admission' = [admission EXCEPT !.copy = [c |-> c, v |-> edits']]
    /\ UNCHANGED <<producer, exporter, export, exportKills>>

Evaluate ==
    /\ AdmitAt("evaluate")
    /\ \E report \in {"valid", "invalid", "error"} :
         admission' = [admission EXCEPT !.pc = "recheck", !.seen = admission.copy.c, !.report = report]
    /\ UNCHANGED <<producer, exporter, export, edits, exportKills>>

\* EvaluatorReceipt, AdmittedSeed: the source that the local report is for.
Receipt(p) == [declared |-> admission.seeds[p], source |-> admission.original.c, evaluated |-> admission.seen]

\* _recheck_staged, _recheck_snapshot
CopyUnchanged == admission.copy.v = admission.stamp
OriginalUnchanged == FileAt(admission.root, admission.seed) = admission.original

WithSeed(p) == [q \in DOMAIN admission.admitted \cup {p} |->
                  IF q = p THEN Receipt(p) ELSE admission.admitted[q]]

\* Fault: the private copy is not looked at again after the evaluation.
SeedRecheckOriginal ==
    /\ AdmitAt("recheck")
    /\ Settle(admission.seed, IF OriginalUnchanged /\ admission.report = "valid"
                              THEN WithSeed(admission.seed) ELSE admission.admitted)
    /\ UNCHANGED <<producer, exporter, export, edits, exportKills>>

\* _adjudicate_seed after the evaluation; a seed that fails is rejected on its own.
SeedRecheck ==
    /\ AdmitAt("recheck")
    /\ Settle(admission.seed, IF CopyUnchanged /\ OriginalUnchanged /\ admission.report = "valid"
                              THEN WithSeed(admission.seed) ELSE admission.admitted)
    /\ UNCHANGED <<producer, exporter, export, edits, exportKills>>

\* Without an admitted seed the call fails with no_usable_seeds.
AdmitEnds ==
    /\ AdmitAt("seeds") /\ admission.done = DOMAIN admission.seeds
    /\ admission' = [admission EXCEPT !.pc = IF DOMAIN admission.admitted = {} THEN "failed" ELSE "admitted",
                                      !.original = NoCopy, !.copy = NoCopy, !.seen = Missing,
                                      !.seed = "none", !.stamp = 0, !.report = "none"]
    /\ UNCHANGED <<producer, exporter, export, edits, exportKills>>

---------------------------------------------------------------------------

HandoffInit ==
    /\ native \in BOOLEAN
    /\ \E c \in Contents, rows, files \in SUBSET Programs :
         /\ rows # {} /\ files \in {{}, rows} /\ (native => files = Programs)
         /\ db = [rows |-> [p \in Programs |-> IF p \in rows THEN c ELSE Missing], sig |-> 1, open |-> FALSE]
         /\ source = [k \in Programs \cup {"best"} |-> [c |-> IF k \in files \cup {"best"} THEN c ELSE Missing, v |-> 0]]
    /\ past = [n \in 1..MaxEdits + 1 |-> db.rows]
    /\ exporter = [e \in Exporters |-> ExportIdle]
    /\ export = NoExport /\ admission = AdmissionIdle
    /\ edits = 0 /\ exportKills = 0

HandoffNext ==
    \/ BeginTransaction \/ EndTransaction \/ WriteSource \/ EditExport
    \/ \E e \in Exporters :
         \/ ExportOpen(e) \/ ExportRead(e) \/ ExportCheck(e) \/ ExportStage(e)
         \/ ExportWriteFails(e) \/ ExportCommit(e) \/ ExportKilled(e)
    \/ AdmitExport \/ AdmitNative \/ SeedSnapshot \/ OverwriteCopy \/ Evaluate \/ SeedRecheck \/ AdmitEnds

HandoffSpec == HandoffInit /\ [][HandoffNext]_handoffVars

---------------------------------------------------------------------------

\* What is published was in the database all at once: the rows with their complete lineage belonged
\* to one signature, although rows, lineage and sources are read while the producer writes.
ExportIsSnapshot ==
    Published =>
        \A p \in DOMAIN export.env :
            /\ past[export.sig][p] = export.env[p]
            /\ export.lineage[p] \subseteq Present(past[export.sig])

\* A seed is admitted with the source that was declared and that the local evaluator really saw.
AdmittedAsEvaluated ==
    \A p \in DOMAIN admission.admitted :
        LET receipt == admission.admitted[p] IN
        receipt.source = receipt.declared /\ receipt.source = receipt.evaluated

\* A program that goes on changing is exported and admitted as it once was: the rows of one database
\* signature, and the source that was evaluated (export_shinka_result, admit_seed_manifest).
HandedOverAsWas == ExportIsSnapshot /\ AdmittedAsEvaluated
=============================================================================
