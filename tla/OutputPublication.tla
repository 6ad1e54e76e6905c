------------------------- MODULE OutputPublication -------------------------
(***************************************************************************)
(* output_publication.py: the verified outputs of an evolved candidate are  *)
(* published into the workspace of the parent run, all or none.             *)
(*                                                                          *)
(* A publisher stages the bytes in a directory of its own, writes a journal,*)
(* hard-links the staged files to their final paths, syncs everything and   *)
(* commits one SQLite transaction.  Whoever finds the directory later       *)
(* reconciles it under the same lock: a committed batch is kept, any other  *)
(* one is removed and marked rolled back.                                   *)
(*                                                                          *)
(* Processes may be killed between any two steps (the kernel frees the      *)
(* lock), and the host may lose power: a directory entry that was not       *)
(* synced may then be missing, an unlink that was not synced may be undone. *)
(* The SQLite commit runs with synchronous = FULL and is atomic and durable.*)
(*                                                                          *)
(* One parent has one evolution child, so there is one batch; every request *)
(* for it carries the same bytes (a changed request is refused on entry).   *)
(***************************************************************************)
EXTENDS Integers, FiniteSets

CONSTANTS
    NumOutputs,     \* entries of the batch, linked in this order
    Procs,          \* processes that publish or recover
    Nobody,         \* the lock is free
    MaxCrashes,     \* bound: processes killed, power losses and exceptions
    Environment     \* outside events the instance explores

Outputs == 1 .. NumOutputs

ASSUME PublicationAssumption ==
    /\ NumOutputs \in Nat \ {0} /\ MaxCrashes \in Nat
    /\ Nobody \notin Procs
    /\ Environment \subseteq {"found", "foreign", "fault", "stop", "power"}

VARIABLES
    lock,       \* holder of .evolved-output-publications/.lock
    proc,       \* per process: where it is, why it reconciles, the entry it works on
    dir,        \* the directory of the batch
    blobs,      \* its staged files, all of them
    journal,    \* journal.json
    existed,    \* entries whose final path was taken before (recorded in the journal)
    tmp,        \* .rolled-back.json.tmp
    mark,       \* rolled-back.json
    target,     \* per entry, its final path
    committed,  \* output_publication_committed is in the ledger
    told,       \* outcomes that calls have returned
    crashes

batch == <<dir, blobs, journal, existed, tmp, mark, target>>
vars  == <<lock, proc, batch, committed, told, crashes>>

(* A directory entry is "volatile" until its directory is synced, and a        *)
(* "ghost" between its unlink and the sync of the directory.                   *)
Entry == {"absent", "volatile", "durable", "ghost"}
Present(e)   == e \in {"volatile", "durable"}
Synced(e)    == IF Present(e) THEN "durable" ELSE "absent"
AfterLoss(e) == IF e \in {"volatile", "ghost"} THEN {"absent", "durable"} ELSE {e}

(* A file at a final path: a link to our staged file, or somebody else's with  *)
(* the same or with other bytes.                                               *)
Kinds == {"none", "ours", "same", "other"}
Nothing == [st |-> "absent", kind |-> "none"]

Preparing    == {"mkdir", "sync_dir", "stage", "sync_stage", "journal", "sync_journal"}
Publishing   == {"verify", "link", "sync_link", "sync_outputs", "commit"}
Reconciling  == {"load", "unlink", "sync_unlink", "mark", "mark_tmp", "mark_link", "sync_mark"}
PCs          == {"idle", "publish", "recover", "begin", "returned"} \cup Preparing \cup Publishing
                  \cup Reconciling
Contexts     == {"none", "recover", "retry", "commit", "failed", "stopped"}

Idle == [pc |-> "idle", ctx |-> "none", at |-> 1]

TypeOK ==
    /\ lock \in Procs \cup {Nobody}
    /\ proc \in [Procs -> [pc : PCs, ctx : Contexts, at : 1 .. NumOutputs + 1]]
    /\ dir \in Entry /\ blobs \in Entry /\ journal \in Entry /\ mark \in Entry
    /\ existed \subseteq Outputs
    /\ tmp \in {"absent", "partial", "full"}
    /\ target \in [Outputs -> [st : Entry, kind : Kinds]]
    /\ committed \in BOOLEAN
    /\ told \subseteq {"committed", "rolled_back"}
    /\ crashes \in Nat

Init ==
    /\ lock = Nobody
    /\ proc = [p \in Procs |-> Idle]
    /\ dir = "absent" /\ blobs = "absent" /\ journal = "absent" /\ mark = "absent"
    /\ tmp = "absent" /\ existed = {}
    /\ target \in [Outputs -> {Nothing} \cup
                     (IF "found" \in Environment
                        THEN {[st |-> "volatile", kind |-> k] : k \in {"same", "other"}} ELSE {})]
    /\ committed = FALSE /\ told = {} /\ crashes = 0

At(p, label) == proc[p].pc = label
Goto(p, label) == proc' = [proc EXCEPT ![p].pc = label]
GotoAt(p, label, i) == proc' = [proc EXCEPT ![p].pc = label, ![p].at = i]

\* The call ends: the lock goes, and the caller has learnt `outcome` (a set of at most one).
Return(p, outcome) ==
    /\ proc' = [proc EXCEPT ![p] = Idle]
    /\ lock' = IF lock = p THEN Nobody ELSE lock
    /\ told' = told \cup outcome

\* Raise OutputPublicationUncertain.
Uncertain(p) == Return(p, {})

Reconcile(p, why) == proc' = [proc EXCEPT ![p] = [pc |-> "load", ctx |-> why, at |-> 1]]

Frame == UNCHANGED <<committed, crashes>>
Quiet == UNCHANGED <<lock, told>>

-----------------------------------------------------------------------------
(* publish_outputs.                                                            *)

\* publish_outputs and recover_output_batch wait for the lock; the latter first looks for the
\* directory without it.
Call(p, op) ==
    /\ At(p, "idle")
    /\ Goto(p, op)
    /\ UNCHANGED <<lock, batch, told>> /\ Frame

LookFirst(p) ==
    /\ At(p, "recover") /\ ~ Present(dir)
    /\ Return(p, {})
    /\ UNCHANGED batch /\ Frame

Acquire(p) ==
    /\ At(p, "publish") \/ (At(p, "recover") /\ Present(dir))
    /\ lock = Nobody
    /\ lock' = p
    /\ proc' = [proc EXCEPT ![p] = IF At(p, "publish")
                                     THEN [Idle EXCEPT !.pc = "begin"]
                                     ELSE [Idle EXCEPT !.pc = "load", !.ctx = "recover"]]
    /\ UNCHANGED <<batch, told>> /\ Frame

\* A directory is reconciled; without one the final paths are examined.
Begin(p) ==
    /\ At(p, "begin")
    /\ \/ /\ Present(dir)
          /\ Reconcile(p, "retry") /\ Quiet /\ UNCHANGED existed
       \/ /\ ~ Present(dir)
          /\ \/ committed
             \/ \E i \in Outputs : Present(target[i].st) /\ target[i].kind = "other"
          /\ Return(p, {}) /\ UNCHANGED existed
       \/ /\ ~ Present(dir) /\ ~ committed
          /\ \A i \in Outputs : Present(target[i].st) => target[i].kind # "other"
          /\ existed' = {i \in Outputs : Present(target[i].st)}
          /\ Goto(p, "mkdir") /\ Quiet
    /\ UNCHANGED <<dir, blobs, journal, tmp, mark, target>> /\ Frame

Mkdir(p) ==
    /\ At(p, "mkdir")
    /\ dir' = "volatile" /\ Goto(p, "sync_dir")
    /\ UNCHANGED <<blobs, journal, existed, tmp, mark, target>> /\ Quiet /\ Frame

SyncDir(p) ==
    /\ At(p, "sync_dir")
    /\ dir' = Synced(dir) /\ Goto(p, "stage")
    /\ UNCHANGED <<blobs, journal, existed, tmp, mark, target>> /\ Quiet /\ Frame

Stage(p) ==
    /\ At(p, "stage")
    /\ blobs' = "volatile" /\ Goto(p, "sync_stage")
    /\ UNCHANGED <<dir, journal, existed, tmp, mark, target>> /\ Quiet /\ Frame

SyncStage(p) ==
    /\ At(p, "sync_stage")
    /\ blobs' = Synced(blobs) /\ Goto(p, "journal")
    /\ UNCHANGED <<dir, journal, existed, tmp, mark, target>> /\ Quiet /\ Frame

WriteJournal(p) ==
    /\ At(p, "journal")
    /\ journal' = "volatile" /\ Goto(p, "sync_journal")
    /\ UNCHANGED <<dir, blobs, existed, tmp, mark, target>> /\ Quiet /\ Frame

SyncJournal(p) ==
    /\ At(p, "sync_journal")
    /\ journal' = Synced(journal) /\ Goto(p, "verify")
    /\ UNCHANGED <<dir, blobs, existed, tmp, mark, target>> /\ Quiet /\ Frame

\* _verify_files: a final path holds what it held before the batch, nothing, or our own link.
Verified ==
    \A i \in Outputs :
       IF Present(target[i].st)
         THEN target[i].kind = "ours" \/ (i \in existed /\ target[i].kind = "same")
         ELSE i \notin existed

Verify(p) ==
    /\ At(p, "verify")
    /\ IF Verified /\ ~ committed THEN GotoAt(p, "link", 1) ELSE Reconcile(p, "failed")
    /\ UNCHANGED batch /\ Quiet /\ Frame

\* os.link does not overwrite: a path that somebody took meanwhile makes it raise.
Link(p) ==
    LET i == proc[p].at IN
    /\ At(p, "link")
    /\ \/ i > NumOutputs /\ Goto(p, "sync_outputs") /\ UNCHANGED target
       \/ i \in existed /\ GotoAt(p, "link", i + 1) /\ UNCHANGED target
       \/ /\ i \in Outputs \ existed /\ Present(target[i].st)
          /\ Reconcile(p, "failed") /\ UNCHANGED target
       \/ /\ i \in Outputs \ existed /\ ~ Present(target[i].st)
          /\ target' = [target EXCEPT ![i] = [st |-> "volatile", kind |-> "ours"]]
          /\ Goto(p, "sync_link")
    /\ UNCHANGED <<dir, blobs, journal, existed, tmp, mark>> /\ Quiet /\ Frame

SyncLink(p) ==
    LET i == proc[p].at IN
    /\ At(p, "sync_link")
    /\ target' = [target EXCEPT ![i].st = Synced(@)]
    /\ GotoAt(p, "link", i + 1)
    /\ UNCHANGED <<dir, blobs, journal, existed, tmp, mark>> /\ Quiet /\ Frame

\* Fault: reused files are taken to be on disk.
SyncOutputsOurs(p) ==
    /\ At(p, "sync_outputs")
    /\ IF Verified THEN Goto(p, "commit") ELSE Reconcile(p, "failed")
    /\ UNCHANGED batch /\ Quiet /\ Frame

\* _sync_outputs between two verifications: reused files may never have been synced.
SyncOutputs(p) ==
    /\ At(p, "sync_outputs")
    /\ \/ /\ ~ Verified
          /\ Reconcile(p, "failed") /\ UNCHANGED target
       \/ /\ Verified
          /\ target' = [i \in Outputs |-> [target[i] EXCEPT !.st = Synced(@)]]
          /\ Goto(p, "commit")
    /\ UNCHANGED <<dir, blobs, journal, existed, tmp, mark>> /\ Quiet /\ Frame

\* commit_output_publication commits, or raises: refused (budget, parent ended) or after the
\* commit took effect.
Commit(p) ==
    /\ At(p, "commit")
    /\ \/ committed' = TRUE /\ Reconcile(p, "commit")
       \/ "fault" \in Environment /\ committed' = TRUE /\ Reconcile(p, "failed")
       \/ "fault" \in Environment /\ UNCHANGED committed /\ Reconcile(p, "failed")
    /\ UNCHANGED <<batch, crashes>> /\ Quiet

\* The continuation guard raises (budget of the solve, cancellation).
Stop(p) ==
    /\ "stop" \in Environment
    /\ \/ At(p, "begin") /\ Return(p, {})
       \/ /\ \/ At(p, "link") /\ proc[p].at <= NumOutputs
             \/ At(p, "commit") \/ At(p, "returned")
          /\ Reconcile(p, "stopped") /\ Quiet
    /\ UNCHANGED batch /\ Frame

\* Any other exception: during preparation the attempt is left as it is, afterwards reconciled.
Raise(p) ==
    /\ "fault" \in Environment /\ crashes < MaxCrashes
    /\ crashes' = crashes + 1
    /\ \/ proc[p].pc \in Preparing /\ Uncertain(p)
       \/ proc[p].pc \in Publishing /\ Reconcile(p, "failed") /\ Quiet
       \/ /\ proc[p].pc \in Reconciling
          /\ IF proc[p].ctx = "commit" THEN Reconcile(p, "failed") /\ Quiet ELSE Uncertain(p)
    /\ UNCHANGED <<batch, committed>>

-----------------------------------------------------------------------------
(* _reconcile.                                                                 *)

\* Reconciliation failed: inside publish_outputs after the commit it is tried once more.
GiveUp(p) ==
    IF proc[p].ctx = "commit" THEN Reconcile(p, "failed") /\ Quiet ELSE Uncertain(p)

\* What the caller of _reconcile makes of its status.
Conclude(p, status) ==
    \/ /\ proc[p].ctx \in {"recover", "retry", "failed"}
       /\ Return(p, {status})
    \/ /\ proc[p].ctx = "retry" /\ "stop" \in Environment     \* the guard raises
       /\ Return(p, {})
    \/ /\ proc[p].ctx = "commit" /\ status = "committed"
       /\ Goto(p, "returned") /\ Quiet
    \/ /\ proc[p].ctx = "commit" /\ status = "rolled_back"
       /\ Reconcile(p, "failed") /\ Quiet
    \/ /\ proc[p].ctx = "stopped"
       /\ Return(p, {})

\* The final guard of publish_outputs passed.
ReturnOutputs(p) ==
    /\ At(p, "returned")
    /\ Return(p, {"committed"})
    /\ UNCHANGED batch /\ Frame

Loadable == Present(journal) /\ Present(blobs)
Leftover == \E i \in Outputs \ existed : Present(target[i].st)

\* Fault: a batch that is not in the ledger is left for a human instead of rolled back.
LoadConfirmOnly(p) ==
    /\ At(p, "load")
    /\ IF Loadable /\ Verified /\ committed THEN Conclude(p, "committed") ELSE GiveUp(p)
    /\ UNCHANGED batch /\ Frame

\* Load the journal, verify the files, read the ledger, and decide.
Load(p) ==
    /\ At(p, "load")
    /\ \/ /\ \/ ~ Loadable \/ ~ Verified
             \/ Present(mark) /\ (committed \/ Leftover)
             \/ ~ Present(mark) /\ committed /\ \E i \in Outputs : ~ Present(target[i].st)
             \/ ~ Present(mark) /\ ~ committed /\ tmp = "partial"
          /\ GiveUp(p)
       \/ /\ Loadable /\ Verified
          /\ \/ Present(mark) /\ ~ committed /\ ~ Leftover /\ Goto(p, "sync_mark") /\ Quiet
             \/ /\ ~ Present(mark) /\ committed /\ \A i \in Outputs : Present(target[i].st)
                /\ Conclude(p, "committed")
             \/ /\ ~ Present(mark) /\ ~ committed /\ tmp # "partial"
                /\ GotoAt(p, "unlink", 1) /\ Quiet
    /\ UNCHANGED batch /\ Frame

\* Fault: the path is cleared whoever owns the file.
UnlinkAll(p) ==
    LET i == proc[p].at IN
    /\ At(p, "unlink")
    /\ \/ i > NumOutputs /\ Goto(p, "mark") /\ UNCHANGED target
       \/ /\ i \in Outputs
          /\ target' = [target EXCEPT ![i].st = IF Present(@) THEN "ghost" ELSE @]
          /\ Goto(p, "sync_unlink")
    /\ UNCHANGED <<dir, blobs, journal, existed, tmp, mark>> /\ Quiet /\ Frame

\* Remove our links one by one, each after another verification of the whole batch.
Unlink(p) ==
    LET i == proc[p].at IN
    /\ At(p, "unlink")
    /\ \/ i > NumOutputs /\ Goto(p, "mark") /\ UNCHANGED target /\ Quiet
       \/ i \in existed /\ GotoAt(p, "unlink", i + 1) /\ UNCHANGED target /\ Quiet
       \/ /\ i \in Outputs \ existed /\ ~ Present(target[i].st)
          /\ Goto(p, "sync_unlink") /\ UNCHANGED target /\ Quiet
       \/ /\ i \in Outputs \ existed /\ Present(target[i].st) /\ Verified
          /\ target' = [target EXCEPT ![i].st = "ghost"]
          /\ Goto(p, "sync_unlink") /\ Quiet
       \/ /\ i \in Outputs \ existed /\ Present(target[i].st) /\ ~ Verified
          /\ GiveUp(p) /\ UNCHANGED target
    /\ UNCHANGED <<dir, blobs, journal, existed, tmp, mark>> /\ Frame

\* Fault: an entry that is gone already is not synced.
SyncUnlinkSkipped(p) ==
    /\ At(p, "sync_unlink")
    /\ GotoAt(p, "unlink", proc[p].at + 1)
    /\ UNCHANGED batch /\ Quiet /\ Frame

\* Sync the directory, also for an entry that an earlier process unlinked.
SyncUnlink(p) ==
    LET i == proc[p].at IN
    /\ At(p, "sync_unlink")
    /\ target' = [target EXCEPT ![i].st = Synced(@)]
    /\ GotoAt(p, "unlink", i + 1)
    /\ UNCHANGED <<dir, blobs, journal, existed, tmp, mark>> /\ Quiet /\ Frame

\* _write_marker: create or adopt the temporary file, write it, link it, sync the directory.
Mark(p) ==
    /\ At(p, "mark")
    /\ \/ tmp = "absent" /\ tmp' = "partial" /\ Goto(p, "mark_tmp") /\ Quiet
       \/ tmp = "full" /\ Goto(p, "mark_link") /\ UNCHANGED tmp /\ Quiet
       \/ tmp = "partial" /\ GiveUp(p) /\ UNCHANGED tmp
    /\ UNCHANGED <<dir, blobs, journal, existed, mark, target>> /\ Frame

MarkTmp(p) ==
    /\ At(p, "mark_tmp")
    /\ tmp' = "full" /\ Goto(p, "mark_link")
    /\ UNCHANGED <<dir, blobs, journal, existed, mark, target>> /\ Quiet /\ Frame

MarkLink(p) ==
    /\ At(p, "mark_link")
    /\ mark' = "volatile" /\ tmp' = "absent" /\ Goto(p, "sync_mark")
    /\ UNCHANGED <<dir, blobs, journal, existed, target>> /\ Quiet /\ Frame

\* Fault: the mark is announced before it is on disk.
SyncMarkLater(p) ==
    /\ At(p, "sync_mark")
    /\ Conclude(p, "rolled_back")
    /\ UNCHANGED batch /\ Frame

SyncMark(p) ==
    /\ At(p, "sync_mark")
    /\ mark' = Synced(mark)
    /\ Conclude(p, "rolled_back")
    /\ UNCHANGED <<dir, blobs, journal, existed, tmp, target>> /\ Frame

-----------------------------------------------------------------------------
(* The outside world.                                                           *)

\* Somebody writes a file at a final path that is free, and need not sync it.
Foreign(i) ==
    /\ "foreign" \in Environment
    /\ target[i].st = "absent"
    /\ \E k \in {"same", "other"} : target' = [target EXCEPT ![i] = [st |-> "volatile", kind |-> k]]
    /\ UNCHANGED <<lock, proc, dir, blobs, journal, existed, tmp, mark, told>> /\ Frame

Kill(p) ==
    /\ crashes < MaxCrashes /\ ~ At(p, "idle")
    /\ crashes' = crashes + 1
    /\ proc' = [proc EXCEPT ![p] = Idle]
    /\ lock' = IF lock = p THEN Nobody ELSE lock
    /\ UNCHANGED <<batch, committed, told>>

\* What is left of a temporary file whose entry was never synced.
TmpAfterLoss ==
    CASE tmp # "absent" -> {"absent", tmp}
      [] tmp = "absent" /\ mark = "volatile" -> {"absent", "full"}
      [] OTHER -> {"absent"}

PowerLoss ==
    /\ "power" \in Environment
    /\ crashes < MaxCrashes
    /\ crashes' = crashes + 1
    /\ proc' = [p \in Procs |-> Idle] /\ lock' = Nobody
    /\ dir' \in AfterLoss(dir)
    /\ blobs' \in AfterLoss(blobs) /\ journal' \in AfterLoss(journal)
    /\ mark' \in AfterLoss(mark) /\ tmp' \in TmpAfterLoss
    /\ \E st \in [Outputs -> Entry] :
         /\ \A i \in Outputs : st[i] \in AfterLoss(target[i].st)
         /\ target' = [i \in Outputs |-> IF st[i] = "absent" THEN Nothing
                                                             ELSE [target[i] EXCEPT !.st = st[i]]]
    /\ UNCHANGED <<existed, committed, told>>

Step(p) ==
    \/ LookFirst(p) \/ Acquire(p) \/ Begin(p)
    \/ Mkdir(p) \/ SyncDir(p) \/ Stage(p) \/ SyncStage(p) \/ WriteJournal(p) \/ SyncJournal(p)
    \/ Verify(p) \/ Link(p) \/ SyncLink(p) \/ SyncOutputs(p) \/ Commit(p) \/ ReturnOutputs(p)
    \/ Load(p) \/ Unlink(p) \/ SyncUnlink(p)
    \/ Mark(p) \/ MarkTmp(p) \/ MarkLink(p) \/ SyncMark(p)

Next ==
    \/ \E p \in Procs :
         Step(p) \/ Stop(p) \/ Raise(p) \/ Kill(p) \/ Call(p, "publish") \/ Call(p, "recover")
    \/ \E i \in Outputs : Foreign(i)
    \/ PowerLoss

Spec == Init /\ [][Next]_vars

(* Calls return (no step waits but for the lock, which the kernel hands over),  *)
(* and the owner keeps calling recover_output_batch.                            *)
FairSpec ==
    /\ Spec
    /\ \A p \in Procs : SF_vars(Step(p)) /\ SF_vars(Call(p, "recover"))

-----------------------------------------------------------------------------
\* A committed batch is complete and on disk: no crash, loss of power or late rollback takes one
\* of its files away.
CommittedIsComplete ==
    committed => \A i \in Outputs : target[i].st = "durable" /\ target[i].kind \in {"ours", "same"}

\* A batch that is marked rolled back was not committed and none of its links is left or can come
\* back.
RolledBackIsClean ==
    Present(mark) => ~ committed /\ \A i \in Outputs \ existed : target[i].kind = "ours" => target[i].st = "absent"

\* A file that somebody else put at a final path is never replaced or removed by a publication;
\* only a loss of power may take one that was not synced.
ForeignFilesStay ==
    [][PowerLoss \/
         \A i \in Outputs : Present(target[i].st) /\ target[i].kind \in {"same", "other"}
            => Present(target'[i].st) /\ target'[i].kind = target[i].kind]_vars

Contract == INSTANCE Publication WITH
    decision <- IF committed THEN "committed" ELSE IF mark = "durable" THEN "rolled_back" ELSE "none"

\* The batch is decided once and a caller is told only what will not change.
KeepsContract == Contract!Spec

\* A batch with a durable journal is decided, unless somebody took one of its paths, a reused
\* file vanished, or a process died while it wrote the rollback mark.
BatchIsDecided ==
    (journal = "durable" /\ blobs = "durable")
      ~> (committed \/ mark = "durable" \/ tmp = "partial" \/ ~ Verified)
=============================================================================
