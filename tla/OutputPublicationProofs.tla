---------------------- MODULE OutputPublicationProofs ----------------------
(***************************************************************************)
(* The publication of a batch, for any number of outputs, processes, kills  *)
(* and power losses.  The inductive invariant says what the holder of the   *)
(* lock may rely on at each of its steps; the lock is what makes it stable. *)
(***************************************************************************)
EXTENDS OutputPublication, TLAPS

Waiting == {"idle", "publish", "recover"}
Undoing == {"unlink", "sync_unlink", "mark", "mark_tmp", "mark_link"}
Rooted  == {"stage", "sync_stage", "journal", "sync_journal", "sync_mark"} \cup Publishing \cup Undoing

\* Only the holder of the lock is past its wait.
LockHeld == \A p \in Procs : proc[p].pc \notin Waiting => lock = p

\* The directory is on disk before anything in it counts.
DirectoryFirst ==
    /\ mark # "ghost" /\ journal # "ghost"
    /\ (Present(journal) \/ Present(mark)) => dir = "durable"

\* While somebody prepares, publishes or undoes the batch, it is not decided.
Undecided(p) ==
    proc[p].pc \in Preparing \cup Publishing \cup Undoing => ~ committed /\ ~ Present(mark)

Placed(p) ==
    /\ proc[p].pc = "mkdir" => ~ Present(dir)
    /\ proc[p].pc = "sync_dir" => Present(dir)
    /\ proc[p].pc \in Rooted => dir = "durable"

\* The loop over the links has done its part up to the entry it works on.
Linked(p) ==
    /\ proc[p].pc = "sync_link" => proc[p].at \in Outputs /\ Present(target[proc[p].at].st)
    /\ proc[p].pc \in {"link", "sync_link"} =>
         \A j \in Outputs \ existed : j < proc[p].at => Present(target[j].st)
    /\ proc[p].pc = "sync_outputs" => \A j \in Outputs \ existed : Present(target[j].st)
    /\ proc[p].pc = "commit" =>
         \A j \in Outputs : target[j].st = "durable" /\ target[j].kind \in {"ours", "same"}

\* So has the loop that takes them away.
Cleared(p) ==
    /\ proc[p].pc = "sync_unlink" =>
         /\ proc[p].at \in Outputs
         /\ target[proc[p].at].kind = "ours" => ~ Present(target[proc[p].at].st)
    /\ proc[p].pc \in {"unlink", "sync_unlink"} =>
         \A j \in Outputs \ existed :
            j < proc[p].at /\ target[j].kind = "ours" => target[j].st = "absent"
    /\ proc[p].pc \in {"mark", "mark_tmp", "mark_link"} =>
         \A j \in Outputs \ existed : target[j].kind = "ours" => target[j].st = "absent"

Concluding(p) ==
    /\ proc[p].pc = "returned" => committed
    /\ proc[p].pc = "sync_mark" => Present(mark)

HolderKnows(p) == Undecided(p) /\ Placed(p) /\ Linked(p) /\ Cleared(p) /\ Concluding(p)

ProcessType == [pc : PCs, ctx : Contexts, at : 1 .. NumOutputs + 1]

Processes ==
    /\ proc \in [Procs -> ProcessType]
    /\ lock \in Procs \cup {Nobody} /\ told \subseteq {"committed", "rolled_back"}
    /\ LockHeld
    /\ \A p \in Procs : HolderKnows(p)

Files ==
    /\ dir \in Entry /\ blobs \in Entry /\ journal \in Entry /\ mark \in Entry
    /\ existed \subseteq Outputs
    /\ tmp \in {"absent", "partial", "full"}
    /\ target \in [Outputs -> [st : Entry, kind : Kinds]]
    /\ committed \in BOOLEAN
    /\ crashes \in Nat
    /\ DirectoryFirst
    /\ CommittedIsComplete /\ RolledBackIsClean

IInv == Processes /\ Files

-----------------------------------------------------------------------------
(* What the steps have in common.                                              *)

\* The loops over the entries.
LEMMA Indices ==
    /\ \A i \in Outputs : i + 1 \in 1 .. NumOutputs + 1
    /\ \A i \in 1 .. NumOutputs + 1 : i > NumOutputs => \A j \in Outputs : j < i
    /\ \A i \in Outputs : \A j \in Outputs : j < i + 1 => j < i \/ j = i
BY PublicationAssumption DEF Outputs

\* A process that waits, or that has just begun to reconcile, relies on nothing.
LEMMA Fresh ==
    ASSUME NEW p \in Procs, proc'[p].pc \in Waiting \cup {"begin", "load"}
    PROVE  HolderKnows(p)'
BY DEF HolderKnows, Undecided, Placed, Linked, Cleared, Concluding, Waiting, Preparing,
       Publishing, Undoing, Rooted

\* A step of the holder of the lock leaves the others waiting.
LEMMA HolderStep ==
    ASSUME Processes, NEW p \in Procs, proc[p].pc \notin Waiting,
           NEW r \in ProcessType, proc' = [proc EXCEPT ![p] = r],
           lock' = lock \/ (r.pc = "idle" /\ lock' = Nobody),
           told' \subseteq {"committed", "rolled_back"},
           HolderKnows(p)'
    PROVE  Processes'
<1>1. proc' \in [Procs -> ProcessType] /\ proc'[p] = r /\ \A q \in Procs \ {p} : proc'[q] = proc[q]
  BY DEF Processes
<1>2. \A q \in Procs \ {p} : proc[q].pc \in Waiting
  BY DEF Processes, LockHeld
<1>3. LockHeld'
  BY <1>1, <1>2 DEF Processes, LockHeld, Waiting
<1>4. \A q \in Procs \ {p} : HolderKnows(q)'
  BY <1>1, <1>2, Fresh
<1>5. QED
  BY <1>1, <1>3, <1>4 DEF Processes

\* The end of a call, the start of a reconciliation, and the step to another label.
LEMMA Ending ==
    ASSUME Processes, NEW p \in Procs, proc[p].pc \notin Waiting,
           NEW o \in SUBSET {"committed", "rolled_back"}, Return(p, o)
    PROVE  Processes'
<1>1. Idle \in ProcessType
  BY PublicationAssumption DEF Idle, PCs, Contexts, ProcessType
<1>2. HolderKnows(p)'
  BY Fresh DEF Idle, Waiting, Return, Processes
<1>3. lock' = Nobody
  BY DEF Return, Processes, LockHeld
<1>4. told' \subseteq {"committed", "rolled_back"} /\ proc' = [proc EXCEPT ![p] = Idle]
  BY DEF Return, Processes
<1>5. QED
  BY <1>1, <1>2, <1>3, <1>4, HolderStep DEF Idle

LEMMA Reconciliation ==
    ASSUME Processes, NEW p \in Procs, proc[p].pc \notin Waiting,
           NEW why \in Contexts, Reconcile(p, why), Quiet
    PROVE  Processes'
<1> DEFINE r == [pc |-> "load", ctx |-> why, at |-> 1]
<1>1. r \in ProcessType
  BY PublicationAssumption DEF PCs, Reconciling, ProcessType
<1>2. HolderKnows(p)'
  BY Fresh DEF Reconcile, Processes
<1>3. proc' = [proc EXCEPT ![p] = r] /\ lock' = lock /\ told' \subseteq {"committed", "rolled_back"}
  BY DEF Reconcile, Quiet, Processes
<1> HIDE DEF r
<1>4. QED
  BY <1>1, <1>2, <1>3, HolderStep

LEMMA Moving ==
    ASSUME Processes, NEW p \in Procs, proc[p].pc \notin Waiting,
           NEW label \in PCs, NEW i \in 1 .. NumOutputs + 1,
           GotoAt(p, label, i) \/ (Goto(p, label) /\ i = proc[p].at), Quiet,
           HolderKnows(p)'
    PROVE  Processes'
<1> DEFINE r == [proc[p] EXCEPT !.pc = label, !.at = i]
<1>1. r \in ProcessType
  BY DEF Processes, ProcessType
<1>2. proc' = [proc EXCEPT ![p] = r]
  BY DEF Goto, GotoAt, Processes, ProcessType
<1>3. lock' = lock /\ told' \subseteq {"committed", "rolled_back"}
  BY DEF Quiet, Processes
<1> HIDE DEF r
<1>4. QED
  BY <1>1, <1>2, <1>3, HolderStep

LEMMA Failing ==
    ASSUME Processes, NEW p \in Procs, proc[p].pc \notin Waiting, GiveUp(p)
    PROVE  Processes'
BY Ending, Reconciliation DEF GiveUp, Uncertain, Contexts

LEMMA FilesKept == Files /\ UNCHANGED <<batch, committed, crashes>> => Files'
BY DEF Files, batch, DirectoryFirst, CommittedIsComplete, RolledBackIsClean

-----------------------------------------------------------------------------
(* Waiting for the lock, and dying.                                             *)

\* A process that gives up what it knew disturbs nobody.
LEMMA Aside ==
    ASSUME IInv, NEW p \in Procs, NEW r \in ProcessType, proc' = [proc EXCEPT ![p] = r],
           r.pc \in Waiting \cup {"begin", "load"},
           UNCHANGED <<batch, committed, told>>, crashes' \in Nat,
           lock' \in Procs \cup {Nobody}, LockHeld'
    PROVE  IInv'
<1>1. Files'
  BY DEF IInv, Files, batch, DirectoryFirst, CommittedIsComplete, RolledBackIsClean
<1>2. proc' \in [Procs -> ProcessType] /\ proc'[p] = r /\ \A q \in Procs \ {p} : proc'[q] = proc[q]
  BY DEF IInv, Processes
<1>3. HolderKnows(p)'
  BY <1>2, Fresh
<1>4. ASSUME NEW q \in Procs \ {p} PROVE HolderKnows(q)'
  <2>1. HolderKnows(q) /\ proc'[q] = proc[q]
    BY <1>2 DEF IInv, Processes
  <2>2. QED
    BY <2>1 DEF HolderKnows, Undecided, Placed, Linked, Cleared, Concluding, batch
<1>5. QED
  BY <1>1, <1>2, <1>3, <1>4 DEF IInv, Processes

LEMMA CallInv ==
    ASSUME IInv, NEW p \in Procs, NEW op \in {"publish", "recover"}, Call(p, op)
    PROVE  IInv'
<1> DEFINE r == [proc[p] EXCEPT !.pc = op]
<1>1. r \in ProcessType /\ proc' = [proc EXCEPT ![p] = r]
  BY DEF IInv, Processes, Call, Goto, ProcessType, PCs
<1>2. r.pc = op
  BY DEF IInv, Processes, ProcessType
<1> HIDE DEF r
<1>3. LockHeld'
  BY <1>1, <1>2 DEF IInv, Processes, LockHeld, Call, Waiting
<1>4. QED
  BY <1>1, <1>2, <1>3, Aside DEF Call, Frame, Waiting, IInv, Processes, Files

\* What LookFirst and Kill have in common.
LEMMA DropInv ==
    ASSUME IInv, NEW p \in Procs, proc' = [proc EXCEPT ![p] = Idle],
           lock' = IF lock = p THEN Nobody ELSE lock,
           UNCHANGED <<batch, committed, told>>, crashes' \in Nat
    PROVE  IInv'
<1>1. Idle \in ProcessType
  BY PublicationAssumption DEF Idle, PCs, Contexts, ProcessType
<1>2. LockHeld'
  BY DEF IInv, Processes, LockHeld, Waiting, Idle
<1>3. lock' \in Procs \cup {Nobody}
  BY DEF IInv, Processes
<1>4. QED
  BY <1>1, <1>2, <1>3, Aside DEF Idle, Waiting

LEMMA LookFirstInv == ASSUME IInv, NEW p \in Procs, LookFirst(p) PROVE IInv'
BY DropInv DEF LookFirst, Return, Frame, IInv, Files

LEMMA KillInv == ASSUME IInv, NEW p \in Procs, Kill(p) PROVE IInv'
<1>1. crashes' \in Nat
  BY DEF Kill, IInv, Files
<1>2. QED
  BY <1>1, DropInv DEF Kill

LEMMA AcquireInv == ASSUME IInv, NEW p \in Procs, Acquire(p) PROVE IInv'
<1>1. PICK r \in {[Idle EXCEPT !.pc = "begin"], [Idle EXCEPT !.pc = "load", !.ctx = "recover"]} :
           proc' = [proc EXCEPT ![p] = r]
  BY DEF Acquire
<1>2. r \in ProcessType /\ r.pc \in {"begin", "load"}
  <2>1. r = [pc |-> "begin", ctx |-> "none", at |-> 1] \/ r = [pc |-> "load", ctx |-> "recover", at |-> 1]
    BY <1>1 DEF Idle
  <2>2. QED
    BY <2>1, PublicationAssumption DEF ProcessType, PCs, Contexts, Reconciling
<1>3. \A q \in Procs : proc[q].pc \in Waiting
  BY PublicationAssumption DEF IInv, Processes, LockHeld, Acquire
<1>4. LockHeld'
  BY <1>1, <1>3 DEF IInv, Processes, LockHeld, Acquire
<1>5. QED
  BY <1>1, <1>2, <1>4, Aside DEF Acquire, Frame, IInv, Files

-----------------------------------------------------------------------------
(* publish_outputs.                                                             *)

LEMMA BeginInv == ASSUME IInv, NEW p \in Procs, Begin(p) PROVE IInv'
<1>0. Processes /\ Files /\ proc[p].pc \notin Waiting /\ proc[p] \in ProcessType
  BY DEF IInv, Begin, At, Waiting, Processes
<1>1. CASE Present(dir) /\ Reconcile(p, "retry") /\ Quiet /\ UNCHANGED existed
  BY <1>0, <1>1, Reconciliation, FilesKept DEF IInv, Begin, Frame, batch, Contexts
<1>2. CASE Return(p, {}) /\ UNCHANGED existed
  BY <1>0, <1>2, Ending, FilesKept DEF IInv, Begin, Frame, batch
<1>3. CASE /\ ~ Present(dir) /\ ~ committed
           /\ existed' = {i \in Outputs : Present(target[i].st)}
           /\ Goto(p, "mkdir") /\ Quiet
  <2>1. ~ Present(mark) /\ ~ Present(journal)
    BY <1>0, <1>3 DEF Files, DirectoryFirst, Present
  <2>2. Files'
    BY <1>0, <1>3, <2>1 DEF Files, Begin, Frame, DirectoryFirst, CommittedIsComplete,
                            RolledBackIsClean, Present
  <2>3. proc'[p].pc = "mkdir"
    BY <1>0, <1>3 DEF Goto, Processes, ProcessType
  <2>4. HolderKnows(p)'
    BY <1>3, <2>1, <2>3 DEF Begin, Frame, HolderKnows, Undecided, Placed, Linked, Cleared,
          Concluding, Rooted, Publishing, Undoing, Present
  <2>5. Processes'
    BY <1>0, <1>3, <2>4, Moving DEF PCs, Preparing, ProcessType
  <2>6. QED
    BY <2>2, <2>5 DEF IInv
<1>4. QED
  BY <1>1, <1>2, <1>3 DEF Begin

\* mkdir to the journal: one proof, since each step writes or syncs one entry and moves on.
LEMMA PrepareInv ==
    ASSUME IInv, NEW p \in Procs,
           \/ Mkdir(p) \/ SyncDir(p) \/ Stage(p) \/ SyncStage(p)
           \/ WriteJournal(p) \/ SyncJournal(p)
    PROVE  IInv'
<1> USE DEF Mkdir, SyncDir, Stage, SyncStage, WriteJournal, SyncJournal, At
<1>0. Processes /\ Files /\ proc[p].pc \in Preparing /\ proc[p] \in ProcessType /\ HolderKnows(p)
  BY DEF IInv, Preparing, Processes
<1>1. proc[p].pc \notin Waiting
  BY DEF Waiting
<1>2. HolderKnows(p)'
  BY <1>0 DEF Frame, Goto, Synced, HolderKnows, Undecided, Placed, Linked, Cleared, Concluding,
        Rooted, Preparing, Publishing, Undoing, Present, Processes, ProcessType
<1>3. Files'
  BY <1>0 DEF Frame, Files, DirectoryFirst, CommittedIsComplete, RolledBackIsClean, Synced, Entry,
        HolderKnows, Undecided, Placed, Preparing, Rooted, Present
<1>4. PICK label \in Preparing \cup Publishing : Goto(p, label) /\ Quiet
  BY DEF Preparing, Publishing
<1>5. Processes'
  BY <1>0, <1>1, <1>2, <1>4, Moving DEF PCs, ProcessType
<1>6. QED
  BY <1>3, <1>5 DEF IInv

LEMMA VerifyInv == ASSUME IInv, NEW p \in Procs, Verify(p) PROVE IInv'
<1>0. Processes /\ Files /\ proc[p].pc \notin Waiting /\ proc[p] \in ProcessType /\ HolderKnows(p)
  BY DEF IInv, Verify, At, Waiting, Processes
<1>1. Files'
  BY <1>0, FilesKept DEF Verify, Frame
<1>2. CASE Reconcile(p, "failed")
  BY <1>0, <1>1, <1>2, Reconciliation DEF IInv, Verify, Contexts
<1>3. CASE GotoAt(p, "link", 1)
  <2>1. proc'[p].pc = "link" /\ proc'[p].at = 1
    BY <1>0, <1>3 DEF GotoAt, Processes, ProcessType
  <2>2. HolderKnows(p)'
    BY <1>0, <2>1 DEF Verify, At, Frame, batch, Outputs, HolderKnows, Undecided, Placed, Linked,
          Cleared, Concluding, Rooted, Preparing, Publishing, Undoing, Present
  <2>3. Processes'
    BY <1>0, <1>3, <2>2, Moving, PublicationAssumption DEF Verify, PCs, Publishing
  <2>4. QED
    BY <1>1, <2>3 DEF IInv
<1>4. QED
  BY <1>2, <1>3 DEF Verify

LEMMA LinkInv == ASSUME IInv, NEW p \in Procs, Link(p) PROVE IInv'
<1>0. Processes /\ Files /\ proc[p].pc = "link" /\ proc[p] \in ProcessType /\ HolderKnows(p)
  BY DEF IInv, Link, At, Processes
<1>1. proc[p].pc \notin Waiting
  BY <1>0 DEF Waiting
<1>2. ~ committed /\ ~ Present(mark) /\ dir = "durable"
      /\ \A j \in Outputs \ existed : j < proc[p].at => Present(target[j].st)
  BY <1>0 DEF HolderKnows, Undecided, Placed, Linked, Publishing, Rooted
<1> DEFINE i == proc[p].at
<1>3. CASE i > NumOutputs /\ Goto(p, "sync_outputs") /\ UNCHANGED target
  <2>1. Files'
    BY <1>0, <1>3, FilesKept DEF Link, Frame, batch
  <2>2. HolderKnows(p)'
    <3>1. proc'[p].pc = "sync_outputs"
      BY <1>0, <1>3 DEF Goto, Processes, ProcessType
    <3>2. \A j \in Outputs \ existed : Present(target[j].st)
      BY <1>0, <1>2, <1>3, Indices DEF ProcessType
    <3>3. QED
      BY <1>2, <1>3, <3>1, <3>2 DEF Link, Frame, HolderKnows, Undecided, Placed, Linked, Cleared,
            Concluding, Rooted, Publishing, Undoing, Present
  <2>3. Processes'
    BY <1>0, <1>1, <1>3, <2>2, Moving DEF Link, PCs, Publishing, ProcessType
  <2>4. QED
    BY <2>1, <2>3 DEF IInv
<1>4. CASE i \in existed /\ GotoAt(p, "link", i + 1) /\ UNCHANGED target
  <2>1. Files'
    BY <1>0, <1>4, FilesKept DEF Link, Frame, batch
  <2>2. i \in Outputs /\ i + 1 \in 1 .. NumOutputs + 1
    BY <1>0, <1>4, Indices DEF Files
  <2>3. HolderKnows(p)'
    <3>1. proc'[p].pc = "link" /\ proc'[p].at = i + 1
      BY <1>0, <1>4 DEF GotoAt, Processes, ProcessType
    <3>2. \A j \in Outputs \ existed : j < i + 1 => Present(target[j].st)
      BY <1>2, <1>4, <2>2, Indices
    <3>3. QED
      BY <1>2, <1>4, <3>1, <3>2 DEF Link, Frame, HolderKnows, Undecided, Placed, Linked, Cleared,
            Concluding, Rooted, Publishing, Undoing, Present
  <2>4. Processes'
    BY <1>0, <1>1, <1>4, <2>2, <2>3, Moving DEF Link, PCs, Publishing
  <2>5. QED
    BY <2>1, <2>4 DEF IInv
<1>5. CASE Reconcile(p, "failed") /\ UNCHANGED target
  BY <1>0, <1>1, <1>5, Reconciliation, FilesKept DEF IInv, Link, Frame, batch, Contexts
<1>6. CASE /\ i \in Outputs \ existed /\ ~ Present(target[i].st)
           /\ target' = [target EXCEPT ![i] = [st |-> "volatile", kind |-> "ours"]]
           /\ Goto(p, "sync_link")
  <2>1. target' \in [Outputs -> [st : Entry, kind : Kinds]]
    BY <1>0, <1>6 DEF Files, Entry, Kinds
  <2>2. Files'
    BY <1>0, <1>2, <1>6, <2>1 DEF Link, Frame, Files, DirectoryFirst, CommittedIsComplete,
          RolledBackIsClean, Present
  <2>3. proc'[p].pc = "sync_link" /\ proc'[p].at = i
    BY <1>0, <1>6 DEF Goto, Processes, ProcessType
  <2>4. HolderKnows(p)'
    BY <1>0, <1>2, <1>6, <2>3 DEF Link, Frame, Files, HolderKnows, Undecided, Placed,
          Linked, Cleared, Concluding, Rooted, Publishing, Undoing, Present
  <2>5. Processes'
    BY <1>0, <1>1, <1>6, <2>4, Moving DEF Link, PCs, Publishing, ProcessType
  <2>6. QED
    BY <2>2, <2>5 DEF IInv
<1>7. QED
  BY <1>3, <1>4, <1>5, <1>6 DEF Link

LEMMA SyncLinkInv == ASSUME IInv, NEW p \in Procs, SyncLink(p) PROVE IInv'
<1>0. Processes /\ Files /\ proc[p].pc = "sync_link" /\ proc[p] \in ProcessType /\ HolderKnows(p)
  BY DEF IInv, SyncLink, At, Processes
<1> DEFINE i == proc[p].at
<1>1. proc[p].pc \notin Waiting /\ i \in Outputs /\ i + 1 \in 1 .. NumOutputs + 1
  BY <1>0, PublicationAssumption DEF Waiting, HolderKnows, Linked, Outputs
<1>2. ~ committed /\ ~ Present(mark) /\ dir = "durable" /\ Present(target[i].st)
      /\ \A j \in Outputs \ existed : j < i => Present(target[j].st)
  BY <1>0 DEF HolderKnows, Undecided, Placed, Linked, Publishing, Rooted
<1>3. target' \in [Outputs -> [st : Entry, kind : Kinds]]
      /\ \A j \in Outputs : Present(target[j].st) => Present(target'[j].st)
  BY <1>0, <1>1, <1>2 DEF SyncLink, Files, Entry, Synced, Present
<1>4. Files'
  BY <1>0, <1>2, <1>3 DEF SyncLink, Frame, Files, DirectoryFirst, CommittedIsComplete,
        RolledBackIsClean, Present
<1>5. proc'[p].pc = "link" /\ proc'[p].at = i + 1
  BY <1>0 DEF SyncLink, GotoAt, Processes, ProcessType
<1>6. HolderKnows(p)'
  <2>1. \A j \in Outputs \ existed : j < i + 1 => Present(target'[j].st)
    BY <1>1, <1>2, <1>3 DEF Outputs
  <2>2. QED
    BY <1>2, <1>5, <2>1 DEF SyncLink, Frame, HolderKnows, Undecided, Placed,
          Linked, Cleared, Concluding, Rooted, Publishing, Undoing, Present
<1>7. Processes'
  BY <1>0, <1>1, <1>6, Moving DEF SyncLink, PCs, Publishing
<1>8. QED
  BY <1>4, <1>7 DEF IInv

LEMMA SyncOutputsInv == ASSUME IInv, NEW p \in Procs, SyncOutputs(p) PROVE IInv'
<1>0. Processes /\ Files /\ proc[p].pc = "sync_outputs" /\ proc[p] \in ProcessType /\ HolderKnows(p)
  BY DEF IInv, SyncOutputs, At, Processes
<1>1. proc[p].pc \notin Waiting
  BY <1>0 DEF Waiting
<1>2. CASE Reconcile(p, "failed") /\ UNCHANGED target
  BY <1>0, <1>1, <1>2, Reconciliation, FilesKept DEF IInv, SyncOutputs, Frame, batch, Contexts
<1>3. CASE /\ Verified
           /\ target' = [i \in Outputs |-> [target[i] EXCEPT !.st = Synced(@)]]
           /\ Goto(p, "commit")
  <2>1. ~ committed /\ ~ Present(mark) /\ dir = "durable"
        /\ \A j \in Outputs \ existed : Present(target[j].st)
    BY <1>0 DEF HolderKnows, Undecided, Placed, Linked, Publishing, Rooted
  <2>2. \A j \in Outputs : target'[j].st = "durable" /\ target'[j].kind \in {"ours", "same"}
    BY <1>0, <1>3, <2>1 DEF Files, Verified, Synced
  <2>3. target' \in [Outputs -> [st : Entry, kind : Kinds]]
    BY <1>0, <1>3 DEF Files, Entry, Synced
  <2>4. Files'
    BY <1>0, <2>1, <2>3 DEF SyncOutputs, Frame, Files, DirectoryFirst, CommittedIsComplete,
          RolledBackIsClean, Present
  <2>5. proc'[p].pc = "commit"
    BY <1>0, <1>3 DEF Goto, Processes, ProcessType
  <2>6. HolderKnows(p)'
    BY <2>1, <2>2, <2>5 DEF SyncOutputs, Frame, HolderKnows, Undecided, Placed,
          Linked, Cleared, Concluding, Rooted, Publishing, Undoing, Present
  <2>7. Processes'
    BY <1>0, <1>1, <1>3, <2>6, Moving DEF SyncOutputs, PCs, Publishing, ProcessType
  <2>8. QED
    BY <2>4, <2>7 DEF IInv
<1>4. QED
  BY <1>2, <1>3 DEF SyncOutputs

LEMMA CommitInv == ASSUME IInv, NEW p \in Procs, Commit(p) PROVE IInv'
<1>0. Processes /\ Files /\ proc[p].pc = "commit" /\ HolderKnows(p)
  BY DEF IInv, Commit, At, Processes
<1>1. Processes'
  BY <1>0, Reconciliation DEF Commit, Waiting, Contexts
<1>2. Files'
  BY <1>0 DEF Commit, Files, batch, DirectoryFirst, CommittedIsComplete, RolledBackIsClean,
        HolderKnows, Undecided, Linked, Publishing, Present
<1>3. QED
  BY <1>1, <1>2 DEF IInv

LEMMA ReturnOutputsInv == ASSUME IInv, NEW p \in Procs, ReturnOutputs(p) PROVE IInv'
BY Ending, FilesKept DEF ReturnOutputs, At, Waiting, Frame, IInv

LEMMA StopInv == ASSUME IInv, NEW p \in Procs, Stop(p) PROVE IInv'
<1>1. Processes /\ proc[p].pc \notin Waiting
  BY DEF IInv, Stop, At, Waiting
<1>2. Processes'
  BY <1>1, Ending, Reconciliation DEF Stop, Contexts
<1>3. QED
  BY <1>2, FilesKept DEF Stop, Frame, IInv

LEMMA RaiseInv == ASSUME IInv, NEW p \in Procs, Raise(p) PROVE IInv'
<1>1. Processes /\ proc[p].pc \notin Waiting
  BY DEF IInv, Raise, Preparing, Publishing, Reconciling, Waiting
<1>2. Processes'
  BY <1>1, Ending, Reconciliation DEF Raise, Uncertain, Contexts
<1>3. Files'
  BY DEF Raise, IInv, Files, batch, DirectoryFirst, CommittedIsComplete, RolledBackIsClean
<1>4. QED
  BY <1>2, <1>3 DEF IInv

-----------------------------------------------------------------------------
(* _reconcile.                                                                  *)

\* A status is only concluded from what is recorded.
LEMMA Concluded ==
    ASSUME Processes, NEW p \in Procs, proc[p].pc \notin Waiting,
           NEW status \in {"committed", "rolled_back"}, Conclude(p, status),
           status = "committed" => committed'
    PROVE  Processes'
<1>1. CASE Return(p, {status}) \/ Return(p, {})
  BY <1>1, Ending
<1>2. CASE Reconcile(p, "failed") /\ Quiet
  BY <1>2, Reconciliation DEF Contexts
<1>3. CASE Goto(p, "returned") /\ Quiet /\ status = "committed"
  <2>1. proc[p] \in ProcessType /\ proc'[p].pc = "returned"
    BY <1>3 DEF Goto, Processes, ProcessType
  <2>2. HolderKnows(p)'
    BY <1>3, <2>1 DEF HolderKnows, Undecided, Placed, Linked, Cleared, Concluding, Rooted,
          Preparing, Publishing, Undoing
  <2>3. QED
    BY <1>3, <2>1, <2>2, Moving DEF PCs, ProcessType
<1>4. QED
  BY <1>1, <1>2, <1>3 DEF Conclude

LEMMA LoadInv == ASSUME IInv, NEW p \in Procs, Load(p) PROVE IInv'
<1>0. Processes /\ Files /\ proc[p].pc \notin Waiting /\ proc[p] \in ProcessType
  BY DEF IInv, Load, At, Waiting, Processes
<1>1. Files'
  BY <1>0, FilesKept DEF Load, Frame
<1>2. CASE GiveUp(p)
  BY <1>0, <1>1, <1>2, Failing DEF IInv
<1>3. CASE Present(mark) /\ Goto(p, "sync_mark") /\ Quiet
  <2>1. proc'[p].pc = "sync_mark" /\ dir = "durable"
    BY <1>0, <1>3 DEF Goto, Processes, ProcessType, Files, DirectoryFirst
  <2>2. HolderKnows(p)'
    BY <1>3, <2>1 DEF Load, Frame, batch, HolderKnows, Undecided, Placed, Linked, Cleared,
          Concluding, Rooted, Preparing, Publishing, Undoing, Present
  <2>3. QED
    BY <1>0, <1>1, <1>3, <2>2, Moving DEF IInv, PCs, Reconciling, ProcessType
<1>4. CASE committed /\ Conclude(p, "committed")
  BY <1>0, <1>1, <1>4, Concluded DEF IInv, Load, Frame
<1>5. CASE Loadable /\ ~ Present(mark) /\ ~ committed /\ GotoAt(p, "unlink", 1) /\ Quiet
  <2>1. proc'[p].pc = "unlink" /\ proc'[p].at = 1 /\ dir = "durable"
    BY <1>0, <1>5 DEF GotoAt, Processes, ProcessType, Files, DirectoryFirst, Loadable
  <2>2. HolderKnows(p)'
    BY <1>5, <2>1 DEF Load, Frame, batch, Outputs, HolderKnows, Undecided, Placed, Linked, Cleared,
          Concluding, Rooted, Preparing, Publishing, Undoing, Present
  <2>3. QED
    BY <1>0, <1>1, <1>5, <2>2, Moving, PublicationAssumption DEF IInv, PCs, Reconciling
<1>6. QED
  BY <1>2, <1>3, <1>4, <1>5 DEF Load

LEMMA UnlinkInv == ASSUME IInv, NEW p \in Procs, Unlink(p) PROVE IInv'
<1>0. Processes /\ Files /\ proc[p].pc = "unlink" /\ proc[p] \in ProcessType /\ HolderKnows(p)
  BY DEF IInv, Unlink, At, Processes
<1>1. proc[p].pc \notin Waiting
  BY <1>0 DEF Waiting
<1> DEFINE i == proc[p].at
<1> DEFINE Gone(j) == target[j].kind = "ours" => target[j].st = "absent"
<1>2. ~ committed /\ ~ Present(mark) /\ dir = "durable"
      /\ \A j \in Outputs \ existed : j < i => Gone(j)
  BY <1>0 DEF HolderKnows, Undecided, Placed, Cleared, Undoing, Rooted
<1>3. CASE i > NumOutputs /\ Goto(p, "mark") /\ UNCHANGED target /\ Quiet
  <2>1. Files'
    BY <1>0, <1>3, FilesKept DEF Unlink, Frame, batch
  <2>2. proc'[p].pc = "mark"
    BY <1>0, <1>3 DEF Goto, Processes, ProcessType
  <2>3. \A j \in Outputs \ existed : Gone(j)
    BY <1>0, <1>2, <1>3, Indices DEF ProcessType
  <2>4. HolderKnows(p)'
    BY <1>2, <1>3, <2>2, <2>3 DEF Unlink, Frame, HolderKnows, Undecided, Placed, Linked, Cleared,
          Concluding, Rooted, Publishing, Undoing, Present
  <2>5. QED
    BY <1>0, <1>1, <1>3, <2>1, <2>4, Moving DEF IInv, PCs, Reconciling, ProcessType
<1>4. CASE i \in existed /\ GotoAt(p, "unlink", i + 1) /\ UNCHANGED target /\ Quiet
  <2>1. Files'
    BY <1>0, <1>4, FilesKept DEF Unlink, Frame, batch
  <2>2. i \in Outputs /\ i + 1 \in 1 .. NumOutputs + 1
    BY <1>0, <1>4, Indices DEF Files
  <2>3. proc'[p].pc = "unlink" /\ proc'[p].at = i + 1
    BY <1>0, <1>4 DEF GotoAt, Processes, ProcessType
  <2>4. \A j \in Outputs \ existed : j < i + 1 => Gone(j)
    BY <1>2, <1>4, <2>2, Indices
  <2>5. HolderKnows(p)'
    BY <1>2, <1>4, <2>3, <2>4 DEF Unlink, Frame, HolderKnows, Undecided, Placed, Linked, Cleared,
          Concluding, Rooted, Publishing, Undoing, Present
  <2>6. QED
    BY <1>0, <1>1, <1>4, <2>1, <2>2, <2>5, Moving DEF IInv, PCs, Reconciling
<1>5. CASE /\ i \in Outputs \ existed /\ ~ Present(target[i].st)
           /\ Goto(p, "sync_unlink") /\ UNCHANGED target /\ Quiet
  <2>1. Files'
    BY <1>0, <1>5, FilesKept DEF Unlink, Frame, batch
  <2>2. proc'[p].pc = "sync_unlink" /\ proc'[p].at = i
    BY <1>0, <1>5 DEF Goto, Processes, ProcessType
  <2>3. HolderKnows(p)'
    BY <1>2, <1>5, <2>2 DEF Unlink, Frame, HolderKnows, Undecided, Placed, Linked, Cleared,
          Concluding, Rooted, Publishing, Undoing, Present
  <2>4. QED
    BY <1>0, <1>1, <1>5, <2>1, <2>3, Moving DEF IInv, PCs, Reconciling, ProcessType
<1>6. CASE /\ i \in Outputs \ existed
           /\ target' = [target EXCEPT ![i].st = "ghost"]
           /\ Goto(p, "sync_unlink") /\ Quiet
  <2>1. target' \in [Outputs -> [st : Entry, kind : Kinds]] /\ target'[i].st = "ghost"
        /\ \A j \in Outputs \ {i} : target'[j] = target[j]
    BY <1>0, <1>6 DEF Files, Entry
  <2>2. Files'
    BY <1>0, <1>2, <2>1 DEF Unlink, Frame, Files, DirectoryFirst, CommittedIsComplete,
          RolledBackIsClean, Present
  <2>3. proc'[p].pc = "sync_unlink" /\ proc'[p].at = i
    BY <1>0, <1>6 DEF Goto, Processes, ProcessType
  <2>4. \A j \in Outputs \ existed : j < i => Gone(j)'
    BY <1>0, <1>2, <1>6, <2>1 DEF Outputs, ProcessType
  <2>5. HolderKnows(p)'
    BY <1>2, <1>6, <2>1, <2>3, <2>4 DEF Unlink, Frame, HolderKnows, Undecided, Placed, Linked, Cleared,
          Concluding, Rooted, Publishing, Undoing, Present
  <2>6. QED
    BY <1>0, <1>1, <1>6, <2>2, <2>5, Moving DEF IInv, PCs, Reconciling, ProcessType
<1>7. CASE GiveUp(p) /\ UNCHANGED target
  BY <1>0, <1>1, <1>7, Failing, FilesKept DEF IInv, Unlink, Frame, batch
<1>8. QED
  BY <1>3, <1>4, <1>5, <1>6, <1>7 DEF Unlink

LEMMA SyncUnlinkInv == ASSUME IInv, NEW p \in Procs, SyncUnlink(p) PROVE IInv'
<1>0. Processes /\ Files /\ proc[p].pc = "sync_unlink" /\ proc[p] \in ProcessType /\ HolderKnows(p)
  BY DEF IInv, SyncUnlink, At, Processes
<1> DEFINE i == proc[p].at
<1> DEFINE Gone(j) == target[j].kind = "ours" => target[j].st = "absent"
<1>1. proc[p].pc \notin Waiting /\ i \in Outputs /\ i + 1 \in 1 .. NumOutputs + 1
  BY <1>0, Indices DEF Waiting, HolderKnows, Cleared
<1>2. ~ committed /\ ~ Present(mark) /\ dir = "durable"
      /\ (target[i].kind = "ours" => ~ Present(target[i].st))
      /\ \A j \in Outputs \ existed : j < i => Gone(j)
  BY <1>0 DEF HolderKnows, Undecided, Placed, Cleared, Undoing, Rooted
<1>3. target' \in [Outputs -> [st : Entry, kind : Kinds]]
      /\ target'[i].kind = target[i].kind /\ target'[i].st = Synced(target[i].st)
      /\ \A j \in Outputs \ {i} : target'[j] = target[j]
  BY <1>0, <1>1 DEF SyncUnlink, Files, Entry, Synced
<1>4. Files'
  BY <1>0, <1>2, <1>3 DEF SyncUnlink, Frame, Files, DirectoryFirst, CommittedIsComplete,
        RolledBackIsClean, Present
<1>5. proc'[p].pc = "unlink" /\ proc'[p].at = i + 1
  BY <1>0 DEF SyncUnlink, GotoAt, Processes, ProcessType
<1>6. \A j \in Outputs \ existed : j < i + 1 => Gone(j)'
  <2>1. target'[i].kind = "ours" => target'[i].st = "absent"
    BY <1>2, <1>3 DEF Synced
  <2>2. ASSUME NEW j \in Outputs \ existed, j < i + 1 PROVE Gone(j)'
    BY <1>1, <1>2, <1>3, <2>1, <2>2, Indices
  <2>3. QED
    BY <2>2
<1>7. HolderKnows(p)'
  BY <1>2, <1>5, <1>6 DEF SyncUnlink, Frame, HolderKnows, Undecided, Placed, Linked, Cleared,
        Concluding, Rooted, Publishing, Undoing, Present
<1>8. QED
  BY <1>0, <1>1, <1>4, <1>7, Moving DEF SyncUnlink, IInv, PCs, Reconciling

\* The temporary file of the mark.
LEMMA MarkInv == ASSUME IInv, NEW p \in Procs, Mark(p) \/ MarkTmp(p) PROVE IInv'
<1> USE DEF Mark, MarkTmp, At
<1>0. Processes /\ Files /\ proc[p].pc \notin Waiting /\ proc[p] \in ProcessType /\ HolderKnows(p)
  BY DEF IInv, Waiting, Processes
<1>1. Files'
  BY <1>0 DEF Frame, Files, DirectoryFirst, CommittedIsComplete, RolledBackIsClean
<1>2. CASE GiveUp(p)
  BY <1>0, <1>1, <1>2, Failing DEF IInv
<1>3. CASE Quiet /\ \E label \in {"mark_tmp", "mark_link"} : Goto(p, label)
  <2>1. PICK label \in {"mark_tmp", "mark_link"} : Goto(p, label)
    BY <1>3
  <2>2. proc'[p].pc = label
    BY <1>0, <2>1 DEF Goto, Processes, ProcessType
  <2>3. HolderKnows(p)'
    BY <1>0, <2>2 DEF Frame, HolderKnows, Undecided, Placed, Linked, Cleared, Concluding, Rooted,
          Preparing, Publishing, Undoing, Present
  <2>4. QED
    BY <1>0, <1>1, <1>3, <2>1, <2>3, Moving DEF IInv, PCs, Reconciling, ProcessType
<1>4. QED
  BY <1>2, <1>3

LEMMA MarkLinkInv == ASSUME IInv, NEW p \in Procs, MarkLink(p) PROVE IInv'
<1>0. Processes /\ Files /\ proc[p].pc = "mark_link" /\ proc[p] \in ProcessType /\ HolderKnows(p)
  BY DEF IInv, MarkLink, At, Processes
<1>1. ~ committed /\ dir = "durable"
      /\ \A j \in Outputs \ existed : target[j].kind = "ours" => target[j].st = "absent"
  BY <1>0 DEF HolderKnows, Undecided, Placed, Cleared, Undoing, Rooted
<1>2. Files'
  BY <1>0, <1>1 DEF MarkLink, Frame, Files, DirectoryFirst, CommittedIsComplete,
        RolledBackIsClean, Entry
<1>3. proc'[p].pc = "sync_mark"
  BY <1>0 DEF MarkLink, Goto, Processes, ProcessType
<1>4. HolderKnows(p)'
  BY <1>1, <1>3 DEF MarkLink, HolderKnows, Undecided, Placed, Linked, Cleared,
        Concluding, Rooted, Preparing, Publishing, Undoing, Present
<1>5. QED
  BY <1>0, <1>2, <1>4, Moving DEF MarkLink, IInv, PCs, Reconciling, ProcessType, Waiting

LEMMA SyncMarkInv == ASSUME IInv, NEW p \in Procs, SyncMark(p) PROVE IInv'
<1>0. Processes /\ Files /\ proc[p].pc = "sync_mark" /\ HolderKnows(p)
  BY DEF IInv, SyncMark, At, Processes
<1>1. Present(mark) /\ dir = "durable"
  BY <1>0 DEF HolderKnows, Placed, Concluding, Rooted
<1>2. Files'
  BY <1>0, <1>1 DEF SyncMark, Frame, Files, DirectoryFirst, CommittedIsComplete,
        RolledBackIsClean, Entry, Synced, Present
<1>3. QED
  BY <1>0, <1>2, Concluded DEF SyncMark, IInv, Waiting

-----------------------------------------------------------------------------
(* The outside world.                                                           *)

LEMMA ForeignInv == ASSUME IInv, NEW i \in Outputs, Foreign(i) PROVE IInv'
<1>0. Processes /\ Files
  BY DEF IInv
<1>1. PICK k \in {"same", "other"} : target' = [target EXCEPT ![i] = [st |-> "volatile", kind |-> k]]
  BY DEF Foreign
<1>2. target' \in [Outputs -> [st : Entry, kind : Kinds]] /\ target[i].st = "absent"
      /\ target'[i].st = "volatile" /\ target'[i].kind # "ours"
      /\ \A j \in Outputs \ {i} : target'[j] = target[j]
  BY <1>0, <1>1 DEF Foreign, Files, Entry, Kinds
<1>3. Files'
  BY <1>0, <1>2 DEF Foreign, Frame, Files, DirectoryFirst, CommittedIsComplete, RolledBackIsClean
<1>4. ASSUME NEW q \in Procs PROVE HolderKnows(q)'
  <2>1. HolderKnows(q) /\ proc'[q] = proc[q]
    BY <1>0 DEF Processes, Foreign
  <2>2. Undecided(q)' /\ Placed(q)' /\ Concluding(q)'
    BY <2>1 DEF Foreign, Frame, HolderKnows, Undecided, Placed, Concluding
  <2>3. Linked(q)'
    BY <1>2, <2>1 DEF Foreign, HolderKnows, Linked, Present
  <2>4. Cleared(q)'
    BY <1>2, <2>1 DEF Foreign, HolderKnows, Cleared, Present
  <2>5. QED
    BY <2>2, <2>3, <2>4 DEF HolderKnows
<1>5. Processes'
  BY <1>0, <1>4 DEF Processes, Foreign, LockHeld
<1>6. QED
  BY <1>3, <1>5 DEF IInv

LEMMA PowerLossInv == ASSUME IInv, PowerLoss PROVE IInv'
<1>0. Processes /\ Files
  BY DEF IInv
<1>1. Idle \in ProcessType
  BY PublicationAssumption DEF Idle, PCs, Contexts, ProcessType
<1>2. \A q \in Procs : proc'[q].pc = "idle"
  BY DEF PowerLoss, Idle
<1>3. Processes'
  <2>1. \A q \in Procs : HolderKnows(q)'
    BY <1>2, Fresh DEF Waiting
  <2>2. QED
    BY <1>0, <1>1, <1>2, <2>1 DEF PowerLoss, Processes, LockHeld, Waiting
<1>4. PICK st \in [Outputs -> Entry] :
         /\ \A i \in Outputs : st[i] \in AfterLoss(target[i].st)
         /\ target' = [i \in Outputs |-> IF st[i] = "absent" THEN Nothing
                                                             ELSE [target[i] EXCEPT !.st = st[i]]]
  BY DEF PowerLoss
<1>5. target' \in [Outputs -> [st : Entry, kind : Kinds]]
  <2>1. ASSUME NEW i \in Outputs PROVE target'[i] \in [st : Entry, kind : Kinds]
    BY <1>0, <1>4 DEF Files, Nothing, Entry, Kinds
  <2>2. QED
    BY <1>4, <2>1
<1>6. \A i \in Outputs :
         /\ target[i].st = "durable" => target'[i].st = "durable" /\ target'[i].kind = target[i].kind
         /\ target'[i].kind = "ours" => target[i].kind = "ours" /\ target[i].st # "absent"
  BY <1>0, <1>4 DEF Files, Nothing, AfterLoss
<1>7. dir' \in Entry /\ blobs' \in Entry /\ journal' \in Entry /\ mark' \in Entry
      /\ tmp' \in {"absent", "partial", "full"} /\ crashes' \in Nat
  BY <1>0 DEF PowerLoss, AfterLoss, TmpAfterLoss, Files, Entry
<1>8. DirectoryFirst'
  BY <1>0 DEF PowerLoss, AfterLoss, Files, DirectoryFirst, Present
<1>9. CommittedIsComplete' /\ RolledBackIsClean'
  <2>1. CommittedIsComplete'
    BY <1>0, <1>6 DEF PowerLoss, Files, CommittedIsComplete
  <2>2. Present(mark') => Present(mark)
    BY <1>0 DEF PowerLoss, AfterLoss, Files, DirectoryFirst, Present
  <2>3. RolledBackIsClean'
    BY <1>0, <1>6, <2>2 DEF PowerLoss, Files, RolledBackIsClean, Present
  <2>4. QED
    BY <2>1, <2>3
<1>10. QED
  BY <1>0, <1>3, <1>5, <1>7, <1>8, <1>9 DEF IInv, Files, PowerLoss

-----------------------------------------------------------------------------
\* Initially nothing is on disk but what others left at the final paths.
LEMMA InitInv == Init => IInv
<1> SUFFICES ASSUME Init PROVE IInv
  OBVIOUS
<1>1. Idle \in ProcessType
  BY PublicationAssumption DEF Idle, PCs, Contexts, ProcessType
<1>2. \A q \in Procs : proc[q] = Idle
  BY DEF Init
<1>3. \A q \in Procs : HolderKnows(q)
  BY <1>2 DEF Idle, HolderKnows, Undecided, Placed, Linked, Cleared, Concluding, Preparing,
        Publishing, Undoing, Rooted
<1>4. Processes
  BY <1>1, <1>2, <1>3 DEF Init, Processes, LockHeld, Idle, Waiting
<1>5. target \in [Outputs -> [st : Entry, kind : Kinds]]
  <2>1. {Nothing} \cup {[st |-> "volatile", kind |-> k] : k \in {"same", "other"}}
           \subseteq [st : Entry, kind : Kinds]
    BY DEF Nothing, Entry, Kinds
  <2>2. QED
    BY <2>1 DEF Init
<1>6. Files
  BY <1>5 DEF Init, Files, Entry, DirectoryFirst, CommittedIsComplete, RolledBackIsClean, Present
<1>7. QED
  BY <1>4, <1>6 DEF IInv

LEMMA NextInv == IInv /\ [Next]_vars => IInv'
<1> SUFFICES ASSUME IInv, [Next]_vars PROVE IInv'
  OBVIOUS
<1>1. ASSUME NEW p \in Procs, Step(p) PROVE IInv'
  BY <1>1, LookFirstInv, AcquireInv, BeginInv, PrepareInv, VerifyInv, LinkInv, SyncLinkInv,
     SyncOutputsInv, CommitInv, ReturnOutputsInv, LoadInv, UnlinkInv, SyncUnlinkInv, MarkInv,
     MarkLinkInv, SyncMarkInv DEF Step
<1>2. ASSUME NEW p \in Procs,
             Stop(p) \/ Raise(p) \/ Kill(p) \/ Call(p, "publish") \/ Call(p, "recover")
      PROVE  IInv'
  BY <1>2, StopInv, RaiseInv, KillInv, CallInv
<1>3. ASSUME (\E i \in Outputs : Foreign(i)) \/ PowerLoss PROVE IInv'
  BY <1>3, ForeignInv, PowerLossInv
<1>4. CASE UNCHANGED vars
  BY <1>4 DEF vars, batch, IInv, Processes, Files, LockHeld, HolderKnows, Undecided, Placed, Linked,
     Cleared, Concluding, DirectoryFirst, CommittedIsComplete, RolledBackIsClean
<1>5. QED
  BY <1>1, <1>2, <1>3, <1>4 DEF Next

\* The invariant of the lock, the files and what the holder of the lock knows.
THEOREM Invariant == Spec => []IInv
BY InitInv, NextInv, PTL DEF Spec

\* Every variable keeps its type.
THEOREM TypeCorrect == Spec => []TypeOK
<1>1. IInv => TypeOK
  BY DEF IInv, Processes, Files, TypeOK, ProcessType
<1>2. QED
  BY <1>1, Invariant, PTL

\* A committed batch is complete and on disk, whatever process or power dies (commit_output_publication
\* runs after every file and directory was synced, and a committed batch is never undone).
THEOREM CommittedBatchesAreComplete == Spec => []CommittedIsComplete
<1>1. IInv => CommittedIsComplete
  BY DEF IInv, Files
<1>2. QED
  BY <1>1, Invariant, PTL

\* rolled-back.json is written only when no link of the batch is left or can come back.
THEOREM RolledBackBatchesAreClean == Spec => []RolledBackIsClean
<1>1. IInv => RolledBackIsClean
  BY DEF IInv, Files
<1>2. QED
  BY <1>1, Invariant, PTL

\* Only a link of this batch is ever unlinked, and os.link never replaces a file.
THEOREM OthersFilesStay == Spec => ForeignFilesStay
<1> DEFINE Stays ==
         \A i \in Outputs : Present(target[i].st) /\ target[i].kind \in {"same", "other"}
            => Present(target'[i].st) /\ target'[i].kind = target[i].kind
<1>1. IInv /\ [Next]_vars => [PowerLoss \/ Stays]_vars
  <2> SUFFICES ASSUME IInv, Next, ~ PowerLoss PROVE Stays
    OBVIOUS
  <2>0. target \in [Outputs -> [st : Entry, kind : Kinds]]
    BY DEF IInv, Files
  <2>1. CASE UNCHANGED target
    BY <2>1
  <2>2. ASSUME NEW p \in Procs, Link(p), proc[p].at \in Outputs, ~ Present(target[proc[p].at].st),
               target' = [target EXCEPT ![proc[p].at] = [st |-> "volatile", kind |-> "ours"]]
        PROVE  Stays
    BY <2>0, <2>2
  <2>3. ASSUME NEW p \in Procs, target' = [target EXCEPT ![proc[p].at].st = Synced(@)] PROVE Stays
    BY <2>0, <2>3 DEF Synced, Present
  <2>4. ASSUME target' = [i \in Outputs |-> [target[i] EXCEPT !.st = Synced(@)]] PROVE Stays
    BY <2>0, <2>4 DEF Synced, Present
  <2>5. ASSUME NEW p \in Procs, Verified, proc[p].at \in Outputs \ existed,
               Present(target[proc[p].at].st), target' = [target EXCEPT ![proc[p].at].st = "ghost"]
        PROVE  Stays
    <3>1. target[proc[p].at].kind = "ours"
      BY <2>5 DEF Verified
    <3>2. QED
      BY <2>0, <2>5, <3>1
  <2>6. ASSUME NEW i \in Outputs, Foreign(i) PROVE Stays
    BY <2>0, <2>6 DEF Foreign, Present
  <2>7. ASSUME NEW p \in Procs, Step(p) PROVE Stays
    <3>1. CASE Link(p)
      BY <3>1, <2>1, <2>2 DEF Link
    <3>2. CASE SyncLink(p) \/ SyncUnlink(p)
      BY <3>2, <2>3 DEF SyncLink, SyncUnlink
    <3>3. CASE SyncOutputs(p)
      BY <3>3, <2>1, <2>4 DEF SyncOutputs
    <3>4. CASE Unlink(p)
      BY <3>4, <2>1, <2>5 DEF Unlink
    <3>5. CASE Verify(p) \/ Commit(p) \/ ReturnOutputs(p) \/ Load(p) \/ LookFirst(p) \/ Acquire(p)
      BY <3>5, <2>1 DEF Verify, Commit, ReturnOutputs, Load, LookFirst, Acquire, batch
    <3>6. CASE \/ Begin(p) \/ Mkdir(p) \/ SyncDir(p) \/ Stage(p) \/ SyncStage(p) \/ WriteJournal(p)
               \/ SyncJournal(p) \/ Mark(p) \/ MarkTmp(p) \/ MarkLink(p) \/ SyncMark(p)
      BY <3>6, <2>1 DEF Begin, Mkdir, SyncDir, Stage, SyncStage, WriteJournal, SyncJournal, Mark,
                        MarkTmp, MarkLink, SyncMark
    <3>7. QED
      BY <2>7, <3>1, <3>2, <3>3, <3>4, <3>5, <3>6 DEF Step
  <2>8. ASSUME NEW p \in Procs, 
               Stop(p) \/ Raise(p) \/ Kill(p) \/ Call(p, "publish") \/ Call(p, "recover")
        PROVE  Stays
    BY <2>8, <2>1 DEF Stop, Raise, Kill, Call, batch
  <2>9. QED
    BY <2>6, <2>7, <2>8 DEF Next
<1>2. QED
  BY <1>1, Invariant, PTL DEF Spec, ForeignFilesStay

-----------------------------------------------------------------------------
Decision == IF committed THEN "committed" ELSE IF mark = "durable" THEN "rolled_back" ELSE "none"

\* A step that leaves the decision alone and tells nothing new is a step of the contract.
LEMMA Stutters ==
    ASSUME UNCHANGED <<committed, told>>, mark' = mark
    PROVE  UNCHANGED <<Decision, told>>
BY DEF Decision

LEMMA Concludes ==
    ASSUME NEW p \in Procs, NEW status \in {"committed", "rolled_back"}, Conclude(p, status)
    PROVE  told' = told \/ told' = told \cup {status}
BY DEF Conclude, Return, Quiet, Reconcile

\* The batch is decided once, and a caller is told only a decision that is taken: each step of the
\* publication is a step of Publication or leaves it unchanged.
THEOREM PublicationImplementsContract == Spec => KeepsContract
<1>1. Init => Contract!Init
  BY DEF Init, Contract!Init
<1>2. IInv /\ [Next]_vars => [Contract!Next]_<<Decision, told>>
  <2> SUFFICES ASSUME IInv, [Next]_vars
               PROVE  Contract!Next \/ UNCHANGED <<Decision, told>>
    OBVIOUS
  <2>1. ASSUME NEW p \in Procs, Commit(p) PROVE Contract!Next \/ UNCHANGED <<Decision, told>>
    <3>1. ~ committed /\ ~ Present(mark) /\ mark' = mark /\ told' = told
      BY <2>1 DEF IInv, Processes, HolderKnows, Undecided, Publishing, Commit, At, Quiet, batch
    <3>2. CASE committed'
      BY <3>1, <3>2 DEF Decision, Present, Contract!Next, Contract!Decide, Contract!Decisions
    <3>3. CASE UNCHANGED committed
      BY <3>1, <3>3, Stutters
    <3>4. QED
      BY <2>1, <3>2, <3>3 DEF Commit
  <2>2. ASSUME NEW p \in Procs, SyncMark(p) PROVE Contract!Next \/ UNCHANGED <<Decision, told>>
    <3>1. Present(mark) /\ ~ committed /\ ~ committed' /\ mark' = "durable"
      BY <2>2 DEF IInv, Processes, Files, HolderKnows, Concluding, RolledBackIsClean, SyncMark, At,
                  Frame, Synced
    <3>2. told' = told \/ told' = told \cup {"rolled_back"}
      BY <2>2, Concludes DEF SyncMark
    <3>3. QED
      BY <3>1, <3>2 DEF Decision, Contract!Next, Contract!Decide, Contract!Tell, Contract!DecideAndTell,
                        Contract!Decisions
  <2>3. ASSUME NEW p \in Procs, ReturnOutputs(p) PROVE Contract!Next \/ UNCHANGED <<Decision, told>>
    <3>1. committed /\ committed' /\ told' = told \cup {"committed"}
      BY <2>3 DEF IInv, Processes, HolderKnows, Concluding, ReturnOutputs, At, Frame, Return
    <3>2. QED
      BY <3>1 DEF Decision, Contract!Next, Contract!Tell
  <2>4. ASSUME NEW p \in Procs, Load(p) PROVE Contract!Next \/ UNCHANGED <<Decision, told>>
    <3>1. mark' = mark /\ committed' = committed
      BY <2>4 DEF Load, Frame, batch
    <3>2. CASE told' = told
      BY <3>1, <3>2, Stutters
    <3>3. CASE committed /\ Conclude(p, "committed")
      BY <3>1, <3>3, Concludes DEF Decision, Contract!Next, Contract!Tell
    <3>4. CASE GiveUp(p)
      BY <3>2, <3>4 DEF GiveUp, Uncertain, Return, Quiet
    <3>5. QED
      BY <2>4, <3>2, <3>3, <3>4 DEF Load, Quiet
  <2>5. ASSUME PowerLoss PROVE Contract!Next \/ UNCHANGED <<Decision, told>>
    <3>1. mark' \in AfterLoss(mark) /\ committed' = committed /\ told' = told
      BY <2>5 DEF PowerLoss
    <3>2. (mark = "durable" => mark' = "durable") /\ (committed => ~ Present(mark)) /\ mark # "ghost"
      BY <3>1 DEF AfterLoss, IInv, Files, RolledBackIsClean, DirectoryFirst
    <3>3. QED
      BY <3>1, <3>2 DEF Decision, Contract!Next, Contract!Decide, Contract!Decisions
  <2>6. ASSUME NEW p \in Procs, MarkLink(p) PROVE UNCHANGED <<Decision, told>>
    <3>1. ~ committed /\ ~ committed' /\ ~ Present(mark) /\ mark' = "volatile" /\ told' = told
      BY <2>6 DEF IInv, Processes, HolderKnows, Undecided, Undoing, MarkLink, At, Frame, Quiet
    <3>2. QED
      BY <3>1 DEF Decision, Present
  <2>7. ASSUME NEW p \in Procs, Step(p) PROVE Contract!Next \/ UNCHANGED <<Decision, told>>
    <3>1. CASE LookFirst(p) \/ Acquire(p) \/ Begin(p) \/ Verify(p)
      <4>1. UNCHANGED <<committed, told>> /\ mark' = mark
        BY <3>1 DEF LookFirst, Acquire, Begin, Verify, Return, Quiet, Frame, batch
      <4>2. QED
        BY <4>1, Stutters
    <3>2. CASE \/ Mkdir(p) \/ SyncDir(p) \/ Stage(p) \/ SyncStage(p) \/ WriteJournal(p)
               \/ SyncJournal(p) \/ Link(p) \/ SyncLink(p) \/ SyncOutputs(p) \/ SyncUnlink(p)
               \/ MarkTmp(p)
      <4>1. UNCHANGED <<committed, told>> /\ mark' = mark
        BY <3>2 DEF Mkdir, SyncDir, Stage, SyncStage, WriteJournal, SyncJournal, Link, SyncLink,
                    SyncOutputs, SyncUnlink, MarkTmp, Quiet, Frame
      <4>2. QED
        BY <4>1, Stutters
    <3>3. CASE Unlink(p) \/ Mark(p)
      <4>1. UNCHANGED <<committed, told>> /\ mark' = mark
        BY <3>3 DEF Unlink, Mark, GiveUp, Uncertain, Return, Quiet, Frame
      <4>2. QED
        BY <4>1, Stutters
    <3>4. QED
      BY <2>1, <2>2, <2>3, <2>4, <2>6, <2>7, <3>1, <3>2, <3>3 DEF Step
  <2>8. ASSUME NEW p \in Procs,
               Stop(p) \/ Raise(p) \/ Kill(p) \/ Call(p, "publish") \/ Call(p, "recover")
        PROVE  UNCHANGED <<Decision, told>>
    <3>1. UNCHANGED <<committed, told>> /\ mark' = mark
      BY <2>8 DEF Stop, Raise, Kill, Call, Uncertain, Return, Quiet, Frame, batch
    <3>2. QED
      BY <3>1, Stutters
  <2>9. ASSUME NEW i \in Outputs, Foreign(i) PROVE UNCHANGED <<Decision, told>>
    BY <2>9, Stutters DEF Foreign, Frame
  <2>10. CASE UNCHANGED vars
    BY <2>10, Stutters DEF vars, batch
  <2>11. QED
    BY <2>5, <2>7, <2>8, <2>9, <2>10 DEF Next
<1>3. QED
  BY <1>1, <1>2, Invariant, PTL DEF Spec, KeepsContract, Contract!Spec, Decision
=============================================================================
