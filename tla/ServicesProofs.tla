--------------------------- MODULE ServicesProofs ---------------------------
(***************************************************************************)
(* Proofs about the calls of module MCServices: the materialization of the  *)
(* selected candidate, for any number of callers, kills and faults; an      *)
(* automatic solve, for any number of invocations and preparations, with    *)
(* and without kills; and an agent session, for any ceilings.               *)
(***************************************************************************)
EXTENDS Sessions, AutomaticSolve, Materialization, SequenceTheorems, TLAPS

-----------------------------------------------------------------------------
(* Materialization: the final candidate is started at most once.             *)

MaterializationPlaces == {"idle", "inspect", "entry", "stage", "write", "record", "launch", "running", "publish", "prepare",
           "exfinish", "deliver", "recordplan", "terminal", "outputs", "term", "termprepare", "termfinish",
           "delivered", "return"}

\* What a call does after it has written a record; only the intent is followed by its ledger event.
AfterWrite == {"record", "prepare", "entry", "deliver", "return", "recordplan", "termprepare", "delivered"}
AfterExecution == {"entry", "deliver", "return"}

ProcRow == [pc : MaterializationPlaces, file : Files \cup {"none"}, then : AfterWrite \cup {"none"},
            modern : BOOLEAN, attest : BOOLEAN]
FileState == {"absent", "dir", "temp", "linked", "final", "cut"}
LedgerRow == [intent : BOOLEAN, execution : {"absent", "prepared", "committed"}, attested : BOOLEAN,
              delivery : BOOLEAN, terminal : {"absent", "prepared", "committed"}]

TypeOK ==
    /\ lock \in Callers \cup {Free}
    /\ disk \in [Files -> FileState]
    /\ staged \in BOOLEAN /\ launched \in Nat
    /\ ledger \in LedgerRow
    /\ proc \in [Callers -> ProcRow]

\* Whoever is in a call holds .materialization.lock.
LockHeld == \A c \in Callers : proc[c].pc # "idle" => lock = c

\* A candidate that was started has its intent on disk and in the ledger, and its directory.
LaunchedIsIntended == launched # 0 => Whole("intent") /\ ledger.intent /\ staged

\* The way to the launch is taken only while nothing was started, in the order of its records.
PathToLaunch ==
    \A c \in Callers :
       /\ proc[c].pc = "stage" /\ launched # 0 => disk.evidence # "absent"
       /\ proc[c].pc = "write" => proc[c].file \in Files /\ proc[c].then \in AfterWrite
       /\ proc[c].pc = "write" /\ proc[c].then = "record" => launched = 0 /\ proc[c].file = "intent" /\ staged
       /\ proc[c].pc = "record" => launched = 0 /\ Whole("intent") /\ staged
       /\ proc[c].pc = "launch" => launched = 0 /\ Whole("intent") /\ staged /\ ledger.intent
       /\ proc[c].pc = "exfinish" => proc[c].then \in AfterExecution

IInv ==
    /\ TypeOK
    /\ LockHeld
    /\ LaunchedIsIntended
    /\ LaunchedOnce
    /\ PathToLaunch

\* A step that starts no candidate and takes nothing of the intent away.
Preserves ==
    /\ launched' = launched
    /\ disk' \in [Files -> FileState] /\ (Whole("intent") => Whole("intent")')
    /\ staged' \in BOOLEAN /\ (staged => staged')
    /\ ledger' \in LedgerRow /\ (ledger.intent => ledger'.intent)

LEMMA InvInit == Init => IInv
  <1> SUFFICES ASSUME Init PROVE IInv
    OBVIOUS
  <1>1. TypeOK
    BY DEF Init, TypeOK, Files, FileState, LedgerRow, ProcRow, MaterializationPlaces, Idle
  <1>2. LockHeld /\ PathToLaunch
    BY DEF Init, LockHeld, PathToLaunch, Idle
  <1>3. LaunchedIsIntended /\ LaunchedOnce
    BY DEF Init, LaunchedIsIntended, LaunchedOnce
  <1> QED
    BY <1>1, <1>2, <1>3 DEF IInv

LEMMA NothingLost ==
  ASSUME IInv, UNCHANGED <<disk, staged, ledger, launched>>
  PROVE  Preserves
  BY DEF IInv, TypeOK, Preserves, Whole

\* Only the holder of the lock moves: its own row decides about the invariant.
LEMMA CallerMoves ==
  ASSUME IInv, Preserves, NEW c \in Callers, lock \in {c, Free}, NEW row \in ProcRow,
         proc' = [proc EXCEPT ![c] = row],
         lock' \in {c, Free}, row.pc # "idle" => lock' = c,
         row.pc = "stage" /\ launched # 0 => disk'["evidence"] # "absent",
         row.pc = "write" => row.file \in Files /\ row.then \in AfterWrite,
         row.pc = "write" /\ row.then = "record" => launched = 0 /\ row.file = "intent" /\ staged',
         row.pc = "record" => launched = 0 /\ Whole("intent")' /\ staged',
         row.pc = "launch" => launched = 0 /\ Whole("intent")' /\ staged' /\ ledger'.intent,
         row.pc = "exfinish" => row.then \in AfterExecution
  PROVE  IInv'
  <1>1. /\ proc' \in [Callers -> ProcRow] /\ proc'[c] = row
        /\ \A d \in Callers : d # c => proc'[d] = proc[d]
    BY DEF IInv, TypeOK
  <1>2. \A d \in Callers : d # c => proc[d].pc = "idle"
    BY MaterializationAssumption DEF IInv, LockHeld
  <1>3. TypeOK'
    BY <1>1, MaterializationAssumption DEF IInv, TypeOK, Preserves
  <1>4. LockHeld'
    BY <1>1, <1>2 DEF LockHeld
  <1>5. LaunchedIsIntended' /\ LaunchedOnce'
    BY DEF IInv, LaunchedIsIntended, LaunchedOnce, Preserves
  <1>6. PathToLaunch'
    <2> SUFFICES ASSUME NEW d \in Callers
                 PROVE  /\ proc'[d].pc = "stage" /\ launched' # 0 => disk'["evidence"] # "absent"
                        /\ proc'[d].pc = "write" => proc'[d].file \in Files /\ proc'[d].then \in AfterWrite
                        /\ proc'[d].pc = "write" /\ proc'[d].then = "record"
                              => launched' = 0 /\ proc'[d].file = "intent" /\ staged'
                        /\ proc'[d].pc = "record" => launched' = 0 /\ Whole("intent")' /\ staged'
                        /\ proc'[d].pc = "launch" => launched' = 0 /\ Whole("intent")' /\ staged' /\ ledger'.intent
                        /\ proc'[d].pc = "exfinish" => proc'[d].then \in AfterExecution
      BY DEF PathToLaunch
    <2>1. CASE d = c
      BY <1>1, <2>1 DEF Preserves
    <2>2. CASE d # c
      BY <1>1, <1>2, <2>2
    <2> QED
      BY <2>1, <2>2
  <1> QED
    BY <1>3, <1>4, <1>5, <1>6 DEF IInv

\* The three ways a call goes on when it is not on its way to the launch.
LEMMA LeaveStep ==
  ASSUME IInv, Preserves, NEW c \in Callers, lock = c, Leave(c)
  PROVE  IInv'
  <1>1. Idle \in ProcRow /\ Idle.pc = "idle"
    BY DEF Idle, ProcRow, MaterializationPlaces
  <1> QED
    BY <1>1, CallerMoves DEF Leave

LEMMA GoStep ==
  ASSUME IInv, Preserves, NEW c \in Callers, lock = c, lock' = c,
         NEW place \in MaterializationPlaces \ {"stage", "write", "record", "launch", "exfinish"}, Go(c, place)
  PROVE  IInv'
  <1> DEFINE row == [proc[c] EXCEPT !.pc = place]
  <1>1. row \in ProcRow /\ row.pc = place
    BY DEF IInv, TypeOK, ProcRow
  <1>2. proc' = [proc EXCEPT ![c] = row]
    BY DEF IInv, TypeOK, Go
  <1> HIDE DEF row
  <1> QED
    BY <1>1, <1>2, CallerMoves

LEMMA WriteStep ==
  ASSUME IInv, Preserves, NEW c \in Callers, lock = c, lock' = c,
         NEW f \in Files, NEW place \in AfterWrite \ {"record"}, WriteThen(c, f, place)
  PROVE  IInv'
  <1> DEFINE row == [proc[c] EXCEPT !.pc = IF Whole(f) THEN place ELSE "write", !.file = f, !.then = place]
  <1>1. row \in ProcRow /\ row.pc \in {place, "write"} /\ row.file = f /\ row.then = place
    BY DEF IInv, TypeOK, ProcRow, AfterWrite, MaterializationPlaces
  <1>2. proc' = [proc EXCEPT ![c] = row]
    BY DEF IInv, TypeOK, WriteThen
  <1> HIDE DEF row
  <1>3. row.pc \notin {"idle", "stage", "record", "launch", "exfinish"} /\ place # "record"
    BY <1>1 DEF AfterWrite
  <1> QED
    BY <1>1, <1>2, <1>3, CallerMoves

LEMMA RaiseStep ==
  ASSUME IInv, NEW c \in Callers, lock = c, Raise(c) \/ FaultRaises(c)
  PROVE  IInv'
  BY LeaveStep, NothingLost DEF Raise, FaultRaises, Records

\* A call that is not idle is the one that holds the lock.
LEMMA Holder ==
  ASSUME IInv, NEW c \in Callers, proc[c].pc # "idle"
  PROVE  lock = c
  BY DEF IInv, LockHeld

LEMMA StartSteps ==
  ASSUME IInv, NEW c \in Callers, Materialize(c) \/ Attest(c)
  PROVE  IInv'
  <1>1. Preserves
    BY NothingLost DEF Materialize, Attest, Records
  <1> DEFINE row == IF Materialize(c) THEN [proc[c] EXCEPT !.pc = "inspect"]
                                      ELSE [proc[c] EXCEPT !.pc = "publish", !.attest = TRUE]
  <1>2. row \in ProcRow /\ row.pc \in {"inspect", "publish"}
    BY DEF IInv, TypeOK, ProcRow, MaterializationPlaces
  <1>3. proc' = [proc EXCEPT ![c] = row] /\ lock = Free /\ lock' = c
    BY DEF IInv, TypeOK, Materialize, Attest, Go
  <1> HIDE DEF row
  <1> QED
    BY <1>1, <1>2, <1>3, CallerMoves

\* _write_record: no step of it makes a whole intent less than whole.
LEMMA WriteSteps ==
  ASSUME IInv, NEW c \in Callers, WriteRecord(c) \/ WriteFails(c)
  PROVE  IInv'
  <1> DEFINE f == proc[c].file
             old == proc[c]
  <1>1. /\ old.pc = "write" /\ f \in Files /\ lock = c /\ old \in ProcRow /\ old.then \in AfterWrite
        /\ old.then = "record" => launched = 0 /\ f = "intent" /\ staged
        /\ disk \in [Files -> FileState]
    BY Holder DEF WriteRecord, WriteFails, At, IInv, TypeOK, PathToLaunch
  <1> HIDE DEF f
  <1>2. PICK st \in FileState : /\ disk' = [disk EXCEPT ![f] = st]
                                /\ disk[f] \in {"linked", "final"} => st \in {"linked", "final"}
    BY <1>1 DEF WriteRecord, WriteFails, FileState, f
  <1>3. Preserves
    <2>1. disk' \in [Files -> FileState] /\ (Whole("intent") => Whole("intent")')
      BY <1>1, <1>2 DEF Whole, Files
    <2> QED
      BY <2>1 DEF WriteRecord, WriteFails, IInv, TypeOK, Preserves
  <1>4. CASE WriteFails(c)
    BY <1>1, <1>3, <1>4, LeaveStep DEF WriteFails
  <1>5. CASE WriteRecord(c) /\ proc' = proc
    <2>1. proc' = [proc EXCEPT ![c] = old] /\ lock' = c /\ staged' = staged
      BY <1>1, <1>5 DEF WriteRecord, IInv, TypeOK
    <2>2. old.file = f
      BY DEF f
    <2> HIDE DEF old
    <2> QED
      BY <1>1, <1>3, <2>1, <2>2, CallerMoves
  <1>6. CASE WriteRecord(c) /\ Go(c, proc[c].then) /\ disk' = [disk EXCEPT ![f] = "final"]
    <2> DEFINE row == [old EXCEPT !.pc = old.then]
    <2>1. row \in ProcRow /\ row.pc = old.then
      BY <1>1 DEF ProcRow, AfterWrite, MaterializationPlaces
    <2>2. proc' = [proc EXCEPT ![c] = row] /\ lock' = c /\ staged' = staged
      BY <1>1, <1>6 DEF WriteRecord, IInv, TypeOK, Go
    <2>3. old.then = "record" => Whole("intent")'
      BY <1>1, <1>6 DEF Whole, Files
    <2> HIDE DEF row
    <2>4. row.pc \notin {"idle", "stage", "write", "launch", "exfinish"}
      BY <1>1, <2>1 DEF AfterWrite
    <2> QED
      BY <1>1, <1>3, <2>1, <2>2, <2>3, <2>4, CallerMoves
  <1>7. WriteRecord(c) => \/ proc' = proc
                          \/ Go(c, proc[c].then) /\ disk' = [disk EXCEPT ![f] = "final"]
    BY DEF WriteRecord, f
  <1> QED
    BY <1>4, <1>5, <1>6, <1>7

\* A call that goes to commit the execution knows what follows.
LEMMA FinishStep ==
  ASSUME IInv, Preserves, NEW c \in Callers, lock = c, lock' = c, NEW row \in ProcRow,
         proc' = [proc EXCEPT ![c] = row], row.pc = "exfinish", row.then \in AfterExecution
  PROVE  IInv'
  BY CallerMoves

LEMMA InspectSteps ==
  ASSUME IInv, NEW c \in Callers, Inspect(c) \/ ExecutionFinish(c)
  PROVE  IInv'
  <1>1. lock = c /\ proc[c] \in ProcRow /\ proc \in [Callers -> ProcRow]
    BY Holder DEF Inspect, ExecutionFinish, At, IInv, TypeOK
  <1>2. CASE Raise(c)
    BY <1>1, <1>2, RaiseStep
  <1>3. CASE Inspect(c) /\ ~ Raise(c)
    <2>1. Preserves /\ lock' = c
      BY <1>1, <1>3, NothingLost DEF Inspect, Records
    <2>2. CASE Go(c, "entry")
      BY <1>1, <2>1, <2>2, GoStep DEF MaterializationPlaces
    <2>3. CASE proc' = [proc EXCEPT ![c].pc = "exfinish", ![c].then = "entry", ![c].modern = TRUE]
      <3> DEFINE row == [proc[c] EXCEPT !.pc = "exfinish", !.then = "entry", !.modern = TRUE]
      <3>1. row \in ProcRow /\ row.pc = "exfinish" /\ row.then \in AfterExecution
        BY <1>1 DEF ProcRow, MaterializationPlaces, AfterWrite, AfterExecution
      <3>2. proc' = [proc EXCEPT ![c] = row]
        BY <1>1, <2>3
      <3> HIDE DEF row
      <3> QED
        BY <1>1, <2>1, <3>1, <3>2, FinishStep
    <2> QED
      BY <1>3, <2>2, <2>3 DEF Inspect
  <1>4. CASE ExecutionFinish(c) /\ ~ Raise(c)
    <2>1. /\ ledger' = [ledger EXCEPT !.execution = IF @ = "committed" THEN @ ELSE "committed"]
          /\ WriteThen(c, "exdone", proc[c].then) /\ UNCHANGED <<lock, disk, staged, launched>>
      BY <1>4 DEF ExecutionFinish, WriteExecution
    <2>2. Preserves
      BY <2>1 DEF IInv, TypeOK, Preserves, LedgerRow, Whole
    <2>3. proc[c].then \in AfterWrite \ {"record"} /\ "exdone" \in Files
      BY <1>4 DEF ExecutionFinish, At, IInv, PathToLaunch, AfterExecution, AfterWrite, Files
    <2> QED
      BY <1>1, <2>1, <2>2, <2>3, WriteStep
  <1> QED
    BY <1>2, <1>3, <1>4

\* A candidate that was started is not staged again: without its recorded execution the call ends,
\* and with it there is evidence on disk.
LEMMA EntryStep ==
  ASSUME IInv, NEW c \in Callers, Entry(c)
  PROVE  IInv'
  <1>1. lock = c /\ proc[c] \in ProcRow /\ proc \in [Callers -> ProcRow]
    BY Holder DEF Entry, At, IInv, TypeOK
  <1>2. CASE Raise(c)
    BY <1>1, <1>2, RaiseStep
  <1>3. CASE ~ Raise(c)
    <2>1. Preserves /\ lock' = c /\ disk' = disk
      BY <1>1, <1>3, NothingLost DEF Entry, Records
    <2>2. ~ LaunchUnknown
      BY <1>3 DEF Entry
    <2>3. launched # 0 => disk["evidence"] # "absent"
      BY <2>2 DEF LaunchUnknown, IntentStatus, IntentRecorded, IInv, LaunchedIsIntended, Whole
    <2>4. Go(c, "terminal") \/ Go(c, "termfinish") \/ Go(c, "deliver") \/ Go(c, "stage")
      BY <1>3 DEF Entry
    <2>5. CASE Go(c, "terminal") \/ Go(c, "termfinish") \/ Go(c, "deliver")
      BY <1>1, <2>1, <2>5, GoStep DEF MaterializationPlaces
    <2>6. CASE Go(c, "stage")
      <3> DEFINE row == [proc[c] EXCEPT !.pc = "stage"]
      <3>1. row \in ProcRow /\ row.pc = "stage"
        BY <1>1 DEF ProcRow, MaterializationPlaces
      <3>2. proc' = [proc EXCEPT ![c] = row]
        BY <1>1, <2>6 DEF Go
      <3> HIDE DEF row
      <3> QED
        BY <1>1, <2>1, <2>3, <3>1, <3>2, CallerMoves
    <2> QED
      BY <2>4, <2>5, <2>6
  <1> QED
    BY <1>2, <1>3

\* From the attempt directory to the start of the candidate.
LEMMA LaunchSteps ==
  ASSUME IInv, NEW c \in Callers, Stage(c) \/ StageFails(c) \/ RecordIntent(c) \/ Launch(c)
  PROVE  IInv'
  <1>1. lock = c /\ proc[c] \in ProcRow /\ proc \in [Callers -> ProcRow] /\ disk \in [Files -> FileState]
    BY Holder DEF Stage, StageFails, RecordIntent, Launch, At, IInv, TypeOK
  <1>2. CASE Raise(c)
    BY <1>1, <1>2, RaiseStep
  <1>3. CASE Stage(c) /\ ~ Raise(c)
    <2>1. /\ NothingRecorded /\ staged' = TRUE /\ WriteThen(c, "intent", "record") /\ proc[c].pc = "stage"
          /\ UNCHANGED <<lock, disk, ledger, launched>>
      BY <1>3 DEF Stage, At
    <2>2. launched = 0
      BY <2>1 DEF NothingRecorded, IInv, PathToLaunch
    <2>3. Preserves
      BY <2>1 DEF IInv, TypeOK, Preserves, Whole
    <2> DEFINE row == [proc[c] EXCEPT !.pc = IF Whole("intent") THEN "record" ELSE "write",
                                      !.file = "intent", !.then = "record"]
    <2>4. /\ row \in ProcRow /\ row.pc = (IF Whole("intent") THEN "record" ELSE "write")
          /\ row.file = "intent" /\ row.then = "record"
      BY <1>1 DEF ProcRow, AfterWrite, MaterializationPlaces, Files
    <2>5. proc' = [proc EXCEPT ![c] = row]
      BY <1>1, <2>1 DEF WriteThen
    <2>6. Whole("intent")' <=> Whole("intent")
      BY <2>1 DEF Whole
    <2>7. "record" \in AfterWrite /\ "intent" \in Files /\ lock' = c
      BY <1>1, <2>1 DEF AfterWrite, Files
    <2> HIDE DEF row
    <2> QED
      BY <1>1, <2>1, <2>2, <2>3, <2>4, <2>5, <2>6, <2>7, CallerMoves
  <1>4. CASE StageFails(c)
    <2>1. Preserves /\ lock' = c /\ Go(c, "term")
      BY <1>1, <1>4 DEF StageFails, IInv, TypeOK, Preserves, Whole
    <2> QED
      BY <1>1, <2>1, GoStep DEF MaterializationPlaces
  <1>5. CASE RecordIntent(c)
    <2>1. /\ ledger' = [ledger EXCEPT !.intent = TRUE] /\ Go(c, "launch") /\ proc[c].pc = "record"
          /\ UNCHANGED <<lock, disk, staged, launched>>
      BY <1>5 DEF RecordIntent, RecordLaunchIntent, At
    <2>2. Preserves /\ ledger'.intent
      BY <2>1 DEF IInv, TypeOK, Preserves, LedgerRow, Whole
    <2>3. launched = 0 /\ Whole("intent")' /\ staged'
      BY <2>1 DEF IInv, PathToLaunch, Whole
    <2> DEFINE row == [proc[c] EXCEPT !.pc = "launch"]
    <2>4. row \in ProcRow /\ row.pc = "launch" /\ proc' = [proc EXCEPT ![c] = row]
      BY <1>1, <2>1 DEF ProcRow, MaterializationPlaces, Go
    <2> HIDE DEF row
    <2> QED
      BY <1>1, <2>1, <2>2, <2>3, <2>4, CallerMoves
  <1>6. CASE Launch(c)
    <2>1. /\ launched' = launched + 1 /\ Go(c, "running") /\ proc[c].pc = "launch"
          /\ UNCHANGED <<lock, disk, staged, ledger>>
      BY <1>6 DEF Launch, At
    <2>2. launched = 0 /\ Whole("intent") /\ staged /\ ledger.intent
      BY <2>1 DEF IInv, PathToLaunch
    <2> DEFINE row == [proc[c] EXCEPT !.pc = "running"]
    <2>3. row \in ProcRow /\ row.pc = "running" /\ proc' = [proc EXCEPT ![c] = row]
      BY <1>1, <2>1 DEF ProcRow, MaterializationPlaces, Go
    <2> HIDE DEF row
    <2>4. /\ proc' \in [Callers -> ProcRow] /\ proc'[c].pc = "running"
          /\ \A d \in Callers : d # c => proc'[d].pc = "idle"
      BY <1>1, <2>3 DEF IInv, LockHeld
    <2>5. TypeOK' /\ LockHeld'
      BY <1>1, <2>1, <2>2, <2>4 DEF IInv, TypeOK, LockHeld
    <2>6. LaunchedIsIntended' /\ LaunchedOnce'
      BY <2>1, <2>2 DEF LaunchedIsIntended, LaunchedOnce, Whole
    <2>7. PathToLaunch'
      <3>1. \A d \in Callers : proc'[d].pc \in {"running", "idle"}
        BY <2>4
      <3> QED
        BY <3>1 DEF PathToLaunch
    <2> QED
      BY <2>5, <2>6, <2>7 DEF IInv
  <1> QED
    BY <1>2, <1>3, <1>4, <1>5, <1>6

\* The run ends, and its execution is published.
LEMMA ExecutionSteps ==
  ASSUME IInv, NEW c \in Callers, RunEnds(c) \/ Publish(c) \/ Prepare(c)
  PROVE  IInv'
  <1>1. /\ lock = c /\ proc[c] \in ProcRow /\ proc \in [Callers -> ProcRow] /\ disk \in [Files -> FileState]
        /\ ledger \in LedgerRow /\ staged \in BOOLEAN
    BY Holder DEF RunEnds, Publish, Prepare, At, IInv, TypeOK
  <1>2. CASE Raise(c)
    BY <1>1, <1>2, RaiseStep
  <1>3. CASE RunEnds(c)
    <2>1. PICK st \in {"temp", "final"} : disk' = [disk EXCEPT !["evidence"] = st]
      BY <1>3 DEF RunEnds
    <2>2. UNCHANGED <<lock, staged, ledger, launched>> /\ proc[c].pc = "running"
      BY <1>3 DEF RunEnds, At
    <2>3. Preserves
      BY <1>1, <2>1, <2>2 DEF Preserves, Whole, Files, FileState
    <2>4. CASE Go(c, "publish")
      BY <1>1, <2>2, <2>3, <2>4, GoStep DEF MaterializationPlaces
    <2>5. CASE proc' = proc
      <3>1. proc' = [proc EXCEPT ![c] = proc[c]]
        BY <1>1, <2>5
      <3> QED
        BY <1>1, <2>2, <2>3, <3>1, CallerMoves
    <2> QED
      BY <1>3, <2>4, <2>5 DEF RunEnds
  <1>4. CASE Publish(c) /\ ~ Raise(c)
    <2>1. CASE /\ disk' = [disk EXCEPT !.journal = "dir"] /\ WriteThen(c, "journal", "prepare")
               /\ RecordAttestation(proc[c].attest) /\ UNCHANGED <<lock, staged, launched>>
      <3>1. Preserves
        BY <1>1, <2>1 DEF RecordAttestation, Preserves, LedgerRow, ProcRow, Whole, Files, FileState
      <3>2. "journal" \in Files /\ "prepare" \in AfterWrite \ {"record"}
        BY DEF Files, AfterWrite
      <3> QED
        BY <1>1, <2>1, <3>1, <3>2, WriteStep
    <2>2. ASSUME NEW then \in {"return", "deliver"}, NEW place \in {"prepare", "exfinish"},
                 proc' = [proc EXCEPT ![c].pc = place, ![c].then = then], UNCHANGED <<lock, Records>>
          PROVE  IInv'
      <3>1. Preserves
        BY <2>2, NothingLost DEF Records
      <3> DEFINE row == [proc[c] EXCEPT !.pc = place, !.then = then]
      <3>2. row \in ProcRow /\ row.pc = place /\ row.then \in AfterExecution
        BY <1>1 DEF ProcRow, MaterializationPlaces, AfterWrite, AfterExecution
      <3>3. proc' = [proc EXCEPT ![c] = row] /\ lock' = c
        BY <1>1, <2>2
      <3> HIDE DEF row
      <3> QED
        BY <1>1, <3>1, <3>2, <3>3, CallerMoves
    <2> QED
      BY <1>4, <2>1, <2>2 DEF Publish
  <1>5. CASE Prepare(c)
    <2> DEFINE then == IF proc[c].attest THEN "return" ELSE "deliver"
               row == [proc[c] EXCEPT !.pc = "exfinish", !.then = then]
    <2>1. /\ ledger' = [ledger EXCEPT !.execution = IF @ = "committed" THEN @ ELSE "prepared"]
          /\ UNCHANGED <<lock, disk, staged, launched>>
      BY <1>5 DEF Prepare, WriteExecution
    <2>2. Preserves
      BY <1>1, <2>1 DEF Preserves, LedgerRow, Whole
    <2>3. row \in ProcRow /\ row.pc = "exfinish" /\ row.then \in AfterExecution
      BY <1>1 DEF ProcRow, MaterializationPlaces, AfterWrite, AfterExecution
    <2>4. proc' = [proc EXCEPT ![c] = row] /\ lock' = c
      BY <1>1, <1>5 DEF Prepare
    <2> HIDE DEF row, then
    <2> QED
      BY <1>1, <2>2, <2>3, <2>4, FinishStep
  <1> QED
    BY <1>2, <1>3, <1>4, <1>5

\* The plan, the outputs and the terminal result.
LEMMA DeliverySteps ==
  ASSUME IInv, NEW c \in Callers,
         \/ Deliver(c) \/ RecordPlan(c) \/ TerminalEntry(c) \/ Outputs(c) \/ PromotionFails(c)
         \/ PublishTerminal(c) \/ TerminalPrepare(c) \/ TerminalFinish(c) \/ Acknowledge(c) \/ Return(c)
  PROVE  IInv'
  <1>1. /\ lock = c /\ proc[c] \in ProcRow /\ proc \in [Callers -> ProcRow] /\ disk \in [Files -> FileState]
        /\ ledger \in LedgerRow /\ staged \in BOOLEAN
    BY Holder DEF Deliver, RecordPlan, TerminalEntry, Outputs, PromotionFails, PublishTerminal, TerminalPrepare,
       TerminalFinish, Acknowledge, Return, At, IInv, TypeOK
  <1>2. CASE Raise(c)
    BY <1>1, <1>2, RaiseStep
  <1>3. CASE Return(c)
    BY <1>1, <1>3, LeaveStep, NothingLost DEF Return, Records
  <1>4. ASSUME ~ Raise(c), ~ Return(c) PROVE Preserves /\ lock' = c
    <2>1. UNCHANGED <<lock, staged, launched>>
      BY <1>4 DEF Deliver, RecordPlan, TerminalEntry, Outputs, PromotionFails, PublishTerminal, TerminalPrepare,
         TerminalFinish, Acknowledge, Records
    <2>2. disk' = disk \/ disk' = [disk EXCEPT !["plan"] = "dir"] \/ disk' = [disk EXCEPT !["terminal"] = "dir"]
      BY <1>4 DEF Deliver, RecordPlan, TerminalEntry, Outputs, PromotionFails, PublishTerminal, TerminalPrepare,
         TerminalFinish, Acknowledge, Records
    <2>3. ledger' \in LedgerRow /\ ledger'.intent = ledger.intent
      <3>1. \/ ledger' = ledger
            \/ ledger' = [ledger EXCEPT !.delivery = TRUE]
            \/ ledger' = [ledger EXCEPT !.terminal = IF @ = "committed" THEN @ ELSE "prepared"]
            \/ ledger' = [ledger EXCEPT !.terminal = IF @ = "committed" THEN @ ELSE "committed"]
        BY <1>4 DEF Deliver, RecordPlan, TerminalEntry, Outputs, PromotionFails, PublishTerminal, TerminalPrepare,
           TerminalFinish, Acknowledge, Records, RecordDelivery, WriteTerminal
      <3> QED
        BY <1>1, <3>1 DEF LedgerRow
    <2>4. disk' \in [Files -> FileState] /\ (Whole("intent") => Whole("intent")')
      BY <1>1, <2>2 DEF Whole, Files, FileState
    <2> QED
      BY <1>1, <2>1, <2>3, <2>4 DEF Preserves
  <1>5. ASSUME ~ Raise(c), ~ Return(c)
        PROVE  \/ \E place \in {"terminal", "termfinish", "outputs", "term", "return"} : Go(c, place)
               \/ WriteThen(c, "plan", "recordplan") \/ WriteThen(c, "terminal", "termprepare")
               \/ WriteThen(c, "termdone", "delivered") \/ WriteThen(c, "delivered", "return")
               \/ proc' = proc
    BY <1>5 DEF Deliver, RecordPlan, TerminalEntry, Outputs, PromotionFails, PublishTerminal, TerminalPrepare,
       TerminalFinish, Acknowledge
  <1>6. ASSUME ~ Raise(c), ~ Return(c), proc' = proc PROVE IInv'
    <2>1. proc[c].pc \in {"outputs", "termfinish"}
      <3>1. \A place \in {"terminal", "termfinish", "outputs", "term", "return"} : Go(c, place) => proc'[c].pc = place
        BY <1>1 DEF Go, ProcRow
      <3>2. \A f \in Files, place \in AfterWrite : WriteThen(c, f, place) => proc'[c].file = f /\ proc'[c].pc \in {place, "write"}
        BY <1>1 DEF WriteThen, ProcRow
      <3> QED
        BY <1>6, <3>1, <3>2 DEF Deliver, RecordPlan, TerminalEntry, Outputs, PromotionFails, PublishTerminal,
           TerminalPrepare, TerminalFinish, Acknowledge, At, Files, AfterWrite
    <2>2. proc' = [proc EXCEPT ![c] = proc[c]]
      BY <1>1, <1>6
    <2> QED
      BY <1>1, <1>4, <1>6, <2>1, <2>2, CallerMoves
  <1>7. /\ {"terminal", "termfinish", "outputs", "term", "return"}
             \subseteq MaterializationPlaces \ {"stage", "write", "record", "launch", "exfinish"}
        /\ {"plan", "terminal", "termdone", "delivered"} \subseteq Files
        /\ {"recordplan", "termprepare", "delivered", "return"} \subseteq AfterWrite \ {"record"}
    BY DEF MaterializationPlaces, Files, AfterWrite
  <1> QED
    BY <1>1, <1>2, <1>3, <1>4, <1>5, <1>6, <1>7, GoStep, WriteStep

\* An operation fails, or the process is killed, perhaps in the middle of a file.
LEMMA FailureSteps ==
  ASSUME IInv, NEW c \in Callers, StepFails(c) \/ Kill(c)
  PROVE  IInv'
  <1>1. lock = c /\ disk \in [Files -> FileState] /\ staged \in BOOLEAN /\ ledger \in LedgerRow
    BY Holder DEF StepFails, Kill, At, IInv, TypeOK
  <1>2. CASE StepFails(c)
    BY <1>1, <1>2, RaiseStep DEF StepFails
  <1>3. CASE Kill(c)
    <2>1. /\ Leave(c) /\ UNCHANGED <<staged, ledger, launched>>
          /\ \/ disk' = disk
             \/ \E f \in Files : disk' = [disk EXCEPT ![f] = "cut"] /\ disk[f] \in {"absent", "dir"}
      BY <1>3 DEF Kill, At, IInv, PathToLaunch
    <2>2. disk' \in [Files -> FileState] /\ (Whole("intent") => Whole("intent")')
      BY <1>1, <2>1 DEF Whole, Files, FileState
    <2> QED
      BY <1>1, <2>1, <2>2, LeaveStep DEF Preserves
  <1> QED
    BY <1>2, <1>3

\* The inductive invariant of the way to the launch holds in every reachable state.
THEOREM LaunchInvariant == Spec => []IInv
  <1>1. IInv /\ [Next]_vars => IInv'
    <2> SUFFICES ASSUME IInv, [Next]_vars PROVE IInv'
      OBVIOUS
    <2>1. CASE Next
      BY <2>1, StartSteps, WriteSteps, InspectSteps, EntryStep, LaunchSteps, ExecutionSteps, DeliverySteps,
         FailureSteps DEF Next, Step
    <2>2. CASE UNCHANGED vars
      BY <2>2 DEF vars, IInv, TypeOK, LockHeld, LaunchedIsIntended, LaunchedOnce, PathToLaunch, Whole
    <2> QED
      BY <2>1, <2>2
  <1> QED
    BY <1>1, InvInit, PTL DEF Spec

\* materialize_evolved_outputs and the attestation command, called and killed any number of times: the
\* final candidate is started at most once.
THEOREM CandidateIsLaunchedOnce == Spec => []LaunchedOnce
  <1>1. IInv => LaunchedOnce
    BY DEF IInv
  <1> QED
    BY <1>1, LaunchInvariant, PTL

-----------------------------------------------------------------------------
(* Automatic solve: its places and rows.                                     *)

\* Where a process is once it may coordinate, where a launcher is, and all places.
Coordinating == {"cleaned", "admitted", "intake", "compiling", "attached", "orchestrate", "prepare", "preparing",
                 "profiled", "registered", "child", "rowed", "made", "inputs", "up", "evolve", "evolving", "spawn",
                 "register", "check", "working", "evolved", "copied", "published", "delivered", "raised", "timeout",
                 "cancel", "cleanup", "ending"}
Launching == {"spawned", "claimed", "failing"}
SolvePlaces == Coordinating \cup Launching \cup {"idle", "owned", "waiting", "leaving", "over"}

TaskRow == [intake : {"ready", "running", "uncertain", "waiting", "succeeded", "failed", "cancelled", "blocked"},
            plan : {"none", "ready", "superseded", "cancelled", "blocked"},
            orchestration : {"none", "running", "uncertain", "succeeded", "failed", "cancelled"}]
SolveRow == [status : {"running", "awaiting", "succeeded", "failed", "cancelled"}, budget : BOOLEAN,
             runner : Invocations \cup {Nobody}, tasks : TaskRow, log : Seq({"started", "recoverable", "final"}),
             profile : BOOLEAN, rows : BOOLEAN, prepared : BOOLEAN,
             link : {"none", "row", "made", "up", "linked"}, inputs : BOOLEAN,
             child : {"running", "succeeded", "failed", "cancelled"},
             delivery : {"none", "copied", "published", "rolled back", "delivered", "undelivered"}]

-----------------------------------------------------------------------------
(* The inductive invariant: who holds the lock, and what the ledger says.   *)

\* A cancel has seen a runner of this solve, or none.
Targets(s) == "runner" \in DOMAIN s /\ s.runner \in Invocations \cup {Nobody}

PlacesOK ==
    /\ pc \in [Processes -> SolvePlaces]
    /\ gate \subseteq Invocations
    /\ Targets(stop)

Occupied(c) == Holds(Caller(c)) \/ Holds(Worker(c))

\* The workspace lock is with one invocation: its caller, its worker, or both.
OneHolder == \A c, d \in Invocations : Occupied(c) /\ Occupied(d) => c = d

\* A worker lives beside its launcher only until the gate is open or the launcher is gone.
WorkersFollow ==
    \A c \in Invocations :
       /\ Alive(Worker(c)) => pc[Caller(c)] \in Launching \cup {"over"}
       /\ Alive(Worker(c)) /\ pc[Worker(c)] # "waiting" => pc[Caller(c)] = "over"
       /\ c \in gate => pc[Caller(c)] = "over"

Ownership == PlacesOK /\ OneHolder /\ WorkersFollow

\* What the rows of parent, child and preparation say, wherever the coordinators are.
Agrees(l) ==
    /\ l \in SolveRow
    /\ l.prepared => l.profile /\ l.rows
    /\ l.link # "none" => l.prepared
    /\ l.link = "linked" => l.inputs
    /\ l.delivery = "delivered" => l.child = "succeeded"
    /\ l.tasks.orchestration = "succeeded" => l.delivery = "delivered"
    /\ l.tasks.plan = "superseded" => l.tasks.orchestration # "none"
    /\ l.tasks.intake = "succeeded" => l.tasks.plan # "none"
    /\ l.status = "succeeded" => l.delivery = "delivered"

Decided == {"delivered", "undelivered"}

\* What a coordinator has found or done when it is at a place.
Follows(l, place) ==
    /\ place \in {"profiled", "registered"} => l.profile
    /\ place = "registered" => l.rows
    /\ place \in {"child", "rowed", "made", "inputs", "up"} => l.prepared
    /\ place \in {"inputs", "up"} => l.inputs
    /\ place = "attached" => l.tasks.plan # "none"
    /\ place \in {"copied", "published"} => l.delivery \notin Decided

LedgerAgrees == Agrees(solve)
StepsFollow == \A p \in Processes : Follows(solve, pc[p])

SolveInv == Ownership /\ LedgerAgrees /\ StepsFollow

-----------------------------------------------------------------------------
(* Processes and their places.                                              *)

LEMMA ProcessNames ==
  /\ \A c \in Invocations : Caller(c) \in Processes /\ Worker(c) \in Processes
  /\ \A p \in Processes : \E c \in Invocations : p = Caller(c) \/ p = Worker(c)
  /\ \A c, d \in Invocations : Caller(c) # Worker(d)
  /\ \A c, d \in Invocations : Caller(c) = Caller(d) => c = d
  /\ \A c, d \in Invocations : Worker(c) = Worker(d) => c = d
  <1>1. \A c \in Invocations : Caller(c) \in Processes /\ Worker(c) \in Processes
    BY DEF Caller, Worker, Processes
  <1>2. \A p \in Processes : \E c \in Invocations : p = Caller(c) \/ p = Worker(c)
    BY DEF Caller, Worker, Processes
  <1>3. \A c, d \in Invocations : Caller(c) # Worker(d)
    BY DEF Caller, Worker
  <1>4. /\ \A c, d \in Invocations : Caller(c) = Caller(d) => c = d
        /\ \A c, d \in Invocations : Worker(c) = Worker(d) => c = d
    BY DEF Caller, Worker
  <1> QED
    BY <1>1, <1>2, <1>3, <1>4

\* Only one process changes its place.
OnlyMoves(p) == pc' \in [Processes -> SolvePlaces] /\ \A q \in Processes : q # p => pc'[q] = pc[q]

LEMMA GoToEffect ==
  ASSUME pc \in [Processes -> SolvePlaces], NEW p \in Processes, NEW place \in SolvePlaces, GoTo(p, place)
  PROVE  OnlyMoves(p) /\ pc'[p] = place
  BY DEF GoTo, OnlyMoves

\* Two who coordinate would both hold the lock, and a caller is over when its worker coordinates.
LEMMA OneAtATime ==
  ASSUME Ownership
  PROVE  OneCoordinator
  <1> SUFFICES ASSUME NEW p \in Processes, NEW q \in Processes, Coordinates(p), Coordinates(q)
               PROVE  p = q
    BY DEF OneCoordinator
  <1>1. PICK c \in Invocations : p = Caller(c) \/ p = Worker(c)
    BY ProcessNames
  <1>2. PICK d \in Invocations : q = Caller(d) \/ q = Worker(d)
    BY ProcessNames
  <1>3. Holds(p) /\ Holds(q)
    BY DEF Coordinates, Holds
  <1>4. c = d
    BY <1>1, <1>2, <1>3 DEF Ownership, OneHolder, Occupied
  <1>5. ~ (Coordinates(Caller(c)) /\ Coordinates(Worker(c)))
    BY DEF Ownership, WorkersFollow, Coordinates, Alive
  <1> QED
    BY <1>1, <1>2, <1>4, <1>5

\* A coordinator goes on, leaves or is over.
LEMMA CoordinatorOwns ==
  ASSUME Ownership, NEW p \in Processes, OnlyMoves(p), UNCHANGED <<gate, stop>>,
         pc[p] \in Coordinating \cup {"owned"}, pc'[p] \in Coordinating \cup {"leaving", "over"}
  PROVE  Ownership'
  <1>1. PICK c \in Invocations : p = Caller(c) \/ p = Worker(c)
    BY ProcessNames
  <1>2. PlacesOK'
    BY DEF Ownership, PlacesOK, OnlyMoves
  <1>3. Holds(p) /\ Alive(p) /\ pc[p] # "waiting" /\ pc[p] # "over" /\ pc[p] \notin Launching
    BY DEF Holds, Alive, Coordinating, Launching
  <1>4. \A d \in Invocations : Occupied(d)' => Occupied(d)
    <2> SUFFICES ASSUME NEW d \in Invocations, Occupied(d)' PROVE Occupied(d)
      OBVIOUS
    <2>1. CASE d = c
      BY <1>1, <1>3, <2>1 DEF Occupied
    <2>2. CASE d # c
      <3>1. pc'[Caller(d)] = pc[Caller(d)] /\ pc'[Worker(d)] = pc[Worker(d)]
        BY <1>1, <2>2, ProcessNames DEF OnlyMoves
      <3> QED
        BY <3>1 DEF Occupied, Holds, Alive
    <2> QED
      BY <2>1, <2>2
  <1>5. OneHolder'
    BY <1>4 DEF Ownership, OneHolder
  <1>6. WorkersFollow'
    <2> SUFFICES ASSUME NEW d \in Invocations
                 PROVE  /\ Alive(Worker(d))' => pc'[Caller(d)] \in Launching \cup {"over"}
                        /\ Alive(Worker(d))' /\ pc'[Worker(d)] # "waiting" => pc'[Caller(d)] = "over"
                        /\ d \in gate => pc'[Caller(d)] = "over"
      BY DEF WorkersFollow
    <2>0. /\ Alive(Worker(d)) => pc[Caller(d)] \in Launching \cup {"over"}
          /\ Alive(Worker(d)) /\ pc[Worker(d)] # "waiting" => pc[Caller(d)] = "over"
          /\ d \in gate => pc[Caller(d)] = "over"
      BY DEF Ownership, WorkersFollow
    <2>1. CASE p = Caller(d)
      <3>1. pc'[Worker(d)] = pc[Worker(d)] /\ ~ Alive(Worker(d)) /\ d \notin gate
        BY <1>3, <2>0, <2>1, ProcessNames DEF OnlyMoves
      <3> QED
        BY <3>1 DEF Alive
    <2>2. CASE p = Worker(d)
      <3>1. pc'[Caller(d)] = pc[Caller(d)] /\ pc[Caller(d)] = "over"
        BY <1>3, <2>0, <2>2, ProcessNames DEF OnlyMoves
      <3> QED
        BY <3>1
    <2>3. CASE p # Caller(d) /\ p # Worker(d)
      <3>1. pc'[Caller(d)] = pc[Caller(d)] /\ pc'[Worker(d)] = pc[Worker(d)]
        BY <2>3, ProcessNames DEF OnlyMoves
      <3> QED
        BY <2>0, <3>1 DEF Alive
    <2> QED
      BY <2>1, <2>2, <2>3
  <1> QED
    BY <1>2, <1>5, <1>6 DEF Ownership

\* A process is over: killed, stopped by a cancel, or at its end.
LEMMA OverOwns ==
  ASSUME Ownership, NEW p \in Processes, OnlyMoves(p), pc'[p] = "over",
         gate' = gate, Targets(stop')
  PROVE  Ownership'
  <1>1. PlacesOK'
    BY DEF Ownership, PlacesOK, OnlyMoves
  <1>2. \A q \in Processes : /\ Holds(q)' => Holds(q)
                             /\ Alive(q)' => Alive(q) /\ pc'[q] = pc[q]
                             /\ pc[q] = "over" => pc'[q] = "over"
                             /\ pc'[q] \in {pc[q], "over"}
    BY DEF OnlyMoves, Holds, Alive
  <1>3. OneHolder'
    BY <1>2, ProcessNames DEF Ownership, OneHolder, Occupied
  <1>4. WorkersFollow'
    <2> SUFFICES ASSUME NEW d \in Invocations
                 PROVE  /\ Alive(Worker(d))' => pc'[Caller(d)] \in Launching \cup {"over"}
                        /\ Alive(Worker(d))' /\ pc'[Worker(d)] # "waiting" => pc'[Caller(d)] = "over"
                        /\ d \in gate => pc'[Caller(d)] = "over"
      BY DEF WorkersFollow
    <2>0. /\ Alive(Worker(d)) => pc[Caller(d)] \in Launching \cup {"over"}
          /\ Alive(Worker(d)) /\ pc[Worker(d)] # "waiting" => pc[Caller(d)] = "over"
          /\ d \in gate => pc[Caller(d)] = "over"
      BY DEF Ownership, WorkersFollow
    <2> QED
      BY <1>2, <2>0, ProcessNames
  <1> QED
    BY <1>1, <1>3, <1>4 DEF Ownership

LEMMA StillOwns ==
  ASSUME Ownership, UNCHANGED <<pc, gate>>, Targets(stop')
  PROVE  Ownership'
  BY DEF Ownership, PlacesOK, OneHolder, WorkersFollow, Occupied, Holds, Alive

-----------------------------------------------------------------------------
(* The ledger's operators.                                                  *)

\* What is never undone: the evidence of a preparation, its inputs, and a plan that is there.
Grows(l, m) ==
    /\ l.profile => m.profile
    /\ l.rows => m.rows
    /\ l.prepared => m.prepared
    /\ l.inputs => m.inputs
    /\ l.tasks.plan # "none" => m.tasks.plan # "none"

\* A write that agrees, undoes nothing and decides no delivery.
Fits(l, m) == Agrees(m) /\ Grows(l, m) /\ m.delivery = l.delivery

LEMMA FitsItself ==
  ASSUME Agrees(solve)
  PROVE  Fits(solve, solve)
  BY DEF Fits, Grows

\* The evidence in a row m is what it was.
SameEvidence(m) ==
    /\ m.profile = solve.profile /\ m.rows = solve.rows /\ m.prepared = solve.prepared
    /\ m.link = solve.link /\ m.inputs = solve.inputs /\ m.delivery = solve.delivery

LEMMA RunnerFits ==
  ASSUME Agrees(solve), NEW c \in Invocations \cup {Nobody}
  PROVE  Fits(solve, [solve EXCEPT !.runner = c])
  <1> DEFINE m == [solve EXCEPT !.runner = c]
  <1>1. m \in SolveRow
    BY DEF Agrees, SolveRow
  <1>2. m.tasks = solve.tasks /\ m.status = solve.status /\ m.child = solve.child /\ SameEvidence(m)
    BY DEF Agrees, SolveRow, SameEvidence
  <1> HIDE DEF m
  <1>3. Fits(solve, m)
    BY <1>1, <1>2 DEF Fits, Grows, Agrees, SameEvidence
  <1> QED
    BY <1>3 DEF m

LEMMA ClearedFits ==
  ASSUME Agrees(solve), NEW c \in Invocations
  PROVE  Fits(solve, Cleared(solve, c))
  BY RunnerFits, FitsItself DEF Cleared

\* The states of the tasks, given what they were.
LEMMA TasksFit ==
  ASSUME Agrees(solve), NEW t \in TaskRow, NEW status \in {"running", "awaiting", "succeeded", "failed", "cancelled"},
         NEW budget \in BOOLEAN,
         solve.tasks.plan # "none" => t.plan # "none",
         t.orchestration = "succeeded" => solve.delivery = "delivered",
         t.plan = "superseded" => t.orchestration # "none",
         t.intake = "succeeded" => t.plan # "none",
         status = "succeeded" => solve.delivery = "delivered"
  PROVE  Fits(solve, [solve EXCEPT !.tasks = t, !.status = status, !.budget = budget])
  <1> DEFINE m == [solve EXCEPT !.tasks = t, !.status = status, !.budget = budget]
  <1>1. m \in SolveRow
    BY DEF Agrees, SolveRow
  <1>2. m.tasks = t /\ m.status = status /\ m.child = solve.child /\ SameEvidence(m)
    BY DEF Agrees, SolveRow, SameEvidence
  <1> HIDE DEF m
  <1>3. Agrees(m)
    BY <1>1, <1>2 DEF Agrees, SameEvidence
  <1>4. Fits(solve, m)
    BY <1>2, <1>3 DEF Fits, Grows, SameEvidence
  <1> QED
    BY <1>4 DEF m

LEMMA RecoveredFits ==
  ASSUME Agrees(solve)
  PROVE  Fits(solve, [solve EXCEPT !.tasks = Recovered(@)])
  <1> DEFINE t == Recovered(solve.tasks)
  <1>0. /\ DOMAIN solve.tasks = {"intake", "plan", "orchestration"} /\ solve.tasks \in TaskRow
    BY DEF Agrees, SolveRow, TaskRow
  <1>values. /\ t = [k \in {"intake", "plan", "orchestration"} |-> t[k]]
        /\ \A k \in {"intake", "plan", "orchestration"} : t[k] = IF solve.tasks[k] = "running" THEN "uncertain" ELSE solve.tasks[k]
    BY <1>0 DEF Recovered
  <1>1. /\ t \in TaskRow
        /\ solve.tasks.plan # "none" => t.plan # "none"
        /\ t.orchestration = "succeeded" => solve.delivery = "delivered"
        /\ t.plan = "superseded" => t.orchestration # "none"
        /\ t.intake = "succeeded" => t.plan # "none"
    BY <1>0, <1>values DEF Agrees, TaskRow
  <1>2. solve.status \in {"running", "awaiting", "succeeded", "failed", "cancelled"} /\ solve.budget \in BOOLEAN
        /\ (solve.status = "succeeded" => solve.delivery = "delivered")
    BY DEF Agrees, SolveRow
  <1> HIDE DEF t
  <1>3. Fits(solve, [solve EXCEPT !.tasks = t, !.status = solve.status, !.budget = solve.budget])
    BY <1>1, <1>2, TasksFit
  <1>4. [solve EXCEPT !.tasks = t, !.status = solve.status, !.budget = solve.budget] = [solve EXCEPT !.tasks = t]
    BY DEF Agrees, SolveRow
  <1> QED
    BY <1>3, <1>4 DEF t

LEMMA CancelledFits ==
  ASSUME Agrees(solve)
  PROVE  Fits(solve, Cancelled)
  <1>1. CASE Terminal(solve.status)
    BY <1>1, FitsItself DEF Cancelled
  <1>2. CASE ~ Terminal(solve.status)
    <2> DEFINE t == [k \in DOMAIN solve.tasks |->
                       IF solve.tasks[k] \in {"none", "succeeded", "failed", "superseded"} THEN solve.tasks[k] ELSE "cancelled"]
    <2>0. /\ DOMAIN solve.tasks = {"intake", "plan", "orchestration"} /\ solve.tasks \in TaskRow
      BY DEF Agrees, SolveRow, TaskRow
    <2>values. /\ t = [k \in {"intake", "plan", "orchestration"} |-> t[k]]
          /\ \A k \in {"intake", "plan", "orchestration"} : t[k] =
               IF solve.tasks[k] \in {"none", "succeeded", "failed", "superseded"} THEN solve.tasks[k] ELSE "cancelled"
      BY <2>0
    <2>1. /\ t \in TaskRow
          /\ solve.tasks.plan # "none" => t.plan # "none"
          /\ t.orchestration = "succeeded" => solve.delivery = "delivered"
          /\ t.plan = "superseded" => t.orchestration # "none"
          /\ t.intake = "succeeded" => t.plan # "none"
      BY <2>0, <2>values DEF Agrees, TaskRow
    <2>2. Cancelled = [solve EXCEPT !.tasks = t, !.status = "cancelled", !.budget = solve.budget]
      BY <1>2 DEF Cancelled, Agrees, SolveRow
    <2>3. solve.budget \in BOOLEAN
      BY DEF Agrees, SolveRow
    <2> HIDE DEF t
    <2>4. Fits(solve, [solve EXCEPT !.tasks = t, !.status = "cancelled", !.budget = solve.budget])
      BY <2>1, <2>3, TasksFit
    <2> QED
      BY <2>2, <2>4
  <1> QED
    BY <1>1, <1>2

LEMMA OutOfTimeFits ==
  ASSUME Agrees(solve)
  PROVE  Fits(solve, OutOfTime)
  <1>1. CASE Terminal(solve.status)
    BY <1>1, FitsItself DEF OutOfTime
  <1>2. CASE ~ Terminal(solve.status)
    <2> DEFINE t == [k \in DOMAIN solve.tasks |->
                       IF solve.tasks[k] \in {"none", "succeeded", "failed", "superseded"} THEN solve.tasks[k]
                       ELSE IF k = "orchestration" THEN "failed"
                       ELSE IF solve.tasks[k] = "uncertain" THEN solve.tasks[k] ELSE "blocked"]
    <2>0. /\ DOMAIN solve.tasks = {"intake", "plan", "orchestration"} /\ solve.tasks \in TaskRow
      BY DEF Agrees, SolveRow, TaskRow
    <2>values. /\ t = [k \in {"intake", "plan", "orchestration"} |-> t[k]]
          /\ \A k \in {"intake", "plan", "orchestration"} : t[k] =
               IF solve.tasks[k] \in {"none", "succeeded", "failed", "superseded"} THEN solve.tasks[k]
               ELSE IF k = "orchestration" THEN "failed"
               ELSE IF solve.tasks[k] = "uncertain" THEN solve.tasks[k] ELSE "blocked"
      BY <2>0
    <2>1. /\ t \in TaskRow
          /\ solve.tasks.plan # "none" => t.plan # "none"
          /\ t.orchestration = "succeeded" => solve.delivery = "delivered"
          /\ t.plan = "superseded" => t.orchestration # "none"
          /\ t.intake = "succeeded" => t.plan # "none"
      BY <2>0, <2>values DEF Agrees, TaskRow
    <2>2. OutOfTime = [solve EXCEPT !.tasks = t, !.status = "failed", !.budget = TRUE]
      BY <1>2 DEF OutOfTime, Agrees, SolveRow
    <2> HIDE DEF t
    <2>3. Fits(solve, [solve EXCEPT !.tasks = t, !.status = "failed", !.budget = TRUE])
      BY <2>1, TasksFit
    <2> QED
      BY <2>2, <2>3
  <1> QED
    BY <1>1, <1>2

\* A settled solve has succeeded only if its orchestration has: intake leaves a plan, and a plan
\* that is superseded leaves an orchestration.
LEMMA WithTasksFits ==
  ASSUME Agrees(solve), NEW t \in TaskRow,
         solve.tasks.plan # "none" => t.plan # "none",
         t.orchestration = "succeeded" => solve.delivery = "delivered",
         t.plan = "superseded" => t.orchestration # "none",
         t.intake = "succeeded" => t.plan # "none"
  PROVE  Fits(solve, WithTasks(t))
  <1>1. Settled(t) \in {"running", "awaiting", "succeeded", "failed", "cancelled"}
    BY DEF Settled, Agrees, SolveRow
  <1>2. ASSUME Settled(t) = "succeeded" PROVE solve.delivery = "delivered"
    <2> DEFINE states == {t[k] : k \in DOMAIN t} \ {"none"}
    <2>1. states \subseteq {"succeeded", "superseded"}
      BY <1>2 DEF Settled
    <2>2. DOMAIN t = {"intake", "plan", "orchestration"}
      BY DEF TaskRow
    <2>3. \A k \in {"intake", "plan", "orchestration"} : t[k] \in {"none", "succeeded", "superseded"}
      BY <2>1, <2>2
    <2>4. t.intake = "succeeded" /\ t.plan \in {"none", "superseded"} /\ t.orchestration \in {"none", "succeeded"}
      BY <2>3 DEF TaskRow
    <2> QED
      BY <2>4
  <1>3. solve.budget \in BOOLEAN
    BY DEF Agrees, SolveRow
  <1> DEFINE status == Settled(t)
  <1> HIDE DEF status
  <1>4. Fits(solve, [solve EXCEPT !.tasks = t, !.status = status, !.budget = solve.budget])
    BY <1>1, <1>2, <1>3, TasksFit DEF status
  <1>5. [solve EXCEPT !.tasks = t, !.status = status, !.budget = solve.budget] = [solve EXCEPT !.tasks = t, !.status = status]
    BY DEF Agrees, SolveRow
  <1> QED
    BY <1>4, <1>5 DEF WithTasks, status

LEMMA OrchestrationFits ==
  ASSUME Agrees(solve), NEW ok \in BOOLEAN, ok => solve.delivery = "delivered"
  PROVE  Fits(solve, WithOrchestration(ok))
  <1> DEFINE t == [solve.tasks EXCEPT !.orchestration = Finished(solve.tasks.orchestration, ok)]
  <1>1. /\ t \in TaskRow
        /\ solve.tasks.plan # "none" => t.plan # "none"
        /\ t.orchestration = "succeeded" => solve.delivery = "delivered"
        /\ t.plan = "superseded" => t.orchestration # "none"
        /\ t.intake = "succeeded" => t.plan # "none"
    BY DEF Agrees, SolveRow, TaskRow, Finished
  <1>2. WithOrchestration(ok) = WithTasks(t)
    BY DEF WithOrchestration
  <1> HIDE DEF t
  <1> QED
    BY <1>1, <1>2, WithTasksFits

\* What intake and orchestration make of the tasks.
LEMMA IntakeFits ==
  ASSUME Agrees(solve)
  PROVE  Fits(solve, [solve EXCEPT !.tasks.intake = "running"])
  <1> DEFINE t == [solve.tasks EXCEPT !.intake = "running"]
  <1>1. /\ t \in TaskRow
        /\ solve.tasks.plan # "none" => t.plan # "none"
        /\ t.orchestration = "succeeded" => solve.delivery = "delivered"
        /\ t.plan = "superseded" => t.orchestration # "none"
        /\ t.intake = "succeeded" => t.plan # "none"
    BY DEF Agrees, SolveRow, TaskRow, Terminal, Finished
  <1>2. [solve EXCEPT !.tasks.intake = "running"] = [solve EXCEPT !.tasks = t, !.status = solve.status, !.budget = solve.budget]
    BY DEF Agrees, SolveRow, TaskRow
  <1>3. /\ solve.budget \in BOOLEAN /\ solve.status \in {"running", "awaiting", "succeeded", "failed", "cancelled"}
        /\ solve.status = "succeeded" => solve.delivery = "delivered"
    BY DEF Agrees, SolveRow
  <1> HIDE DEF t
  <1>4. Fits(solve, [solve EXCEPT !.tasks = t, !.status = solve.status, !.budget = solve.budget])
    BY <1>1, <1>3, TasksFit
  <1> QED
    BY <1>2, <1>4

LEMMA AwaitsFits ==
  ASSUME Agrees(solve)
  PROVE  Fits(solve, Awaits)
  <1> DEFINE t == [solve.tasks EXCEPT !.intake = "waiting"]
  <1>1. /\ t \in TaskRow
        /\ solve.tasks.plan # "none" => t.plan # "none"
        /\ t.orchestration = "succeeded" => solve.delivery = "delivered"
        /\ t.plan = "superseded" => t.orchestration # "none"
        /\ t.intake = "succeeded" => t.plan # "none"
    BY DEF Agrees, SolveRow, TaskRow, Terminal, Finished
  <1>2. Awaits = [solve EXCEPT !.tasks = t, !.status = "awaiting", !.budget = solve.budget]
    BY DEF Agrees, SolveRow, TaskRow, Awaits
  <1>3. /\ solve.budget \in BOOLEAN /\ solve.status \in {"running", "awaiting", "succeeded", "failed", "cancelled"}
        /\ solve.status = "succeeded" => solve.delivery = "delivered"
    BY DEF Agrees, SolveRow
  <1> HIDE DEF t
  <1>4. Fits(solve, [solve EXCEPT !.tasks = t, !.status = "awaiting", !.budget = solve.budget])
    BY <1>1, <1>3, TasksFit
  <1> QED
    BY <1>2, <1>4

LEMMA AttachedFits ==
  ASSUME Agrees(solve)
  PROVE  Fits(solve, Attached)
  <1> DEFINE t == [solve.tasks EXCEPT !.plan = "ready"]
  <1>1. /\ t \in TaskRow
        /\ solve.tasks.plan # "none" => t.plan # "none"
        /\ t.orchestration = "succeeded" => solve.delivery = "delivered"
        /\ t.plan = "superseded" => t.orchestration # "none"
        /\ t.intake = "succeeded" => t.plan # "none"
    BY DEF Agrees, SolveRow, TaskRow, Terminal, Finished
  <1>2. Attached = [solve EXCEPT !.tasks = t, !.status = solve.status, !.budget = solve.budget]
    BY DEF Agrees, SolveRow, TaskRow, Attached
  <1>3. /\ solve.budget \in BOOLEAN /\ solve.status \in {"running", "awaiting", "succeeded", "failed", "cancelled"}
        /\ solve.status = "succeeded" => solve.delivery = "delivered"
    BY DEF Agrees, SolveRow
  <1> HIDE DEF t
  <1>4. Fits(solve, [solve EXCEPT !.tasks = t, !.status = solve.status, !.budget = solve.budget])
    BY <1>1, <1>3, TasksFit
  <1> QED
    BY <1>2, <1>4

LEMMA FailedIntakeFits ==
  ASSUME Agrees(solve)
  PROVE  Fits(solve, WithTasks([solve.tasks EXCEPT !.intake = "failed"]))
  <1> DEFINE t == [solve.tasks EXCEPT !.intake = "failed"]
  <1>1. /\ t \in TaskRow
        /\ solve.tasks.plan # "none" => t.plan # "none"
        /\ t.orchestration = "succeeded" => solve.delivery = "delivered"
        /\ t.plan = "superseded" => t.orchestration # "none"
        /\ t.intake = "succeeded" => t.plan # "none"
    BY DEF Agrees, SolveRow, TaskRow, Terminal, Finished
  <1> HIDE DEF t
  <1>2. Fits(solve, WithTasks(t))
    BY <1>1, WithTasksFits
  <1> QED
    BY <1>2 DEF t

LEMMA FinishedIntakeFits ==
  ASSUME Agrees(solve), solve.tasks.plan # "none"
  PROVE  Fits(solve, WithTasks([solve.tasks EXCEPT !.intake = Finished(@, TRUE)]))
  <1> DEFINE t == [solve.tasks EXCEPT !.intake = Finished(@, TRUE)]
  <1> DEFINE state == Finished(solve.tasks.intake, TRUE)
  <1>0. solve.tasks \in TaskRow /\ state \in {"ready", "uncertain", "waiting", "succeeded", "failed", "cancelled", "blocked"}
    BY DEF Agrees, SolveRow, TaskRow, Finished
  <1>new. t = [solve.tasks EXCEPT !.intake = state]
    OBVIOUS
  <1> HIDE DEF state
  <1>1. /\ t \in TaskRow
        /\ solve.tasks.plan # "none" => t.plan # "none"
        /\ t.orchestration = "succeeded" => solve.delivery = "delivered"
        /\ t.plan = "superseded" => t.orchestration # "none"
        /\ t.intake = "succeeded" => t.plan # "none"
    BY <1>0, <1>new DEF Agrees, TaskRow
  <1> HIDE DEF t
  <1>2. Fits(solve, WithTasks(t))
    BY <1>1, WithTasksFits
  <1> QED
    BY <1>2 DEF t

LEMMA OrchestratedFits ==
  ASSUME Agrees(solve)
  PROVE  Fits(solve, [solve EXCEPT !.tasks.orchestration = "running", !.tasks.plan = "superseded"])
  <1> DEFINE t == [solve.tasks EXCEPT !.orchestration = "running", !.plan = "superseded"]
  <1>1. /\ t \in TaskRow
        /\ solve.tasks.plan # "none" => t.plan # "none"
        /\ t.orchestration = "succeeded" => solve.delivery = "delivered"
        /\ t.plan = "superseded" => t.orchestration # "none"
        /\ t.intake = "succeeded" => t.plan # "none"
    BY DEF Agrees, SolveRow, TaskRow, Terminal, Finished
  <1>2. [solve EXCEPT !.tasks.orchestration = "running", !.tasks.plan = "superseded"] = [solve EXCEPT !.tasks = t, !.status = solve.status, !.budget = solve.budget]
    BY DEF Agrees, SolveRow, TaskRow
  <1>3. /\ solve.budget \in BOOLEAN /\ solve.status \in {"running", "awaiting", "succeeded", "failed", "cancelled"}
        /\ solve.status = "succeeded" => solve.delivery = "delivered"
    BY DEF Agrees, SolveRow
  <1> HIDE DEF t
  <1>4. Fits(solve, [solve EXCEPT !.tasks = t, !.status = solve.status, !.budget = solve.budget])
    BY <1>1, <1>3, TasksFit
  <1> QED
    BY <1>2, <1>4

\* The child ends once, and a delivered one has succeeded before.
LEMMA ChildEndsFits ==
  ASSUME NEW l, Fits(solve, l), NEW status \in {"succeeded", "failed", "cancelled"}
  PROVE  Fits(solve, ChildEnds(l, status))
  <1>1. CASE Terminal(l.child)
    BY <1>1 DEF ChildEnds
  <1>2. CASE ~ Terminal(l.child)
    <2>1. ChildEnds(l, status) = [l EXCEPT !.child = status]
      BY <1>2 DEF ChildEnds
    <2>2. l.delivery # "delivered"
      BY <1>2 DEF Fits, Agrees, Terminal
    <2> DEFINE m == [l EXCEPT !.child = status]
    <2>3. m \in SolveRow
      BY DEF Fits, Agrees, SolveRow
    <2>4. /\ m.tasks = l.tasks /\ m.status = l.status /\ m.profile = l.profile /\ m.rows = l.rows
          /\ m.prepared = l.prepared /\ m.link = l.link /\ m.inputs = l.inputs /\ m.delivery = l.delivery
      BY DEF Fits, Agrees, SolveRow
    <2> HIDE DEF m
    <2>5. Fits(solve, m)
      BY <2>2, <2>3, <2>4 DEF Fits, Agrees, Grows
    <2> QED
      BY <2>1, <2>5 DEF m
  <1> QED
    BY <1>1, <1>2

\* The records of a preparation and of its child.
LEMMA LogFits ==
  ASSUME Agrees(solve), NEW kind \in {"started", "recoverable", "final"}
  PROVE  Fits(solve, [solve EXCEPT !.log = Append(@, kind)])
  <1> DEFINE m == [solve EXCEPT !.log = Append(@, kind)]
  <1>0. Append(solve.log, kind) \in Seq({"started", "recoverable", "final"})
    <2>1. solve.log \in Seq({"started", "recoverable", "final"})
      BY DEF Agrees, SolveRow
    <2> QED
      BY <2>1
  <1>1. m \in SolveRow
    BY <1>0 DEF Agrees, SolveRow
  <1>2. /\ m.tasks = solve.tasks /\ m.status = solve.status /\ m.child = solve.child /\ m.delivery = solve.delivery
        /\ m.profile = solve.profile /\ m.rows = solve.rows /\ m.prepared = solve.prepared /\ m.link = solve.link /\ m.inputs = solve.inputs
    BY DEF Agrees, SolveRow
  <1> HIDE DEF m
  <1>3. Fits(solve, m)
    BY <1>1, <1>2 DEF Fits, Grows, Agrees
  <1> QED
    BY <1>3 DEF m

LEMMA ProfileFits ==
  ASSUME Agrees(solve)
  PROVE  Fits(solve, [solve EXCEPT !.profile = TRUE])
  <1> DEFINE m == [solve EXCEPT !.profile = TRUE]
  <1>1. m \in SolveRow
    BY DEF Agrees, SolveRow
  <1>2. /\ m.tasks = solve.tasks /\ m.status = solve.status /\ m.child = solve.child /\ m.delivery = solve.delivery
        /\ m.rows = solve.rows /\ m.prepared = solve.prepared /\ m.link = solve.link /\ m.inputs = solve.inputs
        /\ m.profile = TRUE
    BY DEF Agrees, SolveRow
  <1> HIDE DEF m
  <1>3. Fits(solve, m)
    BY <1>1, <1>2 DEF Fits, Grows, Agrees
  <1> QED
    BY <1>3 DEF m

LEMMA RowsFits ==
  ASSUME Agrees(solve)
  PROVE  Fits(solve, [solve EXCEPT !.rows = TRUE])
  <1> DEFINE m == [solve EXCEPT !.rows = TRUE]
  <1>1. m \in SolveRow
    BY DEF Agrees, SolveRow
  <1>2. /\ m.tasks = solve.tasks /\ m.status = solve.status /\ m.child = solve.child /\ m.delivery = solve.delivery
        /\ m.profile = solve.profile /\ m.prepared = solve.prepared /\ m.link = solve.link /\ m.inputs = solve.inputs
        /\ m.rows = TRUE
    BY DEF Agrees, SolveRow
  <1> HIDE DEF m
  <1>3. Fits(solve, m)
    BY <1>1, <1>2 DEF Fits, Grows, Agrees
  <1> QED
    BY <1>3 DEF m

LEMMA PreparedFits ==
  ASSUME Agrees(solve), solve.profile, solve.rows
  PROVE  Fits(solve, [solve EXCEPT !.prepared = TRUE])
  <1> DEFINE m == [solve EXCEPT !.prepared = TRUE]
  <1>1. m \in SolveRow
    BY DEF Agrees, SolveRow
  <1>2. /\ m.tasks = solve.tasks /\ m.status = solve.status /\ m.child = solve.child /\ m.delivery = solve.delivery
        /\ m.profile = solve.profile /\ m.rows = solve.rows /\ m.link = solve.link /\ m.inputs = solve.inputs
        /\ m.prepared = TRUE
    BY DEF Agrees, SolveRow
  <1> HIDE DEF m
  <1>3. Fits(solve, m)
    BY <1>1, <1>2 DEF Fits, Grows, Agrees
  <1> QED
    BY <1>3 DEF m

LEMMA InputsFits ==
  ASSUME Agrees(solve)
  PROVE  Fits(solve, [solve EXCEPT !.inputs = TRUE])
  <1> DEFINE m == [solve EXCEPT !.inputs = TRUE]
  <1>1. m \in SolveRow
    BY DEF Agrees, SolveRow
  <1>2. /\ m.tasks = solve.tasks /\ m.status = solve.status /\ m.child = solve.child /\ m.delivery = solve.delivery
        /\ m.profile = solve.profile /\ m.rows = solve.rows /\ m.prepared = solve.prepared /\ m.link = solve.link
        /\ m.inputs = TRUE
    BY DEF Agrees, SolveRow
  <1> HIDE DEF m
  <1>3. Fits(solve, m)
    BY <1>1, <1>2 DEF Fits, Grows, Agrees
  <1> QED
    BY <1>3 DEF m

LEMMA LinkFits ==
  ASSUME Agrees(solve), NEW link \in {"row", "made", "up", "linked"}, solve.prepared, link = "linked" => solve.inputs
  PROVE  Fits(solve, [solve EXCEPT !.link = link])
  <1> DEFINE m == [solve EXCEPT !.link = link]
  <1>1. m \in SolveRow
    BY DEF Agrees, SolveRow
  <1>2. /\ m.tasks = solve.tasks /\ m.status = solve.status /\ m.child = solve.child /\ m.delivery = solve.delivery
        /\ m.profile = solve.profile /\ m.rows = solve.rows /\ m.prepared = solve.prepared /\ m.inputs = solve.inputs
        /\ m.link = link
    BY DEF Agrees, SolveRow
  <1> HIDE DEF m
  <1>3. Fits(solve, m)
    BY <1>1, <1>2 DEF Fits, Grows, Agrees
  <1> QED
    BY <1>3 DEF m

-----------------------------------------------------------------------------
(* A coordinator's step.                                                    *)

\* SolvePlaces where nothing has been found or done that the ledger must still say.
Plain == Coordinating \ {"profiled", "registered", "child", "rowed", "made", "inputs", "up", "attached", "copied", "published"}

\* One coordinator takes a step of its own, on a ledger that still agrees.
Advances(p) ==
    /\ OnlyMoves(p) /\ UNCHANGED <<gate, stop>>
    /\ pc[p] \in Coordinating \cup {"owned"} /\ pc'[p] \in Coordinating \cup {"leaving", "over"}
    /\ Agrees(solve') /\ Grows(solve, solve') /\ Follows(solve', pc'[p])
    /\ solve'.delivery = solve.delivery \/ pc[p] \in Coordinating

LEMMA OthersFollow ==
  ASSUME SolveInv, NEW p \in Processes, OnlyMoves(p), Grows(solve, solve'),
         \/ solve'.delivery = solve.delivery
         \/ pc[p] \in Coordinating
  PROVE  \A q \in Processes : q # p => Follows(solve', pc'[q])
  <1> SUFFICES ASSUME NEW q \in Processes, q # p
               PROVE  Follows(solve', pc'[q])
    OBVIOUS
  <1>1. pc'[q] = pc[q] /\ Follows(solve, pc[q])
    BY DEF OnlyMoves, SolveInv, StepsFollow
  <1>2. CASE solve'.delivery = solve.delivery
    BY <1>1, <1>2 DEF Follows, Grows
  <1>3. CASE pc[p] \in Coordinating
    <2>1. Coordinates(p)
      BY <1>3 DEF Coordinates, Alive, Coordinating
    <2>2. ~ Coordinates(q)
      BY <2>1, OneAtATime DEF SolveInv, OneCoordinator
    <2>3. pc[q] \notin {"copied", "published"}
      BY <2>2 DEF Coordinates, Alive
    <2> QED
      BY <1>1, <2>3 DEF Follows, Grows
  <1> QED
    BY <1>2, <1>3

LEMMA AdvancesKeeps ==
  ASSUME SolveInv, NEW p \in Processes, Advances(p)
  PROVE  SolveInv'
  <1>1. Ownership'
    BY CoordinatorOwns DEF SolveInv, Advances
  <1>2. \A q \in Processes : q # p => Follows(solve', pc'[q])
    BY OthersFollow DEF Advances
  <1>3. StepsFollow'
    BY <1>2 DEF StepsFollow, Advances
  <1> QED
    BY <1>1, <1>3 DEF SolveInv, LedgerAgrees, Advances

\* The step found what its place says, and wrote what fits.
LEMMA FitsAdvances ==
  ASSUME SolveInv, NEW p \in Processes, OnlyMoves(p), UNCHANGED <<gate, stop>>, Fits(solve, solve'),
         pc[p] \in Coordinating \cup {"owned"}, pc'[p] \in Coordinating \cup {"leaving", "over"},
         Follows(solve, pc'[p])
  PROVE  Advances(p)
  BY DEF Advances, Fits, Follows, Grows

LEMMA PlainAdvances ==
  ASSUME SolveInv, NEW p \in Processes, OnlyMoves(p), UNCHANGED <<gate, stop>>, Fits(solve, solve'),
         pc[p] \in Coordinating \cup {"owned"}, pc'[p] \in Plain \cup {"leaving", "over"}
  PROVE  Advances(p)
  <1>1. Follows(solve, pc'[p])
    BY DEF Follows, Plain
  <1>2. pc'[p] \in Coordinating \cup {"leaving", "over"}
    BY DEF Plain
  <1> QED
    BY <1>1, <1>2, FitsAdvances

LEMMA SolveTypes ==
  ASSUME SolveInv
  PROVE  pc \in [Processes -> SolvePlaces] /\ Agrees(solve) /\ Fits(solve, solve) /\ solve \in SolveRow /\ Targets(stop)
  BY FitsItself DEF SolveInv, Ownership, PlacesOK, LedgerAgrees, Agrees

LEMMA RecoverAdvances ==
  ASSUME SolveInv, NEW p \in Processes, Recover(p)
  PROVE  Advances(p)
  <1>1. OnlyMoves(p) /\ pc[p] = "cleaned" /\ pc'[p] \in {"ending", "admitted"} /\ UNCHANGED <<gate, stop>>
    BY SolveTypes DEF Recover, AtStep, GoTo, OnlyMoves, Stay, SolvePlaces, Coordinating
  <1>2. Fits(solve, solve')
    BY SolveTypes, RecoveredFits DEF Recover, Stay
  <1> QED
    BY <1>1, <1>2, PlainAdvances DEF Plain, Coordinating

LEMMA CoordinateAdvances ==
  ASSUME SolveInv, NEW p \in Processes, Coordinate(p)
  PROVE  Advances(p)
  <1>1. OnlyMoves(p) /\ pc[p] = "admitted" /\ pc'[p] \in {"intake"} /\ UNCHANGED <<gate, stop>>
    BY SolveTypes DEF Coordinate, AtStep, GoTo, OnlyMoves, Stay, SolvePlaces, Coordinating
  <1>2. Fits(solve, solve')
    BY SolveTypes DEF Coordinate
  <1> QED
    BY <1>1, <1>2, PlainAdvances DEF Plain, Coordinating

LEMMA EndingAdvances ==
  ASSUME SolveInv, NEW p \in Processes, Ending(p)
  PROVE  Advances(p)
  <1>1. OnlyMoves(p) /\ pc[p] = "ending" /\ pc'[p] \in {"leaving", "over"} /\ UNCHANGED <<gate, stop>>
    BY SolveTypes DEF Ending, AtStep, GoTo, OnlyMoves, Stay, SolvePlaces, Coordinating
  <1>2. Fits(solve, solve')
    BY SolveTypes DEF Ending
  <1> QED
    BY <1>1, <1>2, PlainAdvances DEF Plain, Coordinating

LEMMA EvolveAdvances ==
  ASSUME SolveInv, NEW p \in Processes, Evolve(p)
  PROVE  Advances(p)
  <1>1. OnlyMoves(p) /\ pc[p] = "evolve" /\ pc'[p] \in {"evolving", "evolved", "raised"} /\ UNCHANGED <<gate, stop>>
    BY SolveTypes DEF Evolve, AtStep, GoTo, OnlyMoves, Stay, SolvePlaces, Coordinating
  <1>2. Fits(solve, solve')
    BY SolveTypes DEF Evolve
  <1> QED
    BY <1>1, <1>2, PlainAdvances DEF Plain, Coordinating

LEMMA GuardAdvances ==
  ASSUME SolveInv, NEW p \in Processes, Guard(p)
  PROVE  Advances(p)
  <1>1. OnlyMoves(p) /\ pc[p] = "evolving" /\ pc'[p] \in {"spawn", "cancel"} /\ UNCHANGED <<gate, stop>>
    BY SolveTypes DEF Guard, AtStep, GoTo, OnlyMoves, Stay, SolvePlaces, Coordinating
  <1>2. Fits(solve, solve')
    BY SolveTypes DEF Guard
  <1> QED
    BY <1>1, <1>2, PlainAdvances DEF Plain, Coordinating

LEMMA SpawnAdvances ==
  ASSUME SolveInv, NEW p \in Processes, Spawn(p)
  PROVE  Advances(p)
  <1>1. OnlyMoves(p) /\ pc[p] = "spawn" /\ pc'[p] \in {"register"} /\ UNCHANGED <<gate, stop>>
    BY SolveTypes DEF Spawn, AtStep, GoTo, OnlyMoves, Stay, SolvePlaces, Coordinating
  <1>2. Fits(solve, solve')
    BY SolveTypes DEF Spawn
  <1> QED
    BY <1>1, <1>2, PlainAdvances DEF Plain, Coordinating

LEMMA RegisterAdvances ==
  ASSUME SolveInv, NEW p \in Processes, Register(p)
  PROVE  Advances(p)
  <1>1. OnlyMoves(p) /\ pc[p] = "register" /\ pc'[p] \in {"check"} /\ UNCHANGED <<gate, stop>>
    BY SolveTypes DEF Register, AtStep, GoTo, OnlyMoves, Stay, SolvePlaces, Coordinating
  <1>2. Fits(solve, solve')
    BY SolveTypes DEF Register
  <1> QED
    BY <1>1, <1>2, PlainAdvances DEF Plain, Coordinating

LEMMA CheckStopAdvances ==
  ASSUME SolveInv, NEW p \in Processes, CheckStop(p)
  PROVE  Advances(p)
  <1>1. OnlyMoves(p) /\ pc[p] = "check" /\ pc'[p] \in {"working"} /\ UNCHANGED <<gate, stop>>
    BY SolveTypes DEF CheckStop, AtStep, GoTo, OnlyMoves, Stay, SolvePlaces, Coordinating
  <1>2. Fits(solve, solve')
    BY SolveTypes DEF CheckStop
  <1> QED
    BY <1>1, <1>2, PlainAdvances DEF Plain, Coordinating

LEMMA RaisedAdvances ==
  ASSUME SolveInv, NEW p \in Processes, Raised(p)
  PROVE  Advances(p)
  <1>1. OnlyMoves(p) /\ pc[p] = "raised" /\ pc'[p] \in {"ending"} /\ UNCHANGED <<gate, stop>>
    BY SolveTypes DEF Raised, AtStep, GoTo, OnlyMoves, Stay, SolvePlaces, Coordinating
  <1>2. Fits(solve, solve')
    BY SolveTypes, OrchestrationFits DEF Raised
  <1> QED
    BY <1>1, <1>2, PlainAdvances DEF Plain, Coordinating

LEMMA CleanupAdvances ==
  ASSUME SolveInv, NEW p \in Processes, Cleanup(p)
  PROVE  Advances(p)
  <1>1. OnlyMoves(p) /\ pc[p] = "cleanup" /\ pc'[p] \in {"ending"} /\ UNCHANGED <<gate, stop>>
    BY SolveTypes DEF Cleanup, AtStep, GoTo, OnlyMoves, Stay, SolvePlaces, Coordinating
  <1>2. Fits(solve, solve')
    BY SolveTypes DEF Cleanup
  <1> QED
    BY <1>1, <1>2, PlainAdvances DEF Plain, Coordinating

LEMMA CancelOwnAdvances ==
  ASSUME SolveInv, NEW p \in Processes, CancelOwn(p)
  PROVE  Advances(p)
  <1>1. OnlyMoves(p) /\ pc[p] = "cancel" /\ pc'[p] \in {"cleanup"} /\ UNCHANGED <<gate, stop>>
    BY SolveTypes DEF CancelOwn, AtStep, GoTo, OnlyMoves, Stay, SolvePlaces, Coordinating
  <1>2. Fits(solve, solve')
    BY SolveTypes, CancelledFits, ChildEndsFits DEF CancelOwn
  <1> QED
    BY <1>1, <1>2, PlainAdvances DEF Plain, Coordinating

LEMMA FinishChildAdvances ==
  ASSUME SolveInv, NEW p \in Processes, FinishChild(p)
  PROVE  Advances(p)
  <1>1. OnlyMoves(p) /\ pc[p] = "evolving" /\ pc'[p] \in {"cancel", "evolved", "raised"} /\ UNCHANGED <<gate, stop>>
    BY SolveTypes DEF FinishChild, AtStep, GoTo, OnlyMoves, Stay, SolvePlaces, Coordinating
  <1>2. Fits(solve, solve')
    BY SolveTypes, ChildEndsFits DEF FinishChild
  <1> QED
    BY <1>1, <1>2, PlainAdvances DEF Plain, Coordinating

LEMMA ReleaseAdvances ==
  ASSUME SolveInv, NEW p \in Processes, Release(p)
  PROVE  Advances(p)
  <1>1. OnlyMoves(p) /\ pc[p] = "working" /\ pc'[p] \in {"evolving", "cancel"} /\ UNCHANGED <<gate, stop>>
    BY SolveTypes DEF Release, AtStep, GoTo, OnlyMoves, Stay, SolvePlaces, Coordinating
  <1>2. Fits(solve, solve')
    BY SolveTypes, OutOfTimeFits, ChildEndsFits DEF Release
  <1> QED
    BY <1>1, <1>2, PlainAdvances DEF Plain, Coordinating

LEMMA FinishParentAdvances ==
  ASSUME SolveInv, NEW p \in Processes, FinishParent(p)
  PROVE  Advances(p)
  <1>1. OnlyMoves(p) /\ pc[p] = "delivered" /\ pc'[p] \in {"cancel", "ending"} /\ UNCHANGED <<gate, stop>>
    BY SolveTypes DEF FinishParent, AtStep, GoTo, OnlyMoves, Stay, SolvePlaces, Coordinating
  <1>2. Fits(solve, solve')
    BY SolveTypes, OrchestrationFits DEF FinishParent
  <1> QED
    BY <1>1, <1>2, PlainAdvances DEF Plain, Coordinating

LEMMA TimeoutAdvances ==
  ASSUME SolveInv, NEW p \in Processes, Timeout(p)
  PROVE  Advances(p)
  <1>1. OnlyMoves(p) /\ pc[p] \in {"intake", "compiling", "attached", "prepare", "preparing", "profiled", "registered", "child", "evolve", "evolving", "working", "evolved", "copied", "published", "delivered", "timeout"} /\ pc'[p] \in {"timeout", "cleanup"} /\ UNCHANGED <<gate, stop>>
    BY SolveTypes DEF Timeout, AtStep, GoTo, OnlyMoves, Stay, SolvePlaces, Coordinating
  <1>2. Fits(solve, solve')
    BY SolveTypes, OutOfTimeFits, ChildEndsFits DEF Timeout
  <1> QED
    BY <1>1, <1>2, PlainAdvances DEF Plain, Coordinating

LEMMA AdmitAdvances ==
  ASSUME SolveInv, NEW p \in Processes, Admit(p)
  PROVE  Advances(p)
  <1>1. OnlyMoves(p) /\ pc[p] = "owned" /\ pc'[p] \in {"cleaned", "ending"} /\ UNCHANGED <<gate, stop>>
    BY SolveTypes DEF Admit, AtStep, GoTo, OnlyMoves, SolvePlaces, Coordinating
  <1>2. \E c \in Invocations \cup {Nobody} : solve' = [solve EXCEPT !.runner = c] \/ solve' = solve
    <2>1. solve.runner \in Invocations \cup {Nobody} /\ Nobody \in Invocations \cup {Nobody}
      BY SolveTypes DEF SolveRow
    <2> QED
      BY <2>1 DEF Admit
  <1>3. Fits(solve, solve')
    BY <1>2, SolveTypes, RunnerFits
  <1> QED
    BY <1>1, <1>3, PlainAdvances DEF Plain, Coordinating

LEMMA IntakeAdvances ==
  ASSUME SolveInv, NEW p \in Processes, Intake(p)
  PROVE  Advances(p)
  <1>1. OnlyMoves(p) /\ pc[p] = "intake" /\ pc'[p] \in {"orchestrate", "compiling", "ending"} /\ UNCHANGED <<gate, stop>>
    BY SolveTypes DEF Intake, AtStep, GoTo, OnlyMoves, Stay, SolvePlaces, Coordinating
  <1>2. Fits(solve, solve')
    BY SolveTypes, IntakeFits DEF Intake
  <1> QED
    BY <1>1, <1>2, PlainAdvances DEF Plain, Coordinating

\* An answer that is a contract leaves a plan, a question leaves the solve waiting, and the rest fails it.
LEMMA CompileAdvances ==
  ASSUME SolveInv, NEW p \in Processes, Compile(p)
  PROVE  Advances(p)
  <1>1. OnlyMoves(p) /\ pc[p] = "compiling" /\ pc'[p] \in {"ending", "attached"} /\ UNCHANGED <<gate, stop>>
    BY SolveTypes DEF Compile, AtStep, GoTo, OnlyMoves, Stay, SolvePlaces, Coordinating
  <1>2. CASE solve' = Attached
    <2>1. Fits(solve, solve') /\ solve'.tasks.plan # "none"
      BY <1>2, SolveTypes, AttachedFits DEF Attached, SolveRow, TaskRow
    <2>2. Follows(solve', pc'[p])
      BY <1>1, <2>1 DEF Follows
    <2>3. pc[p] \in Coordinating \cup {"owned"} /\ pc'[p] \in Coordinating \cup {"leaving", "over"}
      BY <1>1 DEF Coordinating
    <2> QED
      BY <1>1, <2>1, <2>2, <2>3 DEF Advances, Fits
  <1>3. CASE solve' # Attached
    <2>1. pc'[p] = "ending" /\ solve' \in {solve, Awaits, WithTasks([solve.tasks EXCEPT !.intake = "failed"])}
      BY <1>3, SolveTypes DEF Compile, GoTo, Compiled
    <2>2. Fits(solve, solve')
      BY <2>1, SolveTypes, AwaitsFits, FailedIntakeFits
    <2> QED
      BY <1>1, <2>1, <2>2, PlainAdvances DEF Plain, Coordinating
  <1> QED
    BY <1>2, <1>3

LEMMA FinishIntakeAdvances ==
  ASSUME SolveInv, NEW p \in Processes, FinishIntake(p)
  PROVE  Advances(p)
  <1>1. OnlyMoves(p) /\ pc[p] = "attached" /\ pc'[p] = "orchestrate" /\ UNCHANGED <<gate, stop>>
    BY SolveTypes DEF FinishIntake, AtStep, GoTo, OnlyMoves, Stay, SolvePlaces, Coordinating
  <1>2. solve.tasks.plan # "none"
    BY <1>1 DEF SolveInv, StepsFollow, Follows
  <1>3. Fits(solve, solve')
    BY <1>2, SolveTypes, FinishedIntakeFits DEF FinishIntake
  <1> QED
    BY <1>1, <1>3, PlainAdvances DEF Plain, Coordinating

LEMMA OrchestrateAdvances ==
  ASSUME SolveInv, NEW p \in Processes, Orchestrate(p)
  PROVE  Advances(p)
  <1>1. OnlyMoves(p) /\ pc[p] = "orchestrate" /\ pc'[p] \in {"prepare", "ending"} /\ UNCHANGED <<gate, stop>>
    BY SolveTypes DEF Orchestrate, AtStep, GoTo, OnlyMoves, Stay, SolvePlaces, Coordinating
  <1>2. Fits(solve, solve')
    BY SolveTypes, OrchestratedFits DEF Orchestrate
  <1> QED
    BY <1>1, <1>2, PlainAdvances DEF Plain, Coordinating

LEMMA StartPreparationAdvances ==
  ASSUME SolveInv, NEW p \in Processes, StartPreparation(p)
  PROVE  Advances(p)
  <1>1. OnlyMoves(p) /\ pc[p] = "prepare" /\ pc'[p] \in {"child", "raised", "preparing"} /\ UNCHANGED <<gate, stop>>
    BY SolveTypes DEF StartPreparation, AtStep, GoTo, OnlyMoves, Stay, SolvePlaces, Coordinating
  <1>2. pc'[p] = "child" => solve.prepared
    BY <1>1, SolveTypes DEF StartPreparation, GoTo
  <1>3. Fits(solve, solve')
    BY SolveTypes, LogFits DEF StartPreparation
  <1>4. Follows(solve, pc'[p])
    BY <1>1, <1>2 DEF Follows
  <1> QED
    BY <1>1, <1>3, <1>4, FitsAdvances DEF Coordinating

LEMMA PreparationFailsAdvances ==
  ASSUME SolveInv, NEW p \in Processes, PreparationFails(p)
  PROVE  Advances(p)
  <1>1. OnlyMoves(p) /\ pc[p] \in {"preparing", "profiled", "registered"} /\ pc'[p] = "ending" /\ UNCHANGED <<gate, stop>>
    BY SolveTypes DEF PreparationFails, AtStep, GoTo, OnlyMoves, Stay, SolvePlaces, Coordinating
  <1>2. Fits(solve, solve')
    BY SolveTypes, LogFits DEF PreparationFails
  <1> QED
    BY <1>1, <1>2, PlainAdvances DEF Plain, Coordinating

\* The event is last: it is written where profile and rows are known to be there.
LEMMA PrepareBundleAdvances ==
  ASSUME SolveInv, NEW p \in Processes, PrepareBundle(p)
  PROVE  Advances(p)
  <1>1. OnlyMoves(p) /\ UNCHANGED <<gate, stop>>
    BY SolveTypes DEF PrepareBundle, GoTo, OnlyMoves, Stay, SolvePlaces, Coordinating
  <1>2. Follows(solve, pc[p])
    BY DEF SolveInv, StepsFollow
  <1>3. CASE pc[p] = "preparing"
    <2>1. pc'[p] = "profiled" /\ solve' = [solve EXCEPT !.profile = TRUE]
      BY <1>3, SolveTypes DEF PrepareBundle, AtStep, GoTo
    <2>2. Fits(solve, solve') /\ solve'.profile
      BY <2>1, SolveTypes, ProfileFits DEF SolveRow
    <2>3. Follows(solve', pc'[p])
      BY <2>1, <2>2 DEF Follows
    <2> QED
      BY <1>1, <1>3, <2>1, <2>2, <2>3 DEF Advances, Fits, Coordinating
  <1>4. CASE pc[p] = "profiled"
    <2>1. pc'[p] = "registered" /\ solve' = [solve EXCEPT !.rows = TRUE]
      BY <1>4, SolveTypes DEF PrepareBundle, AtStep, GoTo
    <2>2. Fits(solve, solve') /\ solve'.rows /\ solve'.profile
      BY <1>2, <1>4, <2>1, SolveTypes, RowsFits DEF SolveRow, Follows
    <2>3. Follows(solve', pc'[p])
      BY <2>1, <2>2 DEF Follows
    <2> QED
      BY <1>1, <1>4, <2>1, <2>2, <2>3 DEF Advances, Fits, Coordinating
  <1>5. CASE pc[p] = "registered"
    <2>1. pc'[p] = "child" /\ solve' = [solve EXCEPT !.prepared = TRUE]
      BY <1>5, SolveTypes DEF PrepareBundle, AtStep, GoTo
    <2>2. solve.profile /\ solve.rows
      BY <1>2, <1>5 DEF Follows
    <2>3. Fits(solve, solve') /\ solve'.prepared
      BY <2>1, <2>2, SolveTypes, PreparedFits DEF SolveRow
    <2>4. Follows(solve', pc'[p])
      BY <2>1, <2>3 DEF Follows
    <2> QED
      BY <1>1, <1>5, <2>1, <2>3, <2>4 DEF Advances, Fits, Coordinating
  <1> QED
    BY <1>3, <1>4, <1>5 DEF PrepareBundle, AtStep

LEMMA MakeChildAdvances ==
  ASSUME SolveInv, NEW p \in Processes, MakeChild(p)
  PROVE  Advances(p)
  <1>1. /\ OnlyMoves(p) /\ pc[p] \in {"child", "rowed"} /\ pc'[p] \in {"rowed", "raised", "made"}
        /\ UNCHANGED <<gate, stop>>
    BY SolveTypes DEF MakeChild, AtStep, GoTo, OnlyMoves, Stay, SolvePlaces, Coordinating
  <1>2. solve.prepared
    BY <1>1 DEF SolveInv, StepsFollow, Follows
  <1>3. Fits(solve, solve')
    BY <1>2, SolveTypes, LinkFits DEF MakeChild
  <1>4. Follows(solve, pc'[p])
    BY <1>1, <1>2 DEF Follows
  <1> QED
    BY <1>1, <1>3, <1>4, FitsAdvances DEF Coordinating

LEMMA CopyInputsAdvances ==
  ASSUME SolveInv, NEW p \in Processes, CopyInputs(p)
  PROVE  Advances(p)
  <1>1. /\ OnlyMoves(p) /\ pc[p] \in {"child", "made"} /\ pc'[p] \in {"evolve", "inputs", "raised"}
        /\ UNCHANGED <<gate, stop>>
    BY SolveTypes DEF CopyInputs, AtStep, GoTo, OnlyMoves, Stay, SolvePlaces, Coordinating
  <1>2. solve.prepared
    BY <1>1 DEF SolveInv, StepsFollow, Follows
  <1>3. CASE pc'[p] = "raised"
    <2>1. solve' = solve
      BY <1>3, SolveTypes DEF CopyInputs, GoTo
    <2> QED
      BY <1>1, <1>3, <2>1, SolveTypes, PlainAdvances DEF Plain, Coordinating
  <1>4. CASE pc'[p] # "raised"
    <2>1. solve' = [solve EXCEPT !.inputs = TRUE]
      BY <1>4, SolveTypes DEF CopyInputs, GoTo
    <2>2. Fits(solve, solve') /\ solve'.inputs /\ solve'.prepared
      BY <1>2, <2>1, SolveTypes, InputsFits DEF SolveRow
    <2>3. Follows(solve', pc'[p])
      BY <1>1, <2>2 DEF Follows
    <2> QED
      BY <1>1, <2>2, <2>3 DEF Advances, Fits, Coordinating
  <1> QED
    BY <1>3, <1>4

LEMMA LinkAdvances ==
  ASSUME SolveInv, NEW p \in Processes, Link(p)
  PROVE  Advances(p)
  <1>1. /\ OnlyMoves(p) /\ pc[p] \in {"inputs", "up"} /\ pc'[p] \in {"up", "evolve"} /\ UNCHANGED <<gate, stop>>
    BY SolveTypes DEF Link, AtStep, GoTo, OnlyMoves, Stay, SolvePlaces, Coordinating
  <1>2. solve.prepared /\ solve.inputs
    BY <1>1 DEF SolveInv, StepsFollow, Follows
  <1>3. Fits(solve, solve')
    BY <1>2, SolveTypes, LinkFits DEF Link
  <1>4. Follows(solve, pc'[p])
    BY <1>1, <1>2 DEF Follows
  <1> QED
    BY <1>1, <1>3, <1>4, FitsAdvances DEF Coordinating

\* A delivery is decided while parent and orchestration run and the child has succeeded.
LEMMA DeliveryWrites ==
  ASSUME Agrees(solve), DeliveryReady,
         NEW d \in {"none", "copied", "published", "rolled back", "delivered", "undelivered"}
  PROVE  LET m == [solve EXCEPT !.delivery = d] IN Agrees(m) /\ Grows(solve, m) /\ m.delivery = d
  <1> DEFINE m == [solve EXCEPT !.delivery = d]
  <1>1. m \in SolveRow
    BY DEF Agrees, SolveRow
  <1>2. /\ m.tasks = solve.tasks /\ m.status = solve.status /\ m.child = solve.child /\ m.profile = solve.profile
        /\ m.rows = solve.rows /\ m.prepared = solve.prepared /\ m.link = solve.link /\ m.inputs = solve.inputs
        /\ m.delivery = d
    BY DEF Agrees, SolveRow
  <1> HIDE DEF m
  <1>3. Agrees(m) /\ Grows(solve, m)
    BY <1>1, <1>2 DEF Grows, Agrees, DeliveryReady
  <1> QED
    BY <1>2, <1>3 DEF m

\* What a delivering step writes, and where it goes with it.
Delivers(p) ==
    \E d \in {"none", "copied", "published", "rolled back", "delivered", "undelivered"} :
       /\ DeliveryReady /\ solve' = [solve EXCEPT !.delivery = d]
       /\ \/ pc'[p] = "delivered"
          \/ pc'[p] \in {"copied", "published"} /\ d \notin Decided

LEMMA DeliverToParentAdvances ==
  ASSUME SolveInv, NEW p \in Processes, DeliverToParent(p)
  PROVE  Advances(p)
  <1>1. /\ OnlyMoves(p) /\ pc[p] \in {"evolved", "copied", "published"}
        /\ pc'[p] \in {"cancel", "ending", "delivered", "copied", "published", "raised"}
        /\ UNCHANGED <<gate, stop>>
    BY SolveTypes DEF DeliverToParent, AtStep, GoTo, OnlyMoves, Stay, SolvePlaces, Coordinating
  <1>2. solve.delivery \in {"none", "copied", "published", "rolled back", "delivered", "undelivered"}
    BY SolveTypes DEF SolveRow
  <1>3. pc[p] \in {"copied", "published"} => solve.delivery \notin Decided
    BY DEF SolveInv, StepsFollow, Follows
  <1>4. \/ pc'[p] \in {"cancel", "ending", "raised"} /\ solve' \in {solve, Cancelled, WithOrchestration(FALSE)}
        \/ Delivers(p)
    <2>1. CASE solve.status \in {"failed", "cancelled"} \/ solve.child = "cancelled" \/ solve.child = "failed"
      BY <2>1, SolveTypes DEF DeliverToParent, GoTo
    <2>2. CASE ~ (solve.status \in {"failed", "cancelled"} \/ solve.child = "cancelled" \/ solve.child = "failed")
      <3>1. CASE AtStep(p, "evolved") /\ DeliveryReady /\ GoTo(p, IF DeliveryDecided THEN "delivered" ELSE "copied")
                 /\ solve' = [solve EXCEPT !.delivery = IF @ = "none" THEN "copied" ELSE @]
        BY <3>1, <1>2, SolveTypes DEF Delivers, GoTo, DeliveryDecided, Decided
      <3>2. CASE AtStep(p, "copied") /\ DeliveryReady /\ GoTo(p, "published")
                 /\ \E got \in IF solve.delivery = "copied" THEN {"published", "rolled back"} ELSE {solve.delivery} :
                      solve' = [solve EXCEPT !.delivery = got]
        BY <3>2, <1>2, <1>3, SolveTypes DEF Delivers, GoTo, AtStep, Decided
      <3>3. CASE AtStep(p, "published") /\ DeliveryReady /\ GoTo(p, "delivered")
                 /\ solve' = [solve EXCEPT !.delivery = IF @ = "published" THEN "delivered" ELSE "undelivered"]
        BY <3>3, SolveTypes DEF Delivers, GoTo
      <3>4. CASE GoTo(p, "raised") /\ solve' = solve
        BY <3>4, SolveTypes DEF GoTo
      <3> QED
        BY <2>2, <3>1, <3>2, <3>3, <3>4 DEF DeliverToParent
    <2> QED
      BY <2>1, <2>2
  <1>5. CASE pc'[p] \in {"cancel", "ending", "raised"} /\ solve' \in {solve, Cancelled, WithOrchestration(FALSE)}
    <2>1. Fits(solve, solve')
      BY <1>5, SolveTypes, CancelledFits, OrchestrationFits
    <2> QED
      BY <1>1, <1>5, <2>1, PlainAdvances DEF Plain, Coordinating
  <1>6. CASE Delivers(p)
    <2>1. PICK d \in {"none", "copied", "published", "rolled back", "delivered", "undelivered"} :
            /\ DeliveryReady /\ solve' = [solve EXCEPT !.delivery = d]
            /\ \/ pc'[p] = "delivered"
               \/ pc'[p] \in {"copied", "published"} /\ d \notin Decided
      BY <1>6 DEF Delivers
    <2>2. Agrees(solve') /\ Grows(solve, solve') /\ solve'.delivery = d
      BY <2>1, SolveTypes, DeliveryWrites
    <2>3. Follows(solve', pc'[p])
      BY <2>1, <2>2 DEF Follows
    <2> QED
      BY <1>1, <2>2, <2>3 DEF Advances, Coordinating
  <1> QED
    BY <1>4, <1>5, <1>6

LEMMA CoordinatorKeeps ==
  ASSUME SolveInv, NEW p \in Processes, CoordinatorStep(p)
  PROVE  SolveInv'
  <1>1. Advances(p)
    BY AdmitAdvances, RecoverAdvances, CoordinateAdvances, EndingAdvances, IntakeAdvances, CompileAdvances,
       FinishIntakeAdvances, OrchestrateAdvances, StartPreparationAdvances, PreparationFailsAdvances,
       PrepareBundleAdvances, MakeChildAdvances, CopyInputsAdvances, LinkAdvances, EvolveAdvances, GuardAdvances,
       SpawnAdvances, RegisterAdvances, CheckStopAdvances, ReleaseAdvances, FinishChildAdvances,
       DeliverToParentAdvances, FinishParentAdvances, RaisedAdvances, TimeoutAdvances, CancelOwnAdvances,
       CleanupAdvances
    DEF CoordinatorStep
  <1> QED
    BY <1>1, AdvancesKeeps

-----------------------------------------------------------------------------
(* Callers, workers at their gate, and cancels.                             *)

\* A step that moves processes to places without findings keeps what the others follow.
LEMMA LedgerKeeps ==
  ASSUME SolveInv, Fits(solve, solve'), Ownership',
         \A p \in Processes : pc'[p] = pc[p] \/ pc'[p] \notin Coordinating \/ pc'[p] = "admitted"
  PROVE  SolveInv'
  <1>1. \A p \in Processes : Follows(solve', pc'[p])
    <2> SUFFICES ASSUME NEW p \in Processes PROVE Follows(solve', pc'[p])
      OBVIOUS
    <2>1. CASE pc'[p] = pc[p]
      BY <2>1 DEF SolveInv, StepsFollow, Follows, Fits, Grows
    <2>2. CASE pc'[p] \notin Coordinating \/ pc'[p] = "admitted"
      BY <2>2 DEF Follows, Coordinating
    <2> QED
      BY <2>1, <2>2
  <1> QED
    BY <1>1 DEF SolveInv, StepsFollow, LedgerAgrees, Fits

\* A caller that takes the lock finds it free: nobody else holds it, its own worker included.
LEMMA LockTaken ==
  ASSUME SolveInv, NEW c \in Invocations, OnlyMoves(Caller(c)), UNCHANGED <<gate, stop>>,
         pc[Caller(c)] = "idle", ~ Locked(c), pc'[Caller(c)] \in {"owned", "admitted", "over"}
  PROVE  Ownership'
  <1>1. PlacesOK'
    BY DEF SolveInv, Ownership, PlacesOK, OnlyMoves
  <1>2. ~ Alive(Worker(c)) /\ c \notin gate
    BY DEF SolveInv, Ownership, WorkersFollow, Launching
  <1>3. \A d \in Invocations : d # c => ~ Occupied(d)
    BY DEF Locked, Occupied
  <1>4. \A d \in Invocations : d # c => pc'[Caller(d)] = pc[Caller(d)] /\ pc'[Worker(d)] = pc[Worker(d)]
    BY ProcessNames DEF OnlyMoves
  <1>worker. pc'[Worker(c)] = pc[Worker(c)]
    BY ProcessNames DEF OnlyMoves
  <1>5. OneHolder'
    <2>1. \A d \in Invocations : d # c => ~ Occupied(d)'
      BY <1>3, <1>4 DEF Occupied, Holds, Alive
    <2> QED
      BY <2>1 DEF OneHolder
  <1>6. WorkersFollow'
    <2> SUFFICES ASSUME NEW d \in Invocations
                 PROVE  /\ Alive(Worker(d))' => pc'[Caller(d)] \in Launching \cup {"over"}
                        /\ Alive(Worker(d))' /\ pc'[Worker(d)] # "waiting" => pc'[Caller(d)] = "over"
                        /\ d \in gate => pc'[Caller(d)] = "over"
      BY DEF WorkersFollow
    <2>0. /\ Alive(Worker(d)) => pc[Caller(d)] \in Launching \cup {"over"}
          /\ Alive(Worker(d)) /\ pc[Worker(d)] # "waiting" => pc[Caller(d)] = "over"
          /\ d \in gate => pc[Caller(d)] = "over"
      BY DEF SolveInv, Ownership, WorkersFollow
    <2>2. CASE d = c
      BY <1>2, <1>worker, <2>2 DEF Alive
    <2>3. CASE d # c
      BY <1>4, <2>0, <2>3 DEF Alive
    <2> QED
      BY <2>2, <2>3
  <1> QED
    BY <1>1, <1>5, <1>6 DEF Ownership

LEMMA OwnKeeps ==
  ASSUME SolveInv, NEW c \in Invocations, Own(c)
  PROVE  SolveInv'
  <1>0. Caller(c) \in Processes
    BY ProcessNames
  <1>1. /\ OnlyMoves(Caller(c)) /\ pc[Caller(c)] = "idle" /\ pc'[Caller(c)] \in {"owned", "over"}
        /\ (pc'[Caller(c)] = "owned" => ~ Locked(c)) /\ UNCHANGED <<gate, stop>>
    BY <1>0, SolveTypes DEF Own, AtStep, GoTo, OnlyMoves, Stay, SolvePlaces
  <1>2. Ownership'
    <2>1. CASE pc'[Caller(c)] = "owned"
      BY <1>1, <2>1, LockTaken
    <2>2. CASE pc'[Caller(c)] = "over"
      BY <1>0, <1>1, <2>2, OverOwns, SolveTypes DEF SolveInv
    <2> QED
      BY <1>1, <2>1, <2>2
  <1>3. Fits(solve, solve')
    BY SolveTypes DEF Own
  <1>4. \A p \in Processes : pc'[p] = pc[p] \/ pc'[p] \notin Coordinating \/ pc'[p] = "admitted"
    BY <1>1 DEF OnlyMoves, Coordinating
  <1> QED
    BY <1>2, <1>3, <1>4, LedgerKeeps

LEMMA AnsweredFits ==
  ASSUME Agrees(solve)
  PROVE  Fits(solve, [solve EXCEPT !.status = "running", !.tasks.intake = "ready", !.runner = Nobody])
  <1> DEFINE t == [solve.tasks EXCEPT !.intake = "ready"]
             m == [solve EXCEPT !.status = "running", !.tasks = t, !.runner = Nobody]
  <1>1. /\ t \in TaskRow
        /\ solve.tasks.plan # "none" => t.plan # "none"
        /\ t.orchestration = "succeeded" => solve.delivery = "delivered"
        /\ t.plan = "superseded" => t.orchestration # "none"
        /\ t.intake = "succeeded" => t.plan # "none"
    BY DEF Agrees, SolveRow, TaskRow
  <1>2. [solve EXCEPT !.status = "running", !.tasks.intake = "ready", !.runner = Nobody] = m
    OBVIOUS
  <1> HIDE DEF t
  <1>3. m \in SolveRow
    BY <1>1 DEF Agrees, SolveRow
  <1>4. m.tasks = t /\ m.status = "running" /\ m.child = solve.child /\ SameEvidence(m)
    BY <1>1 DEF Agrees, SolveRow, SameEvidence
  <1> HIDE DEF m
  <1>5. Fits(solve, m)
    BY <1>1, <1>3, <1>4 DEF Fits, Grows, Agrees, SameEvidence
  <1> QED
    BY <1>2, <1>5

LEMMA AnswerKeeps ==
  ASSUME SolveInv, NEW c \in Invocations, Answer(c)
  PROVE  SolveInv'
  <1>0. Caller(c) \in Processes
    BY ProcessNames
  <1>1. /\ OnlyMoves(Caller(c)) /\ pc[Caller(c)] = "idle" /\ pc'[Caller(c)] = "admitted"
        /\ ~ Locked(c) /\ UNCHANGED <<gate, stop>>
    BY <1>0, SolveTypes DEF Answer, AtStep, GoTo, OnlyMoves, SolvePlaces, Coordinating
  <1>2. Ownership'
    BY <1>1, LockTaken
  <1>3. Fits(solve, solve')
    BY SolveTypes, AnsweredFits DEF Answer
  <1>4. \A p \in Processes : pc'[p] = pc[p] \/ pc'[p] \notin Coordinating \/ pc'[p] = "admitted"
    BY <1>1 DEF OnlyMoves
  <1> QED
    BY <1>2, <1>3, <1>4, LedgerKeeps

\* Within one invocation caller and worker may change places while they hold its lock.
LEMMA InvocationOwns ==
  ASSUME SolveInv, NEW c \in Invocations, pc' \in [Processes -> SolvePlaces], gate' \subseteq Invocations, stop' = stop,
         \A p \in Processes : p \notin {Caller(c), Worker(c)} => pc'[p] = pc[p],
         Occupied(c)' => Occupied(c), gate' \subseteq gate \cup {c},
         /\ Alive(Worker(c))' => pc'[Caller(c)] \in Launching \cup {"over"}
         /\ Alive(Worker(c))' /\ pc'[Worker(c)] # "waiting" => pc'[Caller(c)] = "over"
         /\ c \in gate' => pc'[Caller(c)] = "over"
  PROVE  Ownership'
  <1>1. PlacesOK'
    BY DEF SolveInv, Ownership, PlacesOK
  <1>2. \A d \in Invocations : d # c => pc'[Caller(d)] = pc[Caller(d)] /\ pc'[Worker(d)] = pc[Worker(d)]
    BY ProcessNames
  <1>3. \A d \in Invocations : Occupied(d)' => Occupied(d)
    BY <1>2 DEF Occupied, Holds, Alive
  <1>4. OneHolder'
    BY <1>3 DEF SolveInv, Ownership, OneHolder
  <1>5. WorkersFollow'
    <2> SUFFICES ASSUME NEW d \in Invocations
                 PROVE  /\ Alive(Worker(d))' => pc'[Caller(d)] \in Launching \cup {"over"}
                        /\ Alive(Worker(d))' /\ pc'[Worker(d)] # "waiting" => pc'[Caller(d)] = "over"
                        /\ d \in gate' => pc'[Caller(d)] = "over"
      BY DEF WorkersFollow
    <2>0. /\ Alive(Worker(d)) => pc[Caller(d)] \in Launching \cup {"over"}
          /\ Alive(Worker(d)) /\ pc[Worker(d)] # "waiting" => pc[Caller(d)] = "over"
          /\ d \in gate => pc[Caller(d)] = "over"
      BY DEF SolveInv, Ownership, WorkersFollow
    <2>1. CASE d = c
      BY <2>1
    <2>2. CASE d # c
      <3>1. d \in gate' => d \in gate
        BY <2>2
      <3> QED
        BY <1>2, <2>0, <2>2, <3>1 DEF Alive
    <2> QED
      BY <2>1, <2>2
  <1> QED
    BY <1>1, <1>4, <1>5 DEF Ownership

\* The worker inherits the lock from the launcher that spawns it.
LEMMA LaunchWorkerKeeps ==
  ASSUME SolveInv, NEW c \in Invocations, LaunchWorker(c)
  PROVE  SolveInv'
  <1>0. Caller(c) \in Processes /\ Worker(c) \in Processes /\ Caller(c) # Worker(c)
    BY ProcessNames
  <1>1. /\ pc' \in [Processes -> SolvePlaces] /\ pc[Caller(c)] = "admitted"
        /\ pc'[Caller(c)] = "spawned" /\ pc'[Worker(c)] = "waiting" /\ UNCHANGED <<gate, stop>>
        /\ \A p \in Processes : p \notin {Caller(c), Worker(c)} => pc'[p] = pc[p]
    BY <1>0, SolveTypes DEF LaunchWorker, AtStep, Stay, SolvePlaces, Launching
  <1>2. Occupied(c) /\ c \notin gate /\ gate \subseteq Invocations
    BY <1>1 DEF Occupied, Holds, Alive, SolveInv, Ownership, WorkersFollow, PlacesOK
  <1>3. Ownership'
    BY <1>1, <1>2, InvocationOwns DEF Launching
  <1>4. Fits(solve, solve')
    BY SolveTypes DEF LaunchWorker
  <1>5. \A p \in Processes : pc'[p] = pc[p] \/ pc'[p] \notin Coordinating \/ pc'[p] = "admitted"
    BY <1>1 DEF Coordinating
  <1> QED
    BY <1>3, <1>4, <1>5, LedgerKeeps

LEMMA ClaimKeeps ==
  ASSUME SolveInv, NEW c \in Invocations, Claim(c)
  PROVE  SolveInv'
  <1>0. Caller(c) \in Processes /\ Worker(c) \in Processes /\ Caller(c) # Worker(c)
    BY ProcessNames
  <1>1. /\ OnlyMoves(Caller(c)) /\ pc[Caller(c)] = "spawned" /\ pc'[Caller(c)] \in {"claimed", "failing"}
        /\ UNCHANGED <<gate, stop>>
    BY <1>0, SolveTypes DEF Claim, AtStep, GoTo, OnlyMoves, Stay, SolvePlaces, Launching
  <1>2. /\ Occupied(c) /\ c \notin gate /\ gate \subseteq Invocations
        /\ Alive(Worker(c)) => pc[Worker(c)] = "waiting"
    BY <1>1 DEF Occupied, Holds, Alive, SolveInv, Ownership, WorkersFollow, PlacesOK
  <1>3. Ownership'
    <2>1. /\ pc' \in [Processes -> SolvePlaces] /\ gate' \subseteq Invocations /\ gate' \subseteq gate \cup {c} /\ stop' = stop
          /\ \A p \in Processes : p \notin {Caller(c), Worker(c)} => pc'[p] = pc[p]
      BY <1>0, <1>1, <1>2 DEF OnlyMoves
    <2>2. /\ Alive(Worker(c))' => pc'[Caller(c)] \in Launching \cup {"over"}
          /\ Alive(Worker(c))' /\ pc'[Worker(c)] # "waiting" => pc'[Caller(c)] = "over"
          /\ c \in gate' => pc'[Caller(c)] = "over"
      BY <1>0, <1>1, <1>2 DEF OnlyMoves, Alive, Launching
    <2> QED
      BY <1>2, <2>1, <2>2, InvocationOwns
  <1>4. Fits(solve, solve')
    BY SolveTypes, RunnerFits DEF Claim
  <1>5. \A p \in Processes : pc'[p] = pc[p] \/ pc'[p] \notin Coordinating \/ pc'[p] = "admitted"
    BY <1>1 DEF OnlyMoves, Coordinating
  <1> QED
    BY <1>3, <1>4, <1>5, LedgerKeeps

\* With the gate open, or not, the launcher has nothing more to coordinate.
LEMMA OpenGateKeeps ==
  ASSUME SolveInv, NEW c \in Invocations, OpenGate(c)
  PROVE  SolveInv'
  <1>0. Caller(c) \in Processes /\ Worker(c) \in Processes /\ Caller(c) # Worker(c)
    BY ProcessNames
  <1>1. /\ OnlyMoves(Caller(c)) /\ pc[Caller(c)] = "claimed"
        /\ \/ pc'[Caller(c)] = "failing" /\ gate' = gate
           \/ pc'[Caller(c)] = "over" /\ gate' = gate \cup {c}
        /\ stop' = stop
    BY <1>0, SolveTypes DEF OpenGate, AtStep, GoTo, OnlyMoves, SolvePlaces, Launching
  <1>2. /\ Occupied(c) /\ c \notin gate /\ gate \subseteq Invocations
        /\ Alive(Worker(c)) => pc[Worker(c)] = "waiting"
    BY <1>1 DEF Occupied, Holds, Alive, SolveInv, Ownership, WorkersFollow, PlacesOK
  <1>3. Ownership'
    <2>1. /\ pc' \in [Processes -> SolvePlaces] /\ gate' \subseteq Invocations /\ gate' \subseteq gate \cup {c} /\ stop' = stop
          /\ \A p \in Processes : p \notin {Caller(c), Worker(c)} => pc'[p] = pc[p]
      BY <1>0, <1>1, <1>2 DEF OnlyMoves
    <2>2. /\ Alive(Worker(c))' => pc'[Caller(c)] \in Launching \cup {"over"}
          /\ Alive(Worker(c))' /\ pc'[Worker(c)] # "waiting" => pc'[Caller(c)] = "over"
          /\ c \in gate' => pc'[Caller(c)] = "over"
      BY <1>0, <1>1, <1>2 DEF OnlyMoves, Alive, Launching
    <2> QED
      BY <1>2, <2>1, <2>2, InvocationOwns
  <1>4. Fits(solve, solve')
    BY SolveTypes DEF OpenGate
  <1>5. \A p \in Processes : pc'[p] = pc[p] \/ pc'[p] \notin Coordinating \/ pc'[p] = "admitted"
    BY <1>1 DEF OnlyMoves, Coordinating
  <1> QED
    BY <1>3, <1>4, <1>5, LedgerKeeps

LEMMA LaunchFailsKeeps ==
  ASSUME SolveInv, NEW c \in Invocations, LaunchFails(c)
  PROVE  SolveInv'
  <1>0. Caller(c) \in Processes /\ Worker(c) \in Processes /\ Caller(c) # Worker(c)
    BY ProcessNames
  <1>1. /\ pc' \in [Processes -> SolvePlaces] /\ pc'[Caller(c)] = "over" /\ pc'[Worker(c)] = "over"
        /\ UNCHANGED <<gate, stop>> /\ gate \subseteq Invocations
        /\ \A p \in Processes : p \notin {Caller(c), Worker(c)} => pc'[p] = pc[p]
    BY <1>0, SolveTypes DEF LaunchFails, Stay, SolvePlaces, SolveInv, Ownership, PlacesOK
  <1>2. ~ Occupied(c)'
    BY <1>1 DEF Occupied, Holds, Alive
  <1>3. Ownership'
    BY <1>1, <1>2, InvocationOwns DEF Alive
  <1>4. Fits(solve, solve')
    BY SolveTypes, ClearedFits DEF LaunchFails
  <1>5. \A p \in Processes : pc'[p] = pc[p] \/ pc'[p] \notin Coordinating \/ pc'[p] = "admitted"
    BY <1>1 DEF Coordinating
  <1> QED
    BY <1>3, <1>4, <1>5, LedgerKeeps

\* A worker that was let in, or one whose launcher is gone, is alone in its invocation.
LEMMA GateKeeps ==
  ASSUME SolveInv, NEW c \in Invocations, Gate(c)
  PROVE  SolveInv'
  <1>0. Caller(c) \in Processes /\ Worker(c) \in Processes /\ Caller(c) # Worker(c)
    BY ProcessNames
  <1>1. /\ OnlyMoves(Worker(c)) /\ pc[Worker(c)] = "waiting" /\ pc'[Worker(c)] \in {"owned", "leaving"}
        /\ c \in gate \/ ~ Alive(Caller(c))
        /\ UNCHANGED <<gate, stop>> /\ gate \subseteq Invocations
    BY <1>0, SolveTypes DEF Gate, AtStep, GoTo, OnlyMoves, Stay, SolvePlaces, SolveInv, Ownership, PlacesOK
  <1>2. Occupied(c) /\ pc[Caller(c)] = "over"
    BY <1>1 DEF Occupied, Holds, Alive, SolveInv, Ownership, WorkersFollow, Launching
  <1>3. Ownership'
    <2>1. /\ pc' \in [Processes -> SolvePlaces] /\ gate' \subseteq Invocations /\ gate' \subseteq gate \cup {c} /\ stop' = stop
          /\ \A p \in Processes : p \notin {Caller(c), Worker(c)} => pc'[p] = pc[p]
          /\ pc'[Caller(c)] = "over"
      BY <1>0, <1>1, <1>2 DEF OnlyMoves
    <2> QED
      BY <1>2, <2>1, InvocationOwns
  <1>4. Fits(solve, solve')
    BY SolveTypes DEF Gate
  <1>5. \A p \in Processes : pc'[p] = pc[p] \/ pc'[p] \notin Coordinating \/ pc'[p] = "admitted"
    BY <1>1 DEF OnlyMoves, Coordinating
  <1> QED
    BY <1>3, <1>4, <1>5, LedgerKeeps

LEMMA LeaveWorkerKeeps ==
  ASSUME SolveInv, NEW c \in Invocations, LeaveWorker(c)
  PROVE  SolveInv'
  <1>0. Worker(c) \in Processes
    BY ProcessNames
  <1>1. OnlyMoves(Worker(c)) /\ pc'[Worker(c)] = "over" /\ UNCHANGED <<gate, stop>>
    BY <1>0, SolveTypes DEF LeaveWorker, GoTo, OnlyMoves, Stay, SolvePlaces
  <1>2. Ownership'
    BY <1>0, <1>1, OverOwns, SolveTypes DEF SolveInv
  <1>3. Fits(solve, solve')
    BY SolveTypes, ClearedFits DEF LeaveWorker
  <1>4. \A p \in Processes : pc'[p] = pc[p] \/ pc'[p] \notin Coordinating \/ pc'[p] = "admitted"
    BY <1>1 DEF OnlyMoves, Coordinating
  <1> QED
    BY <1>2, <1>3, <1>4, LedgerKeeps

LEMMA KillProcessKeeps ==
  ASSUME SolveInv, NEW p \in Processes, KillProcess(p)
  PROVE  SolveInv'
  <1>1. OnlyMoves(p) /\ pc'[p] = "over" /\ UNCHANGED <<gate, stop>>
    BY SolveTypes DEF KillProcess, GoTo, OnlyMoves, Stay, SolvePlaces
  <1>2. Ownership'
    BY <1>1, OverOwns, SolveTypes DEF SolveInv
  <1>3. Fits(solve, solve')
    BY SolveTypes DEF KillProcess
  <1>4. \A q \in Processes : pc'[q] = pc[q] \/ pc'[q] \notin Coordinating \/ pc'[q] = "admitted"
    BY <1>1 DEF OnlyMoves, Coordinating
  <1> QED
    BY <1>2, <1>3, <1>4, LedgerKeeps

LEMMA CancelChildKeeps ==
  ASSUME SolveInv, CancelChild
  PROVE  SolveInv'
  <1>1. Ownership'
    BY StillOwns, SolveTypes DEF CancelChild, Stay, SolveInv
  <1>2. Fits(solve, solve')
    BY SolveTypes, ChildEndsFits DEF CancelChild
  <1> QED
    BY <1>1, <1>2, LedgerKeeps DEF CancelChild

\* A cancel writes the runs; its last step stops the runner it saw, and no other.
LEMMA CancelKeeps ==
  ASSUME SolveInv, Cancel
  PROVE  SolveInv'
  <1>1. Fits(solve, solve')
    BY SolveTypes, CancelledFits, ChildEndsFits, ClearedFits DEF Cancel, Targets
  <1>2. Targets(stop')
    <2>1. solve.runner \in Invocations \cup {Nobody} /\ Targets(stop)
      BY SolveTypes DEF SolveRow
    <2>2. \/ \E step \in {"asked", "both", "over", "killing"} : stop' = [stop EXCEPT !.step = step]
          \/ stop' = [step |-> "scoped", row |-> work.row, runner |-> solve.runner]
      BY DEF Cancel
    <2>3. CASE stop' = [step |-> "scoped", row |-> work.row, runner |-> solve.runner]
      BY <2>1, <2>3 DEF Targets
    <2>4. ASSUME NEW step \in {"asked", "both", "over", "killing"}, stop' = [stop EXCEPT !.step = step]
          PROVE  Targets(stop')
      BY <2>1, <2>4 DEF Targets
    <2> QED
      BY <2>2, <2>3, <2>4
  <1>3. CASE pc' = pc
    BY <1>1, <1>2, <1>3, StillOwns, LedgerKeeps DEF Cancel, SolveInv
  <1>4. CASE pc' # pc
    <2>1. stop.runner \in Invocations /\ GoTo(Worker(stop.runner), "over") /\ gate' = gate
      BY <1>4, SolveTypes DEF Cancel, Targets
    <2>2. Worker(stop.runner) \in Processes
      BY <2>1, ProcessNames
    <2>3. OnlyMoves(Worker(stop.runner)) /\ pc'[Worker(stop.runner)] = "over"
      BY <2>1, <2>2, SolveTypes DEF GoTo, OnlyMoves, SolvePlaces
    <2>4. Ownership'
      BY <1>2, <2>1, <2>2, <2>3, OverOwns DEF SolveInv
    <2>5. \A q \in Processes : pc'[q] = pc[q] \/ pc'[q] \notin Coordinating \/ pc'[q] = "admitted"
      BY <2>3 DEF OnlyMoves, Coordinating
    <2> QED
      BY <1>1, <2>4, <2>5, LedgerKeeps
  <1> QED
    BY <1>3, <1>4

-----------------------------------------------------------------------------
(* The theorems.                                                            *)

LEMMA SolveInvInit ==
  ASSUME SolveInit
  PROVE  SolveInv
  <1>1. \A c \in Invocations : pc[Caller(c)] = "idle" /\ pc[Worker(c)] = "over"
    BY ProcessNames DEF SolveInit, Caller, Worker
  <1>2. PlacesOK
    BY DEF SolveInit, PlacesOK, SolvePlaces, Targets
  <1>3. OneHolder /\ WorkersFollow
    BY <1>1 DEF SolveInit, OneHolder, WorkersFollow, Occupied, Holds, Alive
  <1>4. LedgerAgrees
    BY DEF SolveInit, LedgerAgrees, Agrees, SolveRow, TaskRow
  <1>5. StepsFollow
    BY DEF SolveInit, StepsFollow, Follows
  <1> QED
    BY <1>2, <1>3, <1>4, <1>5 DEF SolveInv, Ownership

LEMMA SolveInvNext ==
  ASSUME SolveInv, [SolveNext]_solveVars
  PROVE  SolveInv'
  <1>1. ASSUME NEW p \in Processes, CoordinatorStep(p) \/ KillProcess(p) PROVE SolveInv'
    BY <1>1, CoordinatorKeeps, KillProcessKeeps
  <1>2. ASSUME NEW c \in Invocations,
               \/ Own(c) \/ Answer(c) \/ LaunchWorker(c) \/ Claim(c)
               \/ OpenGate(c) \/ LaunchFails(c) \/ Gate(c) \/ LeaveWorker(c)
        PROVE  SolveInv'
    BY <1>2, OwnKeeps, AnswerKeeps, LaunchWorkerKeeps, ClaimKeeps, OpenGateKeeps, LaunchFailsKeeps, GateKeeps,
       LeaveWorkerKeeps
  <1>3. CASE Cancel \/ CancelChild
    BY <1>3, CancelKeeps, CancelChildKeeps
  <1>4. CASE UNCHANGED solveVars
    <2>1. UNCHANGED <<pc, gate, solve, stop>>
      BY <1>4 DEF solveVars
    <2>2. Ownership'
      BY <2>1, StillOwns, SolveTypes DEF SolveInv
    <2>3. Fits(solve, solve')
      BY <2>1, SolveTypes
    <2> QED
      BY <2>1, <2>2, <2>3, LedgerKeeps
  <1> QED
    BY <1>1, <1>2, <1>3, <1>4 DEF SolveNext

\* The invariant holds of a solve: one invocation has the lock, and what a coordinator goes on from
\* is what the ledger says.
THEOREM SolveInvariant == SolveSpec => []SolveInv
  <1>1. SolveInit => SolveInv
    BY SolveInvInit
  <1>2. SolveInv /\ [SolveNext]_solveVars => SolveInv'
    BY SolveInvNext
  <1> QED
    BY <1>1, <1>2, PTL DEF SolveSpec

\* Whatever callers, detached workers, cancels and kills do: one process coordinates a solve, its
\* preparation is whole before it is announced, and it succeeds only with what its child delivered
\* (own_automatic_solve, prepare_automatic_solve_bundle, finish_bundle_parent_delivery).
THEOREM SolvesAreCoordinated == SolveSpec => []CoordinatedSolve
  <1>1. SolveInv => CoordinatedSolve
    <2> SUFFICES ASSUME SolveInv PROVE CoordinatedSolve
      OBVIOUS
    <2>1. OneCoordinator
      BY OneAtATime DEF SolveInv
    <2>2. PreparedIsWhole /\ SucceededIsDelivered
      BY SolveTypes DEF Agrees, PreparedIsWhole, SucceededIsDelivered
    <2> QED
      BY <2>1, <2>2 DEF CoordinatedSolve
  <1> QED
    BY <1>1, SolveInvariant, PTL

-----------------------------------------------------------------------------
(* An agent session: what is accounted for, and what its checkpoints hold.   *)

SessionTypes ==
    /\ DOMAIN session = {"pc", "mode", "turns", "calls", "steps", "base", "cancelled", "ran", "sent"}
    /\ DOMAIN spend = {"tokens", "rounds", "complete", "exceeded"}
    /\ DOMAIN workflow = {"stage", "number", "resumed", "usage"}
    /\ session.sent \in Nat /\ spend.rounds \in Nat /\ workflow.number \in Nat

\* Every request was answered with its usage, but for the one that is on its way and for a last one
\* whose answer ended the attempt.
RoundsFollowRequests ==
    /\ session.pc = "request" => session.sent = spend.rounds + 1
    /\ session.pc \notin {"request", "over", "down"} => session.sent = spend.rounds
    /\ session.sent <= spend.rounds + 1

\* The boundary was drawn where every call has its result.
BoundaryIsPaired == session.pc = "boundary" => Paired(transcript)

SavedIsSeq == \E S : saved \in Seq(S)

SessionInv ==
    /\ SessionTypes /\ RoundsFollowRequests /\ BoundaryIsPaired
    /\ SavedIsSeq /\ CheckpointIsWhole /\ CheckpointIsThere

\* A step of the loop leaves the checkpoints and the state alone.
LEMMA LoopStepKeeps ==
  ASSUME SessionInv, UNCHANGED <<workflow, saved>>, SessionTypes', RoundsFollowRequests', BoundaryIsPaired'
  PROVE  SessionInv'
  BY DEF SessionInv, SavedIsSeq, CheckpointIsWhole, CheckpointIsThere

\* So does a step of the workflow, but that it names a checkpoint which is there.
LEMMA WorkflowStepKeeps ==
  ASSUME SessionInv, UNCHANGED saved, SessionTypes', RoundsFollowRequests', BoundaryIsPaired', CheckpointIsThere'
  PROVE  SessionInv'
  BY DEF SessionInv, SavedIsSeq, CheckpointIsWhole

LEMMA InterruptKeeps ==
  ASSUME SessionInv, Interrupted \/ ToolCancelled \/ KillAttempt \/ CancelLoop \/ EditDeclared \/ WorkerAnswers \/ Guardian
  PROVE  SessionInv'
  <1>1. SessionTypes' /\ RoundsFollowRequests' /\ UNCHANGED <<workflow, saved>>
    BY DEF SessionInv, SessionTypes, RoundsFollowRequests, Interrupted, ToolCancelled, KillAttempt, CancelLoop, EditDeclared,
       WorkerAnswers, Guardian, Raises, Is, Up
  <1>2. BoundaryIsPaired'
    BY DEF SessionInv, SessionTypes, BoundaryIsPaired, Interrupted, ToolCancelled, KillAttempt, CancelLoop, EditDeclared,
       WorkerAnswers, Guardian, Raises, Is, Up, Paired
  <1> QED
    BY <1>1, <1>2, LoopStepKeeps

LEMMA BoundaryKeeps ==
  ASSUME SessionInv, Boundary
  PROVE  SessionInv'
  <1>1. SessionTypes' /\ RoundsFollowRequests' /\ UNCHANGED <<workflow, saved>>
    BY DEF SessionInv, SessionTypes, RoundsFollowRequests, Boundary, Raises, Is
  <1>2. BoundaryIsPaired'
    BY DEF SessionInv, SessionTypes, BoundaryIsPaired, Boundary, Raises, Is, Paired
  <1> QED
    BY <1>1, <1>2, LoopStepKeeps

LEMMA SendKeeps ==
  ASSUME SessionInv, Send
  PROVE  SessionInv'
  <1>a. /\ DOMAIN session' = DOMAIN session /\ DOMAIN spend' = DOMAIN spend /\ spend'.rounds = spend.rounds
        /\ \/ session'.pc = "request" /\ session'.sent = session.sent + 1
           \/ session'.pc = "over" /\ session'.sent = session.sent
    <2>1. \/ session' = [session EXCEPT !.pc = "request", !.sent = @ + 1] /\ spend' = spend
          \/ session' = [session EXCEPT !.pc = "over"] /\ spend' \in {spend, [spend EXCEPT !.complete = FALSE]}
      BY DEF Send, Raises
    <2> QED
      BY <2>1 DEF SessionInv, SessionTypes
  <1>1. SessionTypes' /\ RoundsFollowRequests' /\ UNCHANGED <<workflow, saved>>
    BY <1>a DEF SessionInv, SessionTypes, RoundsFollowRequests, Send, Is
  <1>2. BoundaryIsPaired'
    BY DEF SessionInv, SessionTypes, BoundaryIsPaired, Send, Raises
  <1> QED
    BY <1>1, <1>2, LoopStepKeeps

LEMMA RequestFailsKeeps ==
  ASSUME SessionInv, RequestFails
  PROVE  SessionInv'
  <1>1. SessionTypes' /\ RoundsFollowRequests' /\ UNCHANGED <<workflow, saved>>
    BY DEF SessionInv, SessionTypes, RoundsFollowRequests, RequestFails, Raises, Is
  <1>2. BoundaryIsPaired'
    BY DEF SessionInv, SessionTypes, BoundaryIsPaired, RequestFails, Raises
  <1> QED
    BY <1>1, <1>2, LoopStepKeeps

\* A turn whose usage is recorded counts one more round; any other ends the attempt.
LEMMA TurnRecords ==
  ASSUME SessionTypes, NEW tokens, NEW calls
  PROVE  LET seen == RecordedTurn(tokens, calls) IN
         /\ DOMAIN seen.spend = DOMAIN spend
         /\ (seen.spend.rounds = spend.rounds /\ seen.raises) \/ seen.spend.rounds = spend.rounds + 1
  BY DEF SessionTypes, RecordedTurn

LEMMA TurnKeeps ==
  ASSUME SessionInv, NEW tokens, NEW calls, Turn(tokens, calls)
  PROVE  SessionInv'
  <1> DEFINE seen == RecordedTurn(tokens, calls)
  <1>1. /\ session.pc = "request" /\ UNCHANGED <<workflow, saved>> /\ spend' = seen.spend
        /\ DOMAIN session' = DOMAIN session /\ session'.sent = session.sent
        /\ session'.pc \in {"over", "tools", "planned", "built"} /\ (seen.raises => session'.pc = "over")
    BY DEF Turn, Is, SessionInv, SessionTypes
  <1>2. SessionTypes' /\ RoundsFollowRequests'
    BY <1>1, TurnRecords DEF SessionInv, SessionTypes, RoundsFollowRequests
  <1>3. BoundaryIsPaired'
    BY <1>1 DEF BoundaryIsPaired
  <1> QED
    BY <1>1, <1>2, <1>3, LoopStepKeeps

LEMMA ToolCallKeeps ==
  ASSUME SessionInv, NEW tool, ToolCall(tool)
  PROVE  SessionInv'
  <1>1. /\ session.pc = "tools" /\ UNCHANGED <<workflow, saved, spend>>
        /\ DOMAIN session' = DOMAIN session /\ session'.sent = session.sent
        /\ session'.pc \in {"over", "tools", "loop"}
    BY DEF ToolCall, Executed, Is, SessionInv, SessionTypes
  <1>2. SessionTypes' /\ RoundsFollowRequests' /\ BoundaryIsPaired'
    BY <1>1 DEF SessionInv, SessionTypes, RoundsFollowRequests, BoundaryIsPaired
  <1> QED
    BY <1>1, <1>2, LoopStepKeeps

\* The steps of the workflow that write no checkpoint.
LEMMA WorkflowKeeps ==
  ASSUME SessionInv,
         \/ RunMaster \/ MasterUsage \/ MasterPlan \/ RunBuild \/ StartBuild \/ SaveState \/ ResumeAttempt \/ ResumeBuild \/ Reopen
  PROVE  SessionInv'
  <1>0. Len(saved) \in Nat
    BY LenProperties DEF SessionInv, SavedIsSeq
  <1>1. /\ UNCHANGED <<spend, saved>> /\ DOMAIN session' = DOMAIN session /\ session'.sent = session.sent
        /\ session'.pc \notin {"boundary", "request"}
        /\ session.pc \notin {"request", "over"} /\ (session.pc = "down" => session'.pc = "over")
    BY DEF SessionInv, SessionTypes, RunMaster, MasterUsage, MasterPlan, WriteMaster, RunBuild, StartBuild, SaveState, ResumeAttempt,
       ResumeBuild, Reopen, Invoke, Raises, Is, Up
  <1>2. DOMAIN workflow' = DOMAIN workflow /\ workflow'.number \in {workflow.number, Len(saved)}
    BY DEF SessionInv, SessionTypes, RunMaster, MasterUsage, MasterPlan, WriteMaster, RunBuild, StartBuild, SaveState, ResumeAttempt,
       ResumeBuild, Reopen, Transition, CheckpointState
  <1>3. SessionTypes' /\ RoundsFollowRequests' /\ BoundaryIsPaired' /\ CheckpointIsThere'
    BY <1>0, <1>1, <1>2 DEF SessionInv, SessionTypes, RoundsFollowRequests, BoundaryIsPaired, CheckpointIsThere
  <1> QED
    BY <1>1, <1>3, WorkflowStepKeeps

LEMMA AppendToAny ==
  ASSUME NEW S, NEW s \in Seq(S), NEW x
  PROVE  /\ Append(s, x) \in Seq(S \cup {x}) /\ Len(s) \in Nat
         /\ Len(Append(s, x)) = Len(s) + 1 /\ DOMAIN Append(s, x) = 1 .. Len(s) + 1
         /\ \A k \in 1 .. Len(s) : Append(s, x)[k] = s[k]
         /\ Append(s, x)[Len(s) + 1] = x
  <1>1. s \in Seq(S \cup {x}) /\ x \in S \cup {x}
    BY SeqMonotonic
  <1> QED
    BY <1>1, AppendProperties, LenProperties

LEMMA SaveCheckpointKeeps ==
  ASSUME SessionInv, SaveCheckpoint
  PROVE  SessionInv'
  <1>1. /\ UNCHANGED <<spend, workflow, transcript>> /\ DOMAIN session' = DOMAIN session /\ session'.sent = session.sent
        /\ session.pc \in {"boundary", "built"} /\ session'.pc \in {"saved", "over"}
    BY DEF SessionInv, SessionTypes, SaveCheckpoint, Raises
  <1>2. SessionTypes' /\ RoundsFollowRequests' /\ BoundaryIsPaired'
    BY <1>1 DEF SessionInv, SessionTypes, RoundsFollowRequests, BoundaryIsPaired
  <1>3. CASE UNCHANGED saved
    BY <1>1, <1>2, <1>3, LoopStepKeeps
  <1>4. CASE ~ UNCHANGED saved
    <2> DEFINE new == [stage |-> BoundaryStage, prior |-> workflow.stage, usage |-> Usage(session.base),
                       messages |-> transcript, declared |-> declared, sent |-> session.sent]
    <2>1. saved' = Append(saved, new)
      BY <1>4 DEF SaveCheckpoint
    <2>2. PICK S : saved \in Seq(S)
      BY DEF SessionInv, SavedIsSeq
    <2>3. new.stage = "checkpointed" => Paired(new.messages) /\ new.usage.rounds = new.sent
      BY <1>1 DEF SessionInv, RoundsFollowRequests, BoundaryIsPaired, BoundaryStage, Is, Usage
    <2> HIDE DEF new
    <2>4. /\ saved' \in Seq(S \cup {new}) /\ Len(saved) \in Nat
          /\ Len(saved') = Len(saved) + 1 /\ DOMAIN saved' = 1 .. Len(saved) + 1 /\ DOMAIN saved = 1 .. Len(saved)
          /\ \A k \in 1 .. Len(saved) : saved'[k] = saved[k]
          /\ saved'[Len(saved) + 1] = new
      BY <2>1, <2>2, AppendToAny, LenProperties
    <2>5. CheckpointIsWhole'
      <3> SUFFICES ASSUME NEW k \in DOMAIN saved', saved'[k].stage = "checkpointed"
                   PROVE  Paired(saved'[k].messages) /\ saved'[k].usage.rounds = saved'[k].sent
        BY DEF CheckpointIsWhole, Paired
      <3>1. CASE k \in DOMAIN saved
        BY <2>4, <3>1 DEF SessionInv, CheckpointIsWhole
      <3>2. CASE k = Len(saved) + 1
        BY <2>3, <2>4, <3>2
      <3> QED
        BY <2>4, <3>1, <3>2
    <2>6. CheckpointIsThere'
      BY <1>1, <2>4 DEF SessionInv, SessionTypes, CheckpointIsThere
    <2>7. SavedIsSeq'
      BY <2>4 DEF SavedIsSeq
    <2> QED
      BY <1>2, <2>5, <2>6, <2>7 DEF SessionInv
  <1> QED
    BY <1>3, <1>4

LEMMA SessionInvInit ==
  ASSUME SessionInit
  PROVE  SessionInv
  <1>1. SessionTypes /\ RoundsFollowRequests /\ BoundaryIsPaired
    BY DEF SessionInit, SessionIdle, SessionTypes, RoundsFollowRequests, BoundaryIsPaired
  <1>2. saved \in Seq({}) /\ Len(saved) = 0 /\ DOMAIN saved = {}
    BY EmptySeq, LenProperties DEF SessionInit
  <1>3. CheckpointIsWhole /\ CheckpointIsThere /\ SavedIsSeq
    BY <1>2 DEF SessionInit, CheckpointIsWhole, CheckpointIsThere, SavedIsSeq
  <1> QED
    BY <1>1, <1>3 DEF SessionInv

LEMMA SessionInvStep ==
  ASSUME SessionInv, SessionNext
  PROVE  SessionInv'
  BY InterruptKeeps, BoundaryKeeps, SendKeeps, RequestFailsKeeps, TurnKeeps, ToolCallKeeps, WorkflowKeeps, SaveCheckpointKeeps
     DEF SessionNext

\* What a later invocation goes on from is there and whole, and its usage covers every request that was
\* sent, whatever is cancelled, refused, interrupted, edited or killed in between, for any ceilings
\* (WorkflowController.checkpoint and resume, UsageLedger, AgentLoopRuntime.run).
THEOREM CheckpointsAlwaysHold == SessionInit /\ [][SessionNext]_sessionVars => []CheckpointsHold
  <1>1. SessionInv /\ [SessionNext]_sessionVars => SessionInv'
    <2>1. ASSUME SessionInv, UNCHANGED sessionVars PROVE SessionInv'
      BY <2>1 DEF sessionVars, SessionInv, SessionTypes, RoundsFollowRequests, BoundaryIsPaired, SavedIsSeq, CheckpointIsWhole,
         CheckpointIsThere, Paired
    <2> QED
      BY <2>1, SessionInvStep
  <1>2. SessionInv => CheckpointsHold
    BY DEF SessionInv, RoundsFollowRequests, CheckpointsHold, SpendIsAccounted
  <1> QED
    BY <1>1, <1>2, SessionInvInit, PTL
=============================================================================
