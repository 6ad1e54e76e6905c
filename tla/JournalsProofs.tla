--------------------------- MODULE JournalsProofs ---------------------------
(***************************************************************************)
(* Proofs about what processes keep for their successors when they are     *)
(* killed: the evidence of a search, programs that are handed over, the    *)
(* records of an effect trial and batches that enter an archive.           *)
(***************************************************************************)
EXTENDS EvolutionRun, Handoff, EffectTrial, BundlePublication, SequenceTheorems, TLAPS

-----------------------------------------------------------------------------
(* A search in the ledger: its inductive invariant.                         *)

Creating == {"create", "write contract", "configure", "created"}
Searching == {"begin", "produce", "search", "draft", "appended", "observed"}
Recording == {"record", "index", "write result", "files", "finished", "finish"}
Quiet == {"off", "enter", "recover", "claim", "ended", "index again", "settle"}

SearchTypes ==
    /\ DOMAIN searcher = {"at", "starts", "resume", "calls", "tears"}
    /\ evidence \in [kind : RunKinds, contract : {"none", "whole", "torn"},
                     status : {"none", "running", "completed", "failed", "cancelled"}, lines : Nat, covers : Nat,
                     seeds : BOOLEAN, result : {"none", "torn", "running", "completed", "failed", "cancelled"}]
    /\ DOMAIN book = {"run", "task", "contract", "rows", "seeds", "files", "finished", "receipts"}
    /\ DOMAIN book.files = {"archive", "state", "result"}

\* The files are final once the strategy has ended, and are not written to before and after.
StepsSeeFiles ==
    /\ searcher.at \in Creating => evidence.status = "none"
    /\ searcher.at \in Searching => ~ Concluded
    /\ searcher.at \in Recording => Concluded
    /\ evidence.status = "completed" => evidence.lines > 0

\* What the rows of the files pin, once they are there.
Final == [archive |-> {evidence.lines}, state |-> {evidence.status}, result |-> {evidence.status}]

RowsAreFinal ==
    /\ \A f \in {"archive", "state", "result"} : book.files[f] # {} => Concluded /\ book.files[f] = Final[f]
    /\ book.finished # {} => Concluded /\ book.finished = {evidence.status}

\* The order in which the evidence is recorded.
RecordsAreOrdered ==
    /\ searcher.at \in {"write result", "files", "finished", "finish"} => book.rows = FirstLines(evidence.lines)
    /\ searcher.at \in {"files", "finished", "finish"} => evidence.result = evidence.status
    /\ searcher.at \in {"finished", "finish"} => \A f \in {"archive", "state", "result"} : book.files[f] # {}
    /\ searcher.at = "finish" => book.finished # {}

\* A task that succeeded has its evidence, and nobody searches for it any more.
TaskIsEvident ==
    book.task = "succeeded" =>
        /\ ResultIdentity /\ evidence.status = "completed" /\ book.rows = FirstLines(evidence.lines)
        /\ searcher.at \in Quiet

RunFollowsTask ==
    book.run = "succeeded" => book.task = "succeeded" /\ searcher.at \in {"off", "enter", "ended", "index again"}

SearchInv == SearchTypes /\ StepsSeeFiles /\ RowsAreFinal /\ RecordsAreOrdered /\ TaskIsEvident /\ RunFollowsTask

-----------------------------------------------------------------------------
(* Each step of a search keeps it.                                          *)

\* A step that only goes on: what the next place expects of the files and the task is there.
LEMMA SearcherMoves ==
  ASSUME SearchInv, UNCHANGED <<evidence, book>>, DOMAIN searcher' = DOMAIN searcher,
         searcher'.at \in Creating => evidence.status = "none",
         searcher'.at \in Searching => ~ Concluded,
         searcher'.at \in Recording => Concluded,
         searcher'.at \notin {"write result", "files", "finished", "finish"},
         book.task = "succeeded" => searcher'.at \in Quiet,
         book.run = "succeeded" => searcher'.at \in {"off", "enter", "ended", "index again"}
  PROVE  SearchInv'
  <1>1. SearchTypes' /\ StepsSeeFiles' /\ RowsAreFinal' /\ RecordsAreOrdered'
    BY DEF SearchInv, SearchTypes, StepsSeeFiles, RowsAreFinal, RecordsAreOrdered, Concluded, Final, FirstLines
  <1>2. TaskIsEvident' /\ RunFollowsTask'
    BY DEF SearchInv, TaskIsEvident, RunFollowsTask, ResultIdentity, RowsPinFiles, EventsAgree, Snapshot, FirstLines
  <1> QED
    BY <1>1, <1>2 DEF SearchInv

LEMMA EvolvesKeeps ==
  ASSUME SearchInv, Evolves
  PROVE  SearchInv'
  <1>1. /\ searcher.at = "off" /\ searcher'.at \in {"create", "enter"}
        /\ DOMAIN searcher' = DOMAIN searcher /\ UNCHANGED <<evidence, book>>
    BY DEF Evolves, SearchInv, SearchTypes, SearchAt, SearchTo
  <1>2. searcher'.at = "create" => evidence.status = "none"
    BY <1>1 DEF Evolves, SearchInv, SearchTypes, FreshWorkspace
  <1> QED
    BY <1>1, <1>2, SearcherMoves DEF Creating, Searching, Recording, Quiet, SearchInv, TaskIsEvident, RunFollowsTask

LEMMA CreateEvolutionRunKeeps ==
  ASSUME SearchInv, CreateEvolutionRun
  PROVE  SearchInv'
  <1>1. /\ searcher.at \in {"create", "write contract", "configure"}
        /\ searcher'.at \in {"write contract", "configure", "created"} /\ DOMAIN searcher' = DOMAIN searcher
        /\ \/ book' = NewBook /\ evidence' = evidence
           \/ book' = book /\ evidence' = [evidence EXCEPT !.contract = "whole"]
           \/ book' = [book EXCEPT !.contract = TRUE] /\ evidence' = evidence
    BY DEF CreateEvolutionRun, SearchInv, SearchTypes, SearchAt, SearchTo
  <1>2. evidence.status = "none" /\ book.task # "succeeded" /\ book.run # "succeeded"
    BY <1>1 DEF SearchInv, StepsSeeFiles, Creating, TaskIsEvident, RunFollowsTask, Quiet
  <1>3. ~ Concluded
    BY <1>2 DEF Concluded
  <1>4. /\ evidence'.status = "none" /\ evidence'.lines = evidence.lines
        /\ SearchTypes' /\ book'.task # "succeeded" /\ book'.run # "succeeded"
    <2>1. CASE book' = NewBook /\ evidence' = evidence
      BY <1>1, <1>2, <2>1 DEF NewBook, SearchInv, SearchTypes
    <2>2. CASE book' = book /\ evidence' = [evidence EXCEPT !.contract = "whole"]
      BY <1>1, <1>2, <2>2 DEF SearchInv, SearchTypes
    <2>3. CASE book' = [book EXCEPT !.contract = TRUE] /\ evidence' = evidence
      BY <1>1, <1>2, <2>3 DEF SearchInv, SearchTypes
    <2> QED
      BY <1>1, <2>1, <2>2, <2>3
  <1>5. (\A f \in {"archive", "state", "result"} : book'.files[f] = {}) /\ book'.finished = {}
    <2>1. (\A f \in {"archive", "state", "result"} : book.files[f] = {}) /\ book.finished = {}
      BY <1>3 DEF SearchInv, RowsAreFinal
    <2>2. CASE book' = NewBook
      BY <2>2 DEF NewBook
    <2>3. CASE book' = book \/ book' = [book EXCEPT !.contract = TRUE]
      <3>1. book'.files = book.files /\ book'.finished = book.finished
        BY <2>3 DEF SearchInv, SearchTypes
      <3> QED
        BY <2>1, <3>1
    <2> QED
      BY <1>1, <2>2, <2>3
  <1> QED
    BY <1>1, <1>4, <1>5 DEF SearchInv, StepsSeeFiles, RowsAreFinal, RecordsAreOrdered, TaskIsEvident, RunFollowsTask,
                            Creating, Searching, Recording

LEMMA DetachKeeps ==
  ASSUME SearchInv, Detach
  PROVE  SearchInv'
  <1>1. /\ searcher.at = "created" /\ searcher'.at = "enter"
        /\ DOMAIN searcher' = DOMAIN searcher /\ UNCHANGED <<evidence, book>>
    BY DEF Detach, SearchInv, SearchTypes, SearchAt, SearchTo
  <1> QED
    BY <1>1, SearcherMoves DEF Creating, Searching, Recording, Quiet, SearchInv, TaskIsEvident, RunFollowsTask

LEMMA EnterKeeps ==
  ASSUME SearchInv, Enter
  PROVE  SearchInv'
  <1>1. /\ searcher.at = "enter" /\ searcher'.at \in {"off", "ended", "recover", "claim"}
        /\ DOMAIN searcher' = DOMAIN searcher /\ UNCHANGED <<evidence, book>>
    BY DEF Enter, SearchInv, SearchTypes, SearchAt, SearchTo
  <1>2. book.run = "succeeded" => searcher'.at \in {"off", "ended"}
    BY DEF Enter, SearchInv, SearchTypes, SearchTo, RunEnded
  <1> QED
    BY <1>1, <1>2, SearcherMoves DEF Creating, Searching, Recording, Quiet, SearchInv, TaskIsEvident, RunFollowsTask

LEMMA RecoverTaskKeeps ==
  ASSUME SearchInv, RecoverTask
  PROVE  SearchInv'
  <1>1. SearchTypes'
    BY DEF RecoverTask, SearchInv, SearchTypes, SearchAt, SearchTo
  <1>2. StepsSeeFiles'
    BY DEF RecoverTask, SearchInv, SearchTypes, SearchAt, SearchTo, StepsSeeFiles, Creating, Searching,
           Recording, Concluded
  <1>3. RowsAreFinal'
    BY DEF RecoverTask, SearchInv, SearchTypes, SearchAt, SearchTo, StepsSeeFiles, Creating, Searching,
           Recording, Concluded, RowsAreFinal, Final, RecordsAreOrdered
  <1>4. RecordsAreOrdered'
    BY DEF RecoverTask, SearchInv, SearchTypes, SearchAt, SearchTo, StepsSeeFiles, Creating, Searching,
           Recording, Concluded, RowsAreFinal, Final, RecordsAreOrdered, FirstLines
  <1>5. TaskIsEvident'
    BY DEF RecoverTask, SearchInv, SearchTypes, SearchAt, SearchTo, StepsSeeFiles, Creating, Searching,
           Recording, Concluded, Quiet, RowsAreFinal, Final, RecordsAreOrdered, FirstLines, TaskIsEvident,
           ResultIdentity, RowsPinFiles, EventsAgree, Snapshot
  <1>6. RunFollowsTask'
    BY DEF RecoverTask, SearchInv, SearchTypes, SearchAt, SearchTo, TaskIsEvident, RunFollowsTask, Quiet
  <1> QED
    BY <1>1, <1>2, <1>3, <1>4, <1>5, <1>6 DEF SearchInv

LEMMA ClaimTaskKeeps ==
  ASSUME SearchInv, ClaimTask
  PROVE  SearchInv'
  <1>0. searcher.at = "claim" /\ searcher'.at \in {"seeds", "ended", "off"} /\ DOMAIN searcher' = DOMAIN searcher
    BY DEF ClaimTask, SearchInv, SearchTypes, SearchAt, SearchTo
  <1>effect. evidence' = evidence /\ (book'.task = "succeeded" => book' = book /\ searcher'.at \in {"ended", "off"})
    BY DEF ClaimTask, SearchInv, SearchTypes, SearchAt, SearchTo
  <1>1. SearchTypes'
    BY <1>0 DEF ClaimTask, SearchInv, SearchTypes, SearchAt, SearchTo, TerminalMatches
  <1>2. StepsSeeFiles'
    BY <1>0 DEF ClaimTask, SearchInv, SearchTypes, SearchAt, SearchTo, TerminalMatches, StepsSeeFiles, Creating,
           Searching, Recording, Concluded
  <1>3. RowsAreFinal'
    BY <1>0 DEF ClaimTask, SearchInv, SearchTypes, SearchAt, SearchTo, TerminalMatches, StepsSeeFiles, Creating,
           Searching, Recording, Concluded, RowsAreFinal, Final, RecordsAreOrdered
  <1>4. RecordsAreOrdered'
    BY <1>0 DEF ClaimTask, SearchInv, SearchTypes, SearchAt, SearchTo, TerminalMatches, StepsSeeFiles, Creating,
           Searching, Recording, Concluded, RowsAreFinal, Final, RecordsAreOrdered, FirstLines
  <1>5. TaskIsEvident'
    BY <1>0, <1>effect DEF SearchInv, TaskIsEvident, ResultIdentity, RowsPinFiles, EventsAgree, Snapshot, FirstLines, Quiet
  <1>6. RunFollowsTask'
    BY <1>0 DEF ClaimTask, SearchInv, SearchTypes, SearchAt, SearchTo, TerminalMatches, TaskIsEvident,
           RunFollowsTask, Quiet
  <1> QED
    BY <1>1, <1>2, <1>3, <1>4, <1>5, <1>6 DEF SearchInv

LEMMA AdjudicateSeedsKeeps ==
  ASSUME SearchInv, AdjudicateSeeds
  PROVE  SearchInv'
  <1>1. /\ searcher.at = "seeds" /\ searcher'.at \in {"strategy", "raised"}
        /\ DOMAIN searcher' = DOMAIN searcher /\ UNCHANGED <<evidence, book>>
    BY DEF AdjudicateSeeds, SearchInv, SearchTypes, SearchAt, SearchTo
  <1> QED
    BY <1>1, SearcherMoves DEF Creating, Searching, Recording, Quiet, SearchInv, TaskIsEvident, RunFollowsTask

LEMMA ConfigureStrategyKeeps ==
  ASSUME SearchInv, ConfigureStrategy
  PROVE  SearchInv'
  <1>1. /\ searcher.at = "strategy" /\ searcher'.at \in {"raised", "record", "produce", "begin", "appended", "search"}
        /\ DOMAIN searcher' = DOMAIN searcher /\ UNCHANGED <<evidence, book>>
    BY DEF ConfigureStrategy, SearchInv, SearchTypes, SearchAt, SearchTo
  <1>2. (searcher'.at \in {"produce", "begin", "appended", "search"} => ~ Concluded) /\ (searcher'.at = "record" => Concluded)
    <2>1. CASE Concluded
      BY <1>1, <2>1 DEF ConfigureStrategy, SearchInv, SearchTypes, SearchTo, Concluded
    <2>2. CASE ~ Concluded
      BY <1>1, <2>2 DEF ConfigureStrategy, SearchInv, SearchTypes, SearchTo
    <2> QED
      BY <2>1, <2>2
  <1> QED
    BY <1>1, <1>2, SearcherMoves DEF Creating, Searching, Recording, Quiet, SearchInv, TaskIsEvident, RunFollowsTask

LEMMA BeginSearchKeeps ==
  ASSUME SearchInv, BeginSearch
  PROVE  SearchInv'
  <1>1. SearchTypes'
    BY DEF BeginSearch, SearchInv, SearchTypes, SearchAt, SearchTo
  <1>2. StepsSeeFiles'
    BY DEF BeginSearch, SearchInv, SearchTypes, SearchAt, SearchTo, StepsSeeFiles, Creating, Searching,
           Recording, Concluded
  <1>3. RowsAreFinal'
    BY DEF BeginSearch, SearchInv, SearchTypes, SearchAt, SearchTo, StepsSeeFiles, Creating, Searching,
           Recording, Concluded, RowsAreFinal, Final, RecordsAreOrdered
  <1>4. RecordsAreOrdered'
    BY DEF BeginSearch, SearchInv, SearchTypes, SearchAt, SearchTo, StepsSeeFiles, Creating, Searching,
           Recording, Concluded, RowsAreFinal, Final, RecordsAreOrdered, FirstLines
  <1>5. TaskIsEvident'
    BY DEF BeginSearch, SearchInv, SearchTypes, SearchAt, SearchTo, StepsSeeFiles, Creating, Searching,
           Recording, Concluded, Quiet, RowsAreFinal, Final, RecordsAreOrdered, FirstLines, TaskIsEvident,
           ResultIdentity, RowsPinFiles, EventsAgree, Snapshot
  <1>6. RunFollowsTask'
    BY DEF BeginSearch, SearchInv, SearchTypes, SearchAt, SearchTo, TaskIsEvident, RunFollowsTask, Quiet
  <1> QED
    BY <1>1, <1>2, <1>3, <1>4, <1>5, <1>6 DEF SearchInv

LEMMA RunProducerKeeps ==
  ASSUME SearchInv, RunProducer
  PROVE  SearchInv'
  <1>0. searcher.at = "produce" /\ searcher'.at = "record" /\ DOMAIN searcher' = DOMAIN searcher /\ book' = book
    BY DEF RunProducer, SearchInv, SearchTypes, SearchAt, SearchTo
  <1>effect. /\ \/ evidence' = [evidence EXCEPT !.status = "completed", !.lines = 1, !.covers = 1]
                \/ evidence' = [evidence EXCEPT !.status = "failed"]
                \/ evidence' = [evidence EXCEPT !.status = "cancelled"]
             /\ searcher.at = "produce" /\ searcher'.at = "record" /\ DOMAIN searcher' = DOMAIN searcher /\ book' = book
    BY <1>0 DEF RunProducer
  <1>1. SearchTypes'
    <2>1. CASE evidence' = [evidence EXCEPT !.status = "completed", !.lines = 1, !.covers = 1]
      BY <1>effect, <2>1 DEF SearchInv, SearchTypes
    <2>2. CASE evidence' = [evidence EXCEPT !.status = "failed"]
      BY <1>effect, <2>2 DEF SearchInv, SearchTypes
    <2>3. CASE evidence' = [evidence EXCEPT !.status = "cancelled"]
      BY <1>effect, <2>3 DEF SearchInv, SearchTypes
    <2> QED
      BY <1>effect, <2>1, <2>2, <2>3
  <1>2. StepsSeeFiles'
    <2>1. CASE evidence' = [evidence EXCEPT !.status = "completed", !.lines = 1, !.covers = 1]
      BY <1>effect, <2>1 DEF SearchInv, SearchTypes, StepsSeeFiles, Creating, Searching, Recording, Concluded
    <2>2. CASE evidence' = [evidence EXCEPT !.status = "failed"]
      BY <1>effect, <2>2 DEF SearchInv, SearchTypes, StepsSeeFiles, Creating, Searching, Recording, Concluded
    <2>3. CASE evidence' = [evidence EXCEPT !.status = "cancelled"]
      BY <1>effect, <2>3 DEF SearchInv, SearchTypes, StepsSeeFiles, Creating, Searching, Recording, Concluded
    <2> QED
      BY <1>effect, <2>1, <2>2, <2>3
  <1>3. RowsAreFinal'
    BY DEF RunProducer, SearchInv, SearchTypes, SearchAt, SearchTo, StepsSeeFiles, Creating, Searching,
           Recording, Concluded, RowsAreFinal, Final, RecordsAreOrdered
  <1>4. RecordsAreOrdered'
    BY DEF RunProducer, SearchInv, SearchTypes, SearchAt, SearchTo, StepsSeeFiles, Creating, Searching,
           Recording, Concluded, RowsAreFinal, Final, RecordsAreOrdered, FirstLines
  <1>5. TaskIsEvident'
    BY DEF RunProducer, SearchInv, SearchTypes, SearchAt, SearchTo, StepsSeeFiles, Creating, Searching,
           Recording, Concluded, Quiet, RowsAreFinal, Final, RecordsAreOrdered, FirstLines, TaskIsEvident,
           ResultIdentity, RowsPinFiles, EventsAgree, Snapshot
  <1>6. RunFollowsTask'
    BY DEF RunProducer, SearchInv, SearchTypes, SearchAt, SearchTo, TaskIsEvident, RunFollowsTask, Quiet
  <1> QED
    BY <1>1, <1>2, <1>3, <1>4, <1>5, <1>6 DEF SearchInv

LEMMA GenerateKeeps ==
  ASSUME SearchInv, Generate
  PROVE  SearchInv'
  <1>0. searcher.at = "search" /\ searcher'.at \in {"draft", "raised strategy"} /\ DOMAIN searcher' = DOMAIN searcher
    BY DEF Generate, SearchInv, SearchTypes, SearchAt, SearchTo
  <1>1. SearchTypes'
    BY <1>0 DEF Generate, SearchInv, SearchTypes, SearchAt, SearchTo, WithReceipt
  <1>2. StepsSeeFiles'
    BY <1>0 DEF Generate, SearchInv, SearchTypes, SearchAt, SearchTo, WithReceipt, StepsSeeFiles, Creating,
           Searching, Recording, Concluded
  <1>3. RowsAreFinal'
    BY <1>0 DEF Generate, SearchInv, SearchTypes, SearchAt, SearchTo, WithReceipt, StepsSeeFiles, Creating,
           Searching, Recording, Concluded, RowsAreFinal, Final, RecordsAreOrdered
  <1>4. RecordsAreOrdered'
    BY <1>0 DEF Generate, SearchInv, SearchTypes, SearchAt, SearchTo, WithReceipt, StepsSeeFiles, Creating,
           Searching, Recording, Concluded, RowsAreFinal, Final, RecordsAreOrdered, FirstLines
  <1>5. TaskIsEvident'
    BY <1>0 DEF Generate, SearchInv, SearchTypes, SearchAt, SearchTo, WithReceipt, StepsSeeFiles, Creating,
           Searching, Recording, Concluded, Quiet, RowsAreFinal, Final, RecordsAreOrdered, FirstLines,
           TaskIsEvident, ResultIdentity, RowsPinFiles, EventsAgree, Snapshot
  <1>6. RunFollowsTask'
    BY <1>0 DEF Generate, SearchInv, SearchTypes, SearchAt, SearchTo, WithReceipt, TaskIsEvident, RunFollowsTask,
           Quiet
  <1> QED
    BY <1>1, <1>2, <1>3, <1>4, <1>5, <1>6 DEF SearchInv

LEMMA AppendLineKeeps ==
  ASSUME SearchInv, AppendLine
  PROVE  SearchInv'
  <1>1. SearchTypes'
    BY DEF AppendLine, SearchInv, SearchTypes, SearchAt, SearchTo
  <1>2. StepsSeeFiles'
    BY DEF AppendLine, SearchInv, SearchTypes, SearchAt, SearchTo, StepsSeeFiles, Creating, Searching,
           Recording, Concluded
  <1>3. RowsAreFinal'
    BY DEF AppendLine, SearchInv, SearchTypes, SearchAt, SearchTo, StepsSeeFiles, Creating, Searching,
           Recording, Concluded, RowsAreFinal, Final, RecordsAreOrdered
  <1>4. RecordsAreOrdered'
    BY DEF AppendLine, SearchInv, SearchTypes, SearchAt, SearchTo, StepsSeeFiles, Creating, Searching,
           Recording, Concluded, RowsAreFinal, Final, RecordsAreOrdered, FirstLines
  <1>5. TaskIsEvident'
    BY DEF AppendLine, SearchInv, SearchTypes, SearchAt, SearchTo, StepsSeeFiles, Creating, Searching,
           Recording, Concluded, Quiet, RowsAreFinal, Final, RecordsAreOrdered, FirstLines, TaskIsEvident,
           ResultIdentity, RowsPinFiles, EventsAgree, Snapshot
  <1>6. RunFollowsTask'
    BY DEF AppendLine, SearchInv, SearchTypes, SearchAt, SearchTo, TaskIsEvident, RunFollowsTask, Quiet
  <1> QED
    BY <1>1, <1>2, <1>3, <1>4, <1>5, <1>6 DEF SearchInv

LEMMA CommitSearchKeeps ==
  ASSUME SearchInv, CommitSearch
  PROVE  SearchInv'
  <1>1. SearchTypes'
    BY DEF CommitSearch, SearchInv, SearchTypes, SearchAt, SearchTo
  <1>2. StepsSeeFiles'
    BY DEF CommitSearch, SearchInv, SearchTypes, SearchAt, SearchTo, StepsSeeFiles, Creating, Searching,
           Recording, Concluded
  <1>3. RowsAreFinal'
    BY DEF CommitSearch, SearchInv, SearchTypes, SearchAt, SearchTo, StepsSeeFiles, Creating, Searching,
           Recording, Concluded, RowsAreFinal, Final, RecordsAreOrdered
  <1>4. RecordsAreOrdered'
    BY DEF CommitSearch, SearchInv, SearchTypes, SearchAt, SearchTo, StepsSeeFiles, Creating, Searching,
           Recording, Concluded, RowsAreFinal, Final, RecordsAreOrdered, FirstLines
  <1>5. TaskIsEvident'
    BY DEF CommitSearch, SearchInv, SearchTypes, SearchAt, SearchTo, StepsSeeFiles, Creating, Searching,
           Recording, Concluded, Quiet, RowsAreFinal, Final, RecordsAreOrdered, FirstLines, TaskIsEvident,
           ResultIdentity, RowsPinFiles, EventsAgree, Snapshot
  <1>6. RunFollowsTask'
    BY DEF CommitSearch, SearchInv, SearchTypes, SearchAt, SearchTo, TaskIsEvident, RunFollowsTask, Quiet
  <1> QED
    BY <1>1, <1>2, <1>3, <1>4, <1>5, <1>6 DEF SearchInv

LEMMA ObserveStateKeeps ==
  ASSUME SearchInv, ObserveState
  PROVE  SearchInv'
  <1>1. SearchTypes'
    BY DEF ObserveState, SearchInv, SearchTypes, SearchAt, SearchTo, SeedsRecorded
  <1>2. StepsSeeFiles'
    BY DEF ObserveState, SearchInv, SearchTypes, SearchAt, SearchTo, SeedsRecorded, StepsSeeFiles, Creating,
           Searching, Recording, Concluded
  <1>3. RowsAreFinal'
    BY DEF ObserveState, SearchInv, SearchTypes, SearchAt, SearchTo, SeedsRecorded, StepsSeeFiles, Creating,
           Searching, Recording, Concluded, RowsAreFinal, Final, RecordsAreOrdered
  <1>4. RecordsAreOrdered'
    BY DEF ObserveState, SearchInv, SearchTypes, SearchAt, SearchTo, SeedsRecorded, StepsSeeFiles, Creating,
           Searching, Recording, Concluded, RowsAreFinal, Final, RecordsAreOrdered, FirstLines
  <1>5. TaskIsEvident'
    BY DEF ObserveState, SearchInv, SearchTypes, SearchAt, SearchTo, SeedsRecorded, StepsSeeFiles, Creating,
           Searching, Recording, Concluded, Quiet, RowsAreFinal, Final, RecordsAreOrdered, FirstLines,
           TaskIsEvident, ResultIdentity, RowsPinFiles, EventsAgree, Snapshot
  <1>6. RunFollowsTask'
    BY DEF ObserveState, SearchInv, SearchTypes, SearchAt, SearchTo, SeedsRecorded, TaskIsEvident,
           RunFollowsTask, Quiet
  <1> QED
    BY <1>1, <1>2, <1>3, <1>4, <1>5, <1>6 DEF SearchInv

LEMMA ConcludeSearchKeeps ==
  ASSUME SearchInv, ConcludeSearch
  PROVE  SearchInv'
  <1>1. SearchTypes'
    BY DEF ConcludeSearch, SearchInv, SearchTypes, SearchAt, SearchTo
  <1>2. StepsSeeFiles'
    BY DEF ConcludeSearch, SearchInv, SearchTypes, SearchAt, SearchTo, StepsSeeFiles, Creating, Searching,
           Recording, Concluded
  <1>3. RowsAreFinal'
    BY DEF ConcludeSearch, SearchInv, SearchTypes, SearchAt, SearchTo, StepsSeeFiles, Creating, Searching,
           Recording, Concluded, RowsAreFinal, Final, RecordsAreOrdered
  <1>4. RecordsAreOrdered'
    BY DEF ConcludeSearch, SearchInv, SearchTypes, SearchAt, SearchTo, StepsSeeFiles, Creating, Searching,
           Recording, Concluded, RowsAreFinal, Final, RecordsAreOrdered, FirstLines
  <1>5. TaskIsEvident'
    BY DEF ConcludeSearch, SearchInv, SearchTypes, SearchAt, SearchTo, StepsSeeFiles, Creating, Searching,
           Recording, Concluded, Quiet, RowsAreFinal, Final, RecordsAreOrdered, FirstLines, TaskIsEvident,
           ResultIdentity, RowsPinFiles, EventsAgree, Snapshot
  <1>6. RunFollowsTask'
    BY DEF ConcludeSearch, SearchInv, SearchTypes, SearchAt, SearchTo, TaskIsEvident, RunFollowsTask, Quiet
  <1> QED
    BY <1>1, <1>2, <1>3, <1>4, <1>5, <1>6 DEF SearchInv

LEMMA RaiseSearchKeeps ==
  ASSUME SearchInv, RaiseSearch
  PROVE  SearchInv'
  <1>1. /\ searcher.at \in {"begin", "produce", "search", "draft", "appended", "observed"} /\ searcher'.at = "raised strategy"
        /\ DOMAIN searcher' = DOMAIN searcher /\ UNCHANGED <<evidence, book>>
    BY DEF RaiseSearch, SearchInv, SearchTypes, SearchAt, SearchTo
  <1> QED
    BY <1>1, SearcherMoves DEF Creating, Searching, Recording, Quiet, SearchInv, TaskIsEvident, RunFollowsTask

LEMMA RecordSeedsKeeps ==
  ASSUME SearchInv, RecordSeeds
  PROVE  SearchInv'
  <1>1. SearchTypes'
    BY DEF RecordSeeds, SearchInv, SearchTypes, SearchAt, SearchTo, SeedsRecorded
  <1>2. StepsSeeFiles'
    BY DEF RecordSeeds, SearchInv, SearchTypes, SearchAt, SearchTo, SeedsRecorded, StepsSeeFiles, Creating,
           Searching, Recording, Concluded
  <1>3. RowsAreFinal'
    BY DEF RecordSeeds, SearchInv, SearchTypes, SearchAt, SearchTo, SeedsRecorded, StepsSeeFiles, Creating,
           Searching, Recording, Concluded, RowsAreFinal, Final, RecordsAreOrdered
  <1>4. RecordsAreOrdered'
    BY DEF RecordSeeds, SearchInv, SearchTypes, SearchAt, SearchTo, SeedsRecorded, StepsSeeFiles, Creating,
           Searching, Recording, Concluded, RowsAreFinal, Final, RecordsAreOrdered, FirstLines
  <1>5. TaskIsEvident'
    BY DEF RecordSeeds, SearchInv, SearchTypes, SearchAt, SearchTo, SeedsRecorded, StepsSeeFiles, Creating,
           Searching, Recording, Concluded, Quiet, RowsAreFinal, Final, RecordsAreOrdered, FirstLines,
           TaskIsEvident, ResultIdentity, RowsPinFiles, EventsAgree, Snapshot
  <1>6. RunFollowsTask'
    BY DEF RecordSeeds, SearchInv, SearchTypes, SearchAt, SearchTo, SeedsRecorded, TaskIsEvident,
           RunFollowsTask, Quiet
  <1> QED
    BY <1>1, <1>2, <1>3, <1>4, <1>5, <1>6 DEF SearchInv

\* Each candidate is indexed before the result is written.
LEMMA IndexRecordsKeeps ==
  ASSUME SearchInv, IndexRecords
  PROVE  SearchInv'
  <1>0. searcher.at \in {"index", "index again"} /\ searcher'.at \in {"index", "index again", "write result", "off"} /\ DOMAIN searcher' = DOMAIN searcher
    BY DEF IndexRecords, SearchInv, SearchTypes, SearchAt, SearchTo
  <1>effect. /\ searcher'.at \in {"write result", "off"} /\ searcher'.at # searcher.at => book' = book /\ book.rows = FirstLines(evidence.lines)
             /\ searcher'.at \in {"index", "index again"} => searcher' = searcher /\ book.rows # FirstLines(evidence.lines)
             /\ searcher'.at = "write result" => searcher.at = "index"
    BY DEF IndexRecords, SearchInv, SearchTypes, SearchAt, SearchTo
  <1>1. SearchTypes'
    BY <1>0, <1>effect DEF IndexRecords, SearchInv, SearchTypes, SearchAt, SearchTo, FirstLines
  <1>2. StepsSeeFiles'
    BY <1>0, <1>effect DEF IndexRecords, SearchInv, SearchTypes, SearchAt, SearchTo, FirstLines, StepsSeeFiles, Creating,
           Searching, Recording, Concluded
  <1>3. RowsAreFinal'
    BY <1>0, <1>effect DEF IndexRecords, SearchInv, SearchTypes, SearchAt, SearchTo, FirstLines, StepsSeeFiles, Creating,
           Searching, Recording, Concluded, RowsAreFinal, Final, RecordsAreOrdered
  <1>4. RecordsAreOrdered'
    BY <1>0, <1>effect DEF IndexRecords, SearchInv, SearchTypes, SearchAt, SearchTo, FirstLines, StepsSeeFiles, Creating,
           Searching, Recording, Concluded, RowsAreFinal, Final, RecordsAreOrdered
  <1>5. TaskIsEvident'
    <2>1. evidence' = evidence /\ book'.task = book.task
      BY DEF IndexRecords, SearchInv, SearchTypes
    <2>2. ASSUME book.task = "succeeded"
          PROVE  book' = book /\ searcher'.at \in Quiet
      <3>1. book.rows = FirstLines(evidence.lines) /\ searcher.at = "index again"
        BY <1>0, <2>2 DEF SearchInv, TaskIsEvident, Quiet
      <3>2. book' = book
        BY <3>1 DEF IndexRecords
      <3>3. searcher'.at = "off"
        BY <3>1 DEF IndexRecords, SearchAt, SearchTo, SearchInv, SearchTypes
      <3> QED
        BY <3>2, <3>3 DEF Quiet
    <2> QED
      BY <2>1, <2>2 DEF SearchInv, TaskIsEvident, ResultIdentity, RowsPinFiles, EventsAgree, Snapshot, FirstLines
  <1>6. RunFollowsTask'
    BY <1>0, <1>effect DEF IndexRecords, SearchInv, SearchTypes, SearchAt, SearchTo, FirstLines, TaskIsEvident, RunFollowsTask,
           Quiet
  <1> QED
    BY <1>1, <1>2, <1>3, <1>4, <1>5, <1>6 DEF SearchInv

LEMMA WriteResultKeeps ==
  ASSUME SearchInv, WriteResult
  PROVE  SearchInv'
  <1>1. SearchTypes'
    BY DEF WriteResult, SearchInv, SearchTypes, SearchAt, SearchTo
  <1>2. StepsSeeFiles'
    BY DEF WriteResult, SearchInv, SearchTypes, SearchAt, SearchTo, StepsSeeFiles, Creating, Searching,
           Recording, Concluded
  <1>3. RowsAreFinal'
    BY DEF WriteResult, SearchInv, SearchTypes, SearchAt, SearchTo, StepsSeeFiles, Creating, Searching,
           Recording, Concluded, RowsAreFinal, Final, RecordsAreOrdered
  <1>4. RecordsAreOrdered'
    BY DEF WriteResult, SearchInv, SearchTypes, SearchAt, SearchTo, StepsSeeFiles, Creating, Searching,
           Recording, Concluded, RowsAreFinal, Final, RecordsAreOrdered, FirstLines
  <1>5. TaskIsEvident'
    BY DEF WriteResult, SearchInv, SearchTypes, SearchAt, SearchTo, StepsSeeFiles, Creating, Searching,
           Recording, Concluded, Quiet, RowsAreFinal, Final, RecordsAreOrdered, FirstLines, TaskIsEvident,
           ResultIdentity, RowsPinFiles, EventsAgree, Snapshot
  <1>6. RunFollowsTask'
    BY DEF WriteResult, SearchInv, SearchTypes, SearchAt, SearchTo, TaskIsEvident, RunFollowsTask, Quiet
  <1> QED
    BY <1>1, <1>2, <1>3, <1>4, <1>5, <1>6 DEF SearchInv

\* A row pins what the file holds at the end, or it is there already.
LEMMA RecordFilesKeeps ==
  ASSUME SearchInv, RecordFiles
  PROVE  SearchInv'
  <1>1. SearchTypes'
    BY DEF RecordFiles, SearchInv, SearchTypes, SearchAt, SearchTo, Snapshot
  <1>2. StepsSeeFiles'
    BY DEF RecordFiles, SearchInv, SearchTypes, SearchAt, SearchTo, Snapshot, StepsSeeFiles, Creating,
           Searching, Recording, Concluded
  <1>3. RowsAreFinal'
    BY DEF RecordFiles, SearchInv, SearchTypes, SearchAt, SearchTo, Snapshot, StepsSeeFiles, Creating,
           Searching, Recording, Concluded, RowsAreFinal, Final, RecordsAreOrdered
  <1>4. RecordsAreOrdered'
    BY DEF RecordFiles, SearchInv, SearchTypes, SearchAt, SearchTo, Snapshot, StepsSeeFiles, Creating,
           Searching, Recording, Concluded, RowsAreFinal, Final, RecordsAreOrdered, FirstLines
  <1>5. TaskIsEvident'
    BY DEF RecordFiles, SearchInv, SearchTypes, SearchAt, SearchTo, Snapshot, StepsSeeFiles, Creating,
           Searching, Recording, Concluded, Quiet, RowsAreFinal, Final, RecordsAreOrdered, FirstLines,
           TaskIsEvident, ResultIdentity, RowsPinFiles, EventsAgree
  <1>6. RunFollowsTask'
    BY DEF RecordFiles, SearchInv, SearchTypes, SearchAt, SearchTo, Snapshot, TaskIsEvident, RunFollowsTask,
           Quiet
  <1> QED
    BY <1>1, <1>2, <1>3, <1>4, <1>5, <1>6 DEF SearchInv

LEMMA FinishEventKeeps ==
  ASSUME SearchInv, FinishEvent
  PROVE  SearchInv'
  <1>1. SearchTypes'
    BY DEF FinishEvent, SearchInv, SearchTypes, SearchAt, SearchTo
  <1>2. StepsSeeFiles'
    BY DEF FinishEvent, SearchInv, SearchTypes, SearchAt, SearchTo, StepsSeeFiles, Creating, Searching,
           Recording, Concluded
  <1>3. RowsAreFinal'
    BY DEF FinishEvent, SearchInv, SearchTypes, SearchAt, SearchTo, StepsSeeFiles, Creating, Searching,
           Recording, Concluded, RowsAreFinal, Final, RecordsAreOrdered
  <1>4. RecordsAreOrdered'
    BY DEF FinishEvent, SearchInv, SearchTypes, SearchAt, SearchTo, StepsSeeFiles, Creating, Searching,
           Recording, Concluded, RowsAreFinal, Final, RecordsAreOrdered, FirstLines
  <1>5. TaskIsEvident'
    BY DEF FinishEvent, SearchInv, SearchTypes, SearchAt, SearchTo, StepsSeeFiles, Creating, Searching,
           Recording, Concluded, Quiet, RowsAreFinal, Final, RecordsAreOrdered, FirstLines, TaskIsEvident,
           ResultIdentity, RowsPinFiles, EventsAgree, Snapshot
  <1>6. RunFollowsTask'
    BY DEF FinishEvent, SearchInv, SearchTypes, SearchAt, SearchTo, TaskIsEvident, RunFollowsTask, Quiet
  <1> QED
    BY <1>1, <1>2, <1>3, <1>4, <1>5, <1>6 DEF SearchInv

\* A task succeeds with everything recorded.
LEMMA FinishSearchKeeps ==
  ASSUME SearchInv, FinishSearch
  PROVE  SearchInv'
  <1>1. SearchTypes'
    BY DEF FinishSearch, SearchInv, SearchTypes, SearchAt, SearchTo, FinishedTask
  <1>2. StepsSeeFiles'
    BY DEF FinishSearch, SearchInv, SearchTypes, SearchAt, SearchTo, FinishedTask, StepsSeeFiles, Creating,
           Searching, Recording, Concluded
  <1>3. RowsAreFinal'
    BY DEF FinishSearch, SearchInv, SearchTypes, SearchAt, SearchTo, FinishedTask, StepsSeeFiles, Creating,
           Searching, Recording, Concluded, RowsAreFinal, Final, RecordsAreOrdered
  <1>4. RecordsAreOrdered'
    BY DEF FinishSearch, SearchInv, SearchTypes, SearchAt, SearchTo, FinishedTask, StepsSeeFiles, Creating,
           Searching, Recording, Concluded, RowsAreFinal, Final, RecordsAreOrdered, FirstLines
  <1>5. TaskIsEvident'
    BY DEF FinishSearch, SearchInv, SearchTypes, SearchAt, SearchTo, FinishedTask, StepsSeeFiles, Creating,
           Searching, Recording, Concluded, Quiet, RowsAreFinal, Final, RecordsAreOrdered, FirstLines,
           TaskIsEvident, ResultIdentity, RowsPinFiles, EventsAgree, Snapshot
  <1>6. RunFollowsTask'
    BY DEF FinishSearch, SearchInv, SearchTypes, SearchAt, SearchTo, FinishedTask, TaskIsEvident,
           RunFollowsTask, Quiet
  <1> QED
    BY <1>1, <1>2, <1>3, <1>4, <1>5, <1>6 DEF SearchInv

LEMMA IndexRaisedKeeps ==
  ASSUME SearchInv, IndexRaised
  PROVE  SearchInv'
  <1>1. SearchTypes'
    BY DEF IndexRaised, SearchInv, SearchTypes, SearchAt, SearchTo, FirstLines
  <1>2. StepsSeeFiles'
    BY DEF IndexRaised, SearchInv, SearchTypes, SearchAt, SearchTo, FirstLines, StepsSeeFiles, Creating,
           Searching, Recording, Concluded
  <1>3. RowsAreFinal'
    BY DEF IndexRaised, SearchInv, SearchTypes, SearchAt, SearchTo, FirstLines, StepsSeeFiles, Creating,
           Searching, Recording, Concluded, RowsAreFinal, Final, RecordsAreOrdered
  <1>4. RecordsAreOrdered'
    BY DEF IndexRaised, SearchInv, SearchTypes, SearchAt, SearchTo, FirstLines, StepsSeeFiles, Creating,
           Searching, Recording, Concluded, RowsAreFinal, Final, RecordsAreOrdered
  <1>5. TaskIsEvident'
    BY DEF IndexRaised, SearchInv, SearchTypes, SearchAt, SearchTo, FirstLines, StepsSeeFiles, Creating,
           Searching, Recording, Concluded, Quiet, RowsAreFinal, Final, RecordsAreOrdered, TaskIsEvident,
           ResultIdentity, RowsPinFiles, EventsAgree, Snapshot
  <1>6. RunFollowsTask'
    BY DEF IndexRaised, SearchInv, SearchTypes, SearchAt, SearchTo, FirstLines, TaskIsEvident, RunFollowsTask,
           Quiet
  <1> QED
    BY <1>1, <1>2, <1>3, <1>4, <1>5, <1>6 DEF SearchInv

LEMMA FailSearchKeeps ==
  ASSUME SearchInv, FailSearch
  PROVE  SearchInv'
  <1>1. SearchTypes'
    BY DEF FailSearch, SearchInv, SearchTypes, SearchAt, SearchTo, FinishedTask
  <1>2. StepsSeeFiles'
    BY DEF FailSearch, SearchInv, SearchTypes, SearchAt, SearchTo, FinishedTask, StepsSeeFiles, Creating,
           Searching, Recording, Concluded
  <1>3. RowsAreFinal'
    BY DEF FailSearch, SearchInv, SearchTypes, SearchAt, SearchTo, FinishedTask, StepsSeeFiles, Creating,
           Searching, Recording, Concluded, RowsAreFinal, Final, RecordsAreOrdered
  <1>4. RecordsAreOrdered'
    BY DEF FailSearch, SearchInv, SearchTypes, SearchAt, SearchTo, FinishedTask, StepsSeeFiles, Creating,
           Searching, Recording, Concluded, RowsAreFinal, Final, RecordsAreOrdered, FirstLines
  <1>5. TaskIsEvident'
    BY DEF FailSearch, SearchInv, SearchTypes, SearchAt, SearchTo, FinishedTask, StepsSeeFiles, Creating,
           Searching, Recording, Concluded, Quiet, RowsAreFinal, Final, RecordsAreOrdered, FirstLines,
           TaskIsEvident, ResultIdentity, RowsPinFiles, EventsAgree, Snapshot
  <1>6. RunFollowsTask'
    BY DEF FailSearch, SearchInv, SearchTypes, SearchAt, SearchTo, FinishedTask, TaskIsEvident, RunFollowsTask,
           Quiet
  <1> QED
    BY <1>1, <1>2, <1>3, <1>4, <1>5, <1>6 DEF SearchInv

\* The run takes the state of its task.
LEMMA SettleRunKeeps ==
  ASSUME SearchInv, SettleRun
  PROVE  SearchInv'
  <1>1. SearchTypes'
    BY DEF SettleRun, SearchInv, SearchTypes, SearchAt, SearchTo
  <1>2. StepsSeeFiles'
    BY DEF SettleRun, SearchInv, SearchTypes, SearchAt, SearchTo, StepsSeeFiles, Creating, Searching,
           Recording, Concluded
  <1>3. RowsAreFinal'
    BY DEF SettleRun, SearchInv, SearchTypes, SearchAt, SearchTo, StepsSeeFiles, Creating, Searching,
           Recording, Concluded, RowsAreFinal, Final, RecordsAreOrdered
  <1>4. RecordsAreOrdered'
    BY DEF SettleRun, SearchInv, SearchTypes, SearchAt, SearchTo, StepsSeeFiles, Creating, Searching,
           Recording, Concluded, RowsAreFinal, Final, RecordsAreOrdered, FirstLines
  <1>5. TaskIsEvident'
    BY DEF SettleRun, SearchInv, SearchTypes, SearchAt, SearchTo, StepsSeeFiles, Creating, Searching,
           Recording, Concluded, Quiet, RowsAreFinal, Final, RecordsAreOrdered, FirstLines, TaskIsEvident,
           ResultIdentity, RowsPinFiles, EventsAgree, Snapshot
  <1>6. RunFollowsTask'
    BY DEF SettleRun, SearchInv, SearchTypes, SearchAt, SearchTo, TaskIsEvident, RunFollowsTask, Quiet
  <1> QED
    BY <1>1, <1>2, <1>3, <1>4, <1>5, <1>6 DEF SearchInv

LEMMA CancelRunKeeps ==
  ASSUME SearchInv, CancelRun
  PROVE  SearchInv'
  <1>1. SearchTypes'
    BY DEF CancelRun, SearchInv, SearchTypes, SearchAt, SearchTo
  <1>2. StepsSeeFiles'
    BY DEF CancelRun, SearchInv, SearchTypes, SearchAt, SearchTo, StepsSeeFiles, Creating, Searching,
           Recording, Concluded
  <1>3. RowsAreFinal'
    BY DEF CancelRun, SearchInv, SearchTypes, SearchAt, SearchTo, StepsSeeFiles, Creating, Searching,
           Recording, Concluded, RowsAreFinal, Final, RecordsAreOrdered
  <1>4. RecordsAreOrdered'
    BY DEF CancelRun, SearchInv, SearchTypes, SearchAt, SearchTo, StepsSeeFiles, Creating, Searching,
           Recording, Concluded, RowsAreFinal, Final, RecordsAreOrdered, FirstLines
  <1>5. TaskIsEvident'
    BY DEF CancelRun, SearchInv, SearchTypes, SearchAt, SearchTo, StepsSeeFiles, Creating, Searching,
           Recording, Concluded, Quiet, RowsAreFinal, Final, RecordsAreOrdered, FirstLines, TaskIsEvident,
           ResultIdentity, RowsPinFiles, EventsAgree, Snapshot
  <1>6. RunFollowsTask'
    BY DEF CancelRun, SearchInv, SearchTypes, SearchAt, SearchTo, TaskIsEvident, RunFollowsTask, Quiet
  <1> QED
    BY <1>1, <1>2, <1>3, <1>4, <1>5, <1>6 DEF SearchInv

LEMMA KillSearchKeeps ==
  ASSUME SearchInv, KillSearch
  PROVE  SearchInv'
  <1>1. /\ searcher'.at = "off"
        /\ DOMAIN searcher' = DOMAIN searcher /\ UNCHANGED <<evidence, book>>
    BY DEF KillSearch, SearchInv, SearchTypes, SearchAt, SearchTo
  <1> QED
    BY <1>1, SearcherMoves DEF Creating, Searching, Recording, Quiet, SearchInv, TaskIsEvident, RunFollowsTask

\* A result that is torn belongs to a search that has not succeeded.
LEMMA TearFileKeeps ==
  ASSUME SearchInv, TearFile
  PROVE  SearchInv'
  <1>1. SearchTypes'
    BY DEF TearFile, SearchInv, SearchTypes, SearchAt
  <1>2. StepsSeeFiles'
    BY DEF TearFile, SearchInv, SearchTypes, SearchAt, StepsSeeFiles, Creating, Searching, Recording, Concluded
  <1>3. RowsAreFinal'
    BY DEF TearFile, SearchInv, SearchTypes, SearchAt, StepsSeeFiles, Creating, Searching, Recording,
           Concluded, RowsAreFinal, Final, RecordsAreOrdered
  <1>4. RecordsAreOrdered'
    BY DEF TearFile, SearchInv, SearchTypes, SearchAt, StepsSeeFiles, Creating, Searching, Recording,
           Concluded, RowsAreFinal, Final, RecordsAreOrdered, FirstLines
  <1>5. TaskIsEvident'
    BY DEF TearFile, SearchInv, SearchTypes, SearchAt, StepsSeeFiles, Creating, Searching, Recording,
           Concluded, Quiet, RowsAreFinal, Final, RecordsAreOrdered, FirstLines, TaskIsEvident, ResultIdentity,
           RowsPinFiles, EventsAgree, Snapshot
  <1>6. RunFollowsTask'
    BY DEF TearFile, SearchInv, SearchTypes, SearchAt, TaskIsEvident, RunFollowsTask, Quiet
  <1> QED
    BY <1>1, <1>2, <1>3, <1>4, <1>5, <1>6 DEF SearchInv

LEMMA SearchInvHolds == SearchSpec => []SearchInv
  <1>1. SearchInit => SearchInv
    BY DEF SearchInit, NewBook, SearchInv, SearchTypes, StepsSeeFiles, RowsAreFinal, RecordsAreOrdered, TaskIsEvident,
           RunFollowsTask, Creating, Searching, Recording, Concluded
  <1>2. SearchInv /\ [SearchNext]_searchVars => SearchInv'
    <2> SUFFICES ASSUME SearchInv, [SearchNext]_searchVars PROVE SearchInv'
      OBVIOUS
    <2>1. CASE SearchNext
      BY <2>1, EvolvesKeeps, CreateEvolutionRunKeeps, DetachKeeps, EnterKeeps, RecoverTaskKeeps, ClaimTaskKeeps,
         AdjudicateSeedsKeeps, ConfigureStrategyKeeps, BeginSearchKeeps, RunProducerKeeps, GenerateKeeps,
         AppendLineKeeps, CommitSearchKeeps, ObserveStateKeeps, ConcludeSearchKeeps, RaiseSearchKeeps,
         RecordSeedsKeeps, IndexRecordsKeeps, WriteResultKeeps, RecordFilesKeeps, FinishEventKeeps,
         FinishSearchKeeps, IndexRaisedKeeps, FailSearchKeeps, SettleRunKeeps, CancelRunKeeps,
         KillSearchKeeps, TearFileKeeps
      DEF SearchNext
    <2>2. CASE UNCHANGED searchVars
      <3>1. SearchTypes' /\ StepsSeeFiles'
        BY <2>2 DEF searchVars, SearchInv, SearchTypes, StepsSeeFiles, Concluded
      <3>2. RowsAreFinal' /\ RecordsAreOrdered'
        BY <2>2 DEF searchVars, SearchInv, RowsAreFinal, RecordsAreOrdered, Concluded, Final, FirstLines
      <3>3. TaskIsEvident' /\ RunFollowsTask'
        BY <2>2 DEF searchVars, SearchInv, TaskIsEvident, RunFollowsTask, ResultIdentity, RowsPinFiles, EventsAgree,
                    Snapshot, FirstLines
      <3> QED
        BY <3>1, <3>2, <3>3 DEF SearchInv
    <2> QED
      BY <2>1, <2>2
  <1> QED
    BY <1>1, <1>2, PTL DEF SearchSpec

\* Wherever the search of a run is killed, torn, resumed or cancelled: a run that succeeded has whole
\* files, rows that pin them, one result in its events, and every candidate indexed (run_evolution).
THEOREM SucceededRunsAreEvident == SearchSpec => []SucceededIsEvident
  <1>1. SearchInv => SucceededIsEvident
    BY DEF SearchInv, RunFollowsTask, TaskIsEvident, SucceededIsEvident
  <1> QED
    BY <1>1, SearchInvHolds, PTL

-----------------------------------------------------------------------------
(* Programs that are handed over: the inductive invariant.                  *)

\* A signature of the database stands for the rows it had.
ProducerKeepsPast ==
    /\ edits \in Nat /\ DOMAIN db = {"rows", "sig", "open"}
    /\ db.sig \in 1 .. edits + 1 /\ edits <= MaxEdits
    /\ DOMAIN past = 1 .. MaxEdits + 1 /\ past[db.sig] = db.rows
    /\ DOMAIN export = {"env", "lineage", "files", "by", "sig"}

\* What an exporter holds belonged to the signature it opened; its lineage does once that was checked again.
ExporterHolds(e) ==
    LET x == exporter[e] IN
    /\ DOMAIN x = {"pc", "sig", "rows", "lineage"}
    /\ x.pc \in {"rows", "check", "root", "commit"} =>
         /\ x.sig \in 1 .. db.sig
         /\ \A p \in DOMAIN x.rows : past[x.sig][p] = x.rows[p]
         /\ DOMAIN x.lineage \subseteq DOMAIN x.rows
         /\ \A p \in DOMAIN x.lineage : x.lineage[p] = Ancestors(p)
         /\ x.sig = db.sig => \A p \in DOMAIN x.lineage : Ancestors(p) \subseteq Present(db.rows)
    /\ x.pc \in {"check", "root", "commit"} => DOMAIN x.lineage = DOMAIN x.rows
    /\ x.pc \in {"root", "commit"} => \A p \in DOMAIN x.lineage : Ancestors(p) \subseteq Present(past[x.sig])

ExportersHold == DOMAIN exporter = Exporters /\ \A e \in Exporters : ExporterHolds(e)

\* What is published is of a signature that the database has had.
ExportIsPast == Published => export.sig \in 1 .. db.sig

\* The private copy is the source that was declared, until something else is written over it.
CopyIsDeclared ==
    /\ DOMAIN admission = DOMAIN AdmissionIdle
    /\ DOMAIN admission.copy = {"c", "v"}
    /\ admission.pc \in {"evaluate", "recheck"} =>
         /\ admission.stamp = 0 /\ admission.original.c = admission.seeds[admission.seed]
         /\ CopyUnchanged => admission.copy.c = admission.original.c
    /\ admission.pc = "recheck" /\ CopyUnchanged => admission.seen = admission.original.c

HandoffInv == ProducerKeepsPast /\ ExportersHold /\ ExportIsPast /\ ExportIsSnapshot /\ CopyIsDeclared /\ AdmittedAsEvaluated

-----------------------------------------------------------------------------
(* Each step of the producer, of an exporter and of an admission keeps it.  *)

\* Neither the database nor an exporter moves.
LEMMA ExportersStay ==
  ASSUME HandoffInv, UNCHANGED <<exporter, past>>, UNCHANGED <<db.rows, db.sig>>
  PROVE  ExportersHold'
  <1>1. \A e \in Exporters : ExporterHolds(e)'
    BY DEF HandoffInv, ExportersHold, ExporterHolds, Present
  <1> QED
    BY <1>1 DEF HandoffInv, ExportersHold

\* One exporter moves.
LEMMA OneExporterMoves ==
  ASSUME HandoffInv, NEW e \in Exporters, UNCHANGED <<db, past>>, DOMAIN exporter' = DOMAIN exporter,
         \A f \in Exporters : f # e => exporter'[f] = exporter[f], ExporterHolds(e)'
  PROVE  ExportersHold'
  <1>1. \A f \in Exporters : f # e => ExporterHolds(f)'
    BY DEF HandoffInv, ExportersHold, ExporterHolds, Present
  <1> QED
    BY <1>1 DEF HandoffInv, ExportersHold

\* An admission sees neither the database nor the exporters.
LEMMA AdmissionMoves ==
  ASSUME HandoffInv, UNCHANGED <<producer, exporter, export>>, edits' \in {edits, edits + 1}, edits' <= MaxEdits,
         CopyIsDeclared', AdmittedAsEvaluated'
  PROVE  HandoffInv'
  <1>1. ProducerKeepsPast' /\ ExportIsPast' /\ ExportIsSnapshot'
    BY DEF HandoffInv, producer, ProducerKeepsPast, ExportIsPast, ExportIsSnapshot, Published, Present
  <1>2. ExportersHold'
    BY ExportersStay DEF producer
  <1> QED
    BY <1>1, <1>2 DEF HandoffInv

LEMMA AdmissionStays ==
  ASSUME HandoffInv, UNCHANGED admission
  PROVE  CopyIsDeclared' /\ AdmittedAsEvaluated'
  BY DEF HandoffInv, CopyIsDeclared, AdmittedAsEvaluated, CopyUnchanged

LEMMA BeginTransactionKeeps ==
  ASSUME HandoffInv, BeginTransaction
  PROVE  HandoffInv'
  <1>1. UNCHANGED <<db.rows, db.sig>> /\ DOMAIN db' = DOMAIN db
    BY DEF BeginTransaction, HandoffInv, ProducerKeepsPast
  <1>2. ProducerKeepsPast' /\ ExportIsPast' /\ ExportIsSnapshot'
    BY <1>1 DEF BeginTransaction, HandoffInv, ProducerKeepsPast, ExportIsPast, ExportIsSnapshot, Published, Present
  <1>3. ExportersHold'
    BY <1>1, ExportersStay DEF BeginTransaction
  <1>4. CopyIsDeclared' /\ AdmittedAsEvaluated'
    BY AdmissionStays DEF BeginTransaction
  <1> QED
    BY <1>2, <1>3, <1>4 DEF HandoffInv

\* A transaction gives its rows a signature of their own: the past is not rewritten.
LEMMA EndTransactionKeeps ==
  ASSUME HandoffInv, EndTransaction
  PROVE  HandoffInv'
  <1>1. /\ DOMAIN db' = {"rows", "sig", "open"} /\ db'.sig = db.sig + 1 /\ edits' = edits + 1 /\ edits' <= MaxEdits
        /\ past' = [past EXCEPT ![db.sig + 1] = db'.rows] /\ UNCHANGED <<exporter, export, admission>>
    BY HandoffAssumption DEF EndTransaction, Edit, HandoffInv, ProducerKeepsPast
  <1>2. ProducerKeepsPast'
    BY <1>1, HandoffAssumption DEF HandoffInv, ProducerKeepsPast
  <1>3. \A n \in 1 .. db.sig : past'[n] = past[n]
    BY <1>1 DEF HandoffInv, ProducerKeepsPast
  <1>4. ExportIsPast' /\ ExportIsSnapshot'
    BY <1>1, <1>3 DEF HandoffInv, ProducerKeepsPast, ExportIsPast, ExportIsSnapshot, Published, Present
  <1>5. ExportersHold'
    <2>1. \A e \in Exporters : ExporterHolds(e)'
      <3> SUFFICES ASSUME NEW e \in Exporters PROVE ExporterHolds(e)'
        OBVIOUS
      <3>1. ExporterHolds(e) /\ exporter'[e] = exporter[e]
        BY <1>1 DEF HandoffInv, ExportersHold
      <3>2. exporter[e].pc \in {"rows", "check", "root", "commit"} =>
              /\ exporter[e].sig \in 1 .. db'.sig /\ exporter[e].sig # db'.sig
              /\ past'[exporter[e].sig] = past[exporter[e].sig]
        BY <1>1, <1>3, <3>1 DEF ExporterHolds, HandoffInv, ProducerKeepsPast
      <3> QED
        BY <3>1, <3>2 DEF ExporterHolds, Present
    <2> QED
      BY <1>1, <2>1 DEF HandoffInv, ExportersHold
  <1>6. CopyIsDeclared' /\ AdmittedAsEvaluated'
    BY <1>1, AdmissionStays
  <1> QED
    BY <1>2, <1>4, <1>5, <1>6 DEF HandoffInv

LEMMA WriteSourceKeeps ==
  ASSUME HandoffInv, WriteSource
  PROVE  HandoffInv'
  <1>1. edits' = edits + 1 /\ edits' <= MaxEdits /\ UNCHANGED <<db, past, exporter, export, admission>>
    BY HandoffAssumption DEF WriteSource, Edit, HandoffInv, ProducerKeepsPast
  <1>2. ProducerKeepsPast' /\ ExportIsPast' /\ ExportIsSnapshot'
    BY <1>1 DEF HandoffInv, ProducerKeepsPast, ExportIsPast, ExportIsSnapshot, Published, Present
  <1>3. ExportersHold' /\ CopyIsDeclared' /\ AdmittedAsEvaluated'
    BY <1>1, ExportersStay, AdmissionStays
  <1> QED
    BY <1>2, <1>3 DEF HandoffInv

LEMMA EditExportKeeps ==
  ASSUME HandoffInv, EditExport
  PROVE  HandoffInv'
  <1>1. edits' = edits + 1 /\ edits' <= MaxEdits /\ UNCHANGED <<db, past, exporter, admission>>
    BY HandoffAssumption DEF EditExport, Edit, HandoffInv, ProducerKeepsPast, producer
  <1>2. /\ DOMAIN export' = DOMAIN export /\ export'.env = export.env /\ export'.lineage = export.lineage
        /\ export'.sig = export.sig /\ export'.by = export.by
    BY DEF EditExport, HandoffInv, ProducerKeepsPast
  <1>3. ProducerKeepsPast' /\ ExportIsPast' /\ ExportIsSnapshot'
    BY <1>1, <1>2 DEF HandoffInv, ProducerKeepsPast, ExportIsPast, ExportIsSnapshot, Published, Present
  <1>4. ExportersHold' /\ CopyIsDeclared' /\ AdmittedAsEvaluated'
    BY <1>1, ExportersStay, AdmissionStays
  <1> QED
    BY <1>3, <1>4 DEF HandoffInv

\* An exporter moves, and publishes nothing.
LEMMA ExporterKeeps ==
  ASSUME HandoffInv, NEW e \in Exporters, UNCHANGED <<producer, export, admission, edits>>,
         DOMAIN exporter' = DOMAIN exporter, \A f \in Exporters : f # e => exporter'[f] = exporter[f],
         ExporterHolds(e)'
  PROVE  HandoffInv'
  <1>1. ProducerKeepsPast' /\ ExportIsPast' /\ ExportIsSnapshot'
    BY DEF HandoffInv, producer, ProducerKeepsPast, ExportIsPast, ExportIsSnapshot, Published, Present
  <1>2. ExportersHold'
    BY OneExporterMoves DEF producer
  <1>3. CopyIsDeclared' /\ AdmittedAsEvaluated'
    BY AdmissionStays
  <1> QED
    BY <1>1, <1>2, <1>3 DEF HandoffInv

\* A call that is over, or called again, holds nothing.
LEMMA ExporterIdles ==
  ASSUME HandoffInv, NEW e \in Exporters, NEW x, DOMAIN x = DOMAIN ExportIdle, x.pc \in {"idle", "ended"},
         exporter' = [exporter EXCEPT ![e] = x]
  PROVE  /\ ExporterHolds(e)' /\ DOMAIN exporter' = DOMAIN exporter
         /\ \A f \in Exporters : f # e => exporter'[f] = exporter[f]
  <1>1. exporter'[e] = x /\ DOMAIN exporter' = DOMAIN exporter
    BY DEF HandoffInv, ExportersHold
  <1>2. ExporterHolds(e)'
    BY <1>1 DEF ExporterHolds, ExportIdle
  <1> QED
    BY <1>1, <1>2

LEMMA ExporterEnds ==
  ASSUME HandoffInv, NEW e \in Exporters, ExportEnds(e)
  PROVE  /\ ExporterHolds(e)' /\ DOMAIN exporter' = DOMAIN exporter
         /\ \A f \in Exporters : f # e => exporter'[f] = exporter[f]
  <1> DEFINE x == [ExportIdle EXCEPT !.pc = "ended"]
  <1>1. DOMAIN x = DOMAIN ExportIdle /\ x.pc \in {"idle", "ended"} /\ exporter' = [exporter EXCEPT ![e] = x]
    BY DEF ExportEnds, ExportIdle
  <1> HIDE DEF x
  <1> QED
    BY <1>1, ExporterIdles

LEMMA ExportOpenKeeps ==
  ASSUME HandoffInv, NEW e \in Exporters, ExportOpen(e)
  PROVE  HandoffInv'
  <1>1. PICK wanted \in SUBSET Programs :
          exporter' = [exporter EXCEPT ![e] =
             [ExportIdle EXCEPT !.pc = "rows", !.sig = db.sig, !.rows = SelectRows(db.rows, wanted)]]
    BY DEF ExportOpen
  <1>2. /\ DOMAIN exporter'[e] = {"pc", "sig", "rows", "lineage"} /\ exporter'[e].pc = "rows" /\ exporter'[e].sig = db.sig
        /\ exporter'[e].rows = SelectRows(db.rows, wanted) /\ exporter'[e].lineage = << >>
    BY <1>1 DEF ExportIdle, HandoffInv, ExportersHold
  <1>3. \A p \in DOMAIN SelectRows(db.rows, wanted) : SelectRows(db.rows, wanted)[p] = db.rows[p]
    BY DEF SelectRows
  <1>4. ExporterHolds(e)'
    BY <1>2, <1>3 DEF ExporterHolds, ExportOpen, producer, HandoffInv, ProducerKeepsPast
  <1>5. DOMAIN exporter' = DOMAIN exporter /\ \A f \in Exporters : f # e => exporter'[f] = exporter[f]
    BY <1>1
  <1> QED
    BY <1>4, <1>5, ExporterKeeps DEF ExportOpen

\* The lineage is read from a database that may have another signature by now: then it says nothing yet.
LEMMA ExportReadKeeps ==
  ASSUME HandoffInv, NEW e \in Exporters, ExportRead(e)
  PROVE  HandoffInv'
  <1> DEFINE rows == exporter[e].rows
             todo == DOMAIN rows \ DOMAIN exporter[e].lineage
  <1>1. PICK p \in todo :
          \/ /\ LineageHolds(p, db.rows)
             /\ exporter' = [exporter EXCEPT ![e].lineage = [q \in DOMAIN @ \cup {p} |-> Ancestors(q)],
                                             ![e].pc = IF todo = {p} THEN "check" ELSE "rows"]
          \/ ExportEnds(e)
    BY DEF ExportRead
  <1>2. exporter[e].pc = "rows" /\ ExporterHolds(e) /\ UNCHANGED <<producer, export, admission, edits>>
    BY DEF ExportRead, ExportAt, HandoffInv, ExportersHold
  <1>3. CASE ExportEnds(e)
    BY <1>2, <1>3, ExporterEnds, ExporterKeeps
  <1>4. CASE /\ LineageHolds(p, db.rows)
             /\ exporter' = [exporter EXCEPT ![e].lineage = [q \in DOMAIN @ \cup {p} |-> Ancestors(q)],
                                             ![e].pc = IF todo = {p} THEN "check" ELSE "rows"]
    <2>1. /\ DOMAIN exporter'[e] = {"pc", "sig", "rows", "lineage"} /\ exporter'[e].sig = exporter[e].sig
          /\ exporter'[e].rows = rows
          /\ exporter'[e].lineage = [q \in DOMAIN exporter[e].lineage \cup {p} |-> Ancestors(q)]
          /\ exporter'[e].pc = IF todo = {p} THEN "check" ELSE "rows"
      BY <1>2, <1>4 DEF HandoffInv, ExportersHold, ExporterHolds
    <2>2. DOMAIN exporter'[e].lineage = DOMAIN exporter[e].lineage \cup {p}
          /\ \A q \in DOMAIN exporter'[e].lineage : exporter'[e].lineage[q] = Ancestors(q)
      BY <2>1
    <2>3. todo = {p} => DOMAIN exporter'[e].lineage = DOMAIN rows
      BY <1>2, <2>2 DEF ExporterHolds
    <2>4. Ancestors(p) \subseteq Present(db.rows)
      BY <1>4 DEF LineageHolds
    <2>5. UNCHANGED <<db, past>>
      BY <1>2 DEF producer
    <2> HIDE DEF todo
    <2>6. ExporterHolds(e)'
      BY <1>1, <1>2, <2>1, <2>2, <2>3, <2>4, <2>5 DEF ExporterHolds, todo, Present
    <2>7. DOMAIN exporter' = DOMAIN exporter
      BY <1>4
    <2>8. \A f \in Exporters : f # e => exporter'[f] = exporter[f]
      BY <1>4 DEF HandoffInv, ExportersHold
    <2> QED
      BY <1>2, <2>8, <2>6, <2>7, ExporterKeeps
  <1> QED
    BY <1>1, <1>3, <1>4

\* With the signature unchanged, what was read in between is of the signature that was opened.
LEMMA ExportCheckKeeps ==
  ASSUME HandoffInv, NEW e \in Exporters, ExportCheck(e)
  PROVE  HandoffInv'
  <1>1. exporter[e].pc = "check" /\ ExporterHolds(e) /\ UNCHANGED <<producer, export, admission, edits>>
    BY DEF ExportCheck, ExportAt, HandoffInv, ExportersHold
  <1>2. CASE ExportEnds(e)
    BY <1>1, <1>2, ExporterEnds, ExporterKeeps
  <1>3. CASE db.sig = exporter[e].sig /\ exporter' = [exporter EXCEPT ![e].pc = "root"]
    <2>1. /\ DOMAIN exporter'[e] = {"pc", "sig", "rows", "lineage"} /\ exporter'[e].sig = exporter[e].sig
          /\ exporter'[e].rows = exporter[e].rows /\ exporter'[e].lineage = exporter[e].lineage
          /\ exporter'[e].pc = "root"
      BY <1>1, <1>3 DEF HandoffInv, ExportersHold, ExporterHolds
    <2>2. UNCHANGED <<db, past>> /\ past[db.sig] = db.rows
      BY <1>1 DEF producer, HandoffInv, ProducerKeepsPast
    <2>3. ExporterHolds(e)'
      BY <1>1, <1>3, <2>1, <2>2 DEF ExporterHolds, Present
    <2>4. DOMAIN exporter' = DOMAIN exporter /\ \A f \in Exporters : f # e => exporter'[f] = exporter[f]
      BY <1>3
    <2> QED
      BY <1>1, <2>3, <2>4, ExporterKeeps
  <1> QED
    BY <1>2, <1>3 DEF ExportCheck

LEMMA ExportStageKeeps ==
  ASSUME HandoffInv, NEW e \in Exporters, ExportStage(e)
  PROVE  HandoffInv'
  <1>1. exporter[e].pc = "root" /\ ExporterHolds(e) /\ UNCHANGED <<producer, export, admission, edits>>
    BY DEF ExportStage, ExportAt, HandoffInv, ExportersHold
  <1>2. CASE ExportEnds(e)
    BY <1>1, <1>2, ExporterEnds, ExporterKeeps
  <1>3. CASE exporter' = [exporter EXCEPT ![e].pc = "commit"]
    <2>1. /\ DOMAIN exporter'[e] = {"pc", "sig", "rows", "lineage"} /\ exporter'[e].sig = exporter[e].sig
          /\ exporter'[e].rows = exporter[e].rows /\ exporter'[e].lineage = exporter[e].lineage
          /\ exporter'[e].pc = "commit"
      BY <1>1, <1>3 DEF HandoffInv, ExportersHold, ExporterHolds
    <2>2. UNCHANGED <<db, past>>
      BY <1>1 DEF producer
    <2>3. ExporterHolds(e)'
      BY <1>1, <1>3, <2>1, <2>2 DEF ExporterHolds, Present
    <2>4. DOMAIN exporter' = DOMAIN exporter /\ \A f \in Exporters : f # e => exporter'[f] = exporter[f]
      BY <1>3
    <2> QED
      BY <1>1, <2>3, <2>4, ExporterKeeps
  <1> QED
    BY <1>2, <1>3 DEF ExportStage

LEMMA ExportStopsKeeps ==
  ASSUME HandoffInv, NEW e \in Exporters, ExportWriteFails(e) \/ ExportKilled(e)
  PROVE  HandoffInv'
  <1>1. UNCHANGED <<producer, export, admission, edits>>
    BY DEF ExportWriteFails, ExportKilled
  <1>2. CASE ExportWriteFails(e)
    BY <1>1, <1>2, ExporterEnds, ExporterKeeps DEF ExportWriteFails
  <1>3. CASE ExportKilled(e)
    <2>1. ExportIdle.pc \in {"idle", "ended"} /\ exporter' = [exporter EXCEPT ![e] = ExportIdle]
      BY <1>3 DEF ExportKilled, ExportIdle
    <2> QED
      BY <1>1, <2>1, ExporterIdles, ExporterKeeps
  <1> QED
    BY <1>2, <1>3

\* What is renamed into place was checked before.
LEMMA ExportCommitKeeps ==
  ASSUME HandoffInv, NEW e \in Exporters, ExportCommit(e)
  PROVE  HandoffInv'
  <1>1. exporter[e].pc = "commit" /\ ExporterHolds(e) /\ UNCHANGED <<producer, admission, edits>> /\ ExportEnds(e)
    BY DEF ExportCommit, ExportAt, HandoffInv, ExportersHold
  <1>2. UNCHANGED <<db, past>>
    BY <1>1 DEF producer
  <1>3. ExportersHold'
    BY <1>1, <1>2, ExporterEnds, OneExporterMoves
  <1>4. CopyIsDeclared' /\ AdmittedAsEvaluated'
    BY <1>1, AdmissionStays
  <1>5. CASE export' = export
    BY <1>1, <1>2, <1>3, <1>4, <1>5 DEF HandoffInv, ProducerKeepsPast, ExportIsPast, ExportIsSnapshot, Published, Present
  <1>6. CASE export' = Tree(e)
    <2>1. /\ DOMAIN export' = {"env", "lineage", "files", "by", "sig"} /\ export'.env = exporter[e].rows
          /\ export'.lineage = exporter[e].lineage /\ export'.sig = exporter[e].sig
      BY <1>6 DEF Tree, Envelope
    <2>2. ProducerKeepsPast' /\ ExportIsPast'
      BY <1>1, <1>2, <2>1 DEF HandoffInv, ProducerKeepsPast, ExportIsPast, ExporterHolds
    <2>3. ExportIsSnapshot'
      BY <1>1, <1>2, <2>1 DEF ExportIsSnapshot, ExporterHolds, Present
    <2> QED
      BY <1>3, <1>4, <2>2, <2>3 DEF HandoffInv
  <1> QED
    BY <1>5, <1>6 DEF ExportCommit

\* An admission starts with nothing admitted.
LEMMA AdmitStartsKeeps ==
  ASSUME HandoffInv, AdmitExport \/ AdmitNative
  PROVE  HandoffInv'
  <1>2. DOMAIN admission' = DOMAIN AdmissionIdle /\ admission'.pc = "seeds" /\ admission'.admitted = << >>
        /\ admission'.copy = NoCopy
    BY DEF AdmitExport, AdmitNative, Manifest, AdmissionIdle
  <1>3. CopyIsDeclared' /\ AdmittedAsEvaluated'
    BY <1>2 DEF CopyIsDeclared, AdmittedAsEvaluated, NoCopy
  <1>4. UNCHANGED <<producer, exporter, export, edits>> /\ edits <= MaxEdits
    BY DEF AdmitExport, AdmitNative, HandoffInv, ProducerKeepsPast
  <1> QED
    BY <1>3, <1>4, AdmissionMoves

\* The copy is made of a source that has the declared digest.
LEMMA SeedSnapshotKeeps ==
  ASSUME HandoffInv, SeedSnapshot
  PROVE  HandoffInv'
  <1>1. UNCHANGED <<producer, exporter, export, edits>> /\ edits <= MaxEdits /\ admission.pc = "seeds"
    BY DEF SeedSnapshot, AdmitAt, HandoffInv, ProducerKeepsPast
  <1>2. PICK p \in DOMAIN admission.seeds \ admission.done :
          LET original == FileAt(admission.root, p) IN
          IF original.c # admission.seeds[p] THEN Settle(p, admission.admitted)
          ELSE admission' = [admission EXCEPT !.pc = "evaluate", !.seed = p, !.original = original,
                                              !.copy = [c |-> original.c, v |-> 0], !.stamp = 0]
    BY DEF SeedSnapshot
  <1>3. CASE Settle(p, admission.admitted)
    BY <1>1, <1>3, AdmissionMoves
    DEF Settle, HandoffInv, CopyIsDeclared, AdmittedAsEvaluated, AdmissionIdle, CopyUnchanged
  <1>4. CASE ~ Settle(p, admission.admitted)
    <2> DEFINE original == FileAt(admission.root, p)
    <2>1. original.c = admission.seeds[p]
          /\ admission' = [admission EXCEPT !.pc = "evaluate", !.seed = p, !.original = original,
                                            !.copy = [c |-> original.c, v |-> 0], !.stamp = 0]
      BY <1>2, <1>4
    <2> HIDE DEF original
    <2>2. /\ DOMAIN admission' = DOMAIN admission /\ admission'.pc = "evaluate" /\ admission'.seed = p
          /\ admission'.original = original /\ admission'.copy = [c |-> original.c, v |-> 0] /\ admission'.stamp = 0
          /\ admission'.seeds = admission.seeds /\ admission'.admitted = admission.admitted
      BY <2>1 DEF HandoffInv, CopyIsDeclared, AdmissionIdle
    <2>3. CopyIsDeclared' /\ AdmittedAsEvaluated'
      BY <2>1, <2>2 DEF HandoffInv, CopyIsDeclared, AdmittedAsEvaluated
    <2> QED
      BY <1>1, <2>3, AdmissionMoves
  <1> QED
    BY <1>3, <1>4

\* An overwritten copy has a stamp of its own.
LEMMA OverwriteCopyKeeps ==
  ASSUME HandoffInv, OverwriteCopy
  PROVE  HandoffInv'
  <1>1. UNCHANGED <<producer, exporter, export>> /\ edits' = edits + 1 /\ edits' <= MaxEdits /\ edits \in Nat
    BY HandoffAssumption DEF OverwriteCopy, Edit, HandoffInv, ProducerKeepsPast
  <1>2. PICK c \in Contents : admission' = [admission EXCEPT !.copy = [c |-> c, v |-> edits']]
    BY DEF OverwriteCopy
  <1>3. /\ DOMAIN admission' = DOMAIN admission /\ admission'.pc = admission.pc /\ admission'.seed = admission.seed
        /\ admission'.original = admission.original /\ admission'.copy = [c |-> c, v |-> edits']
        /\ admission'.stamp = admission.stamp /\ admission'.seeds = admission.seeds
        /\ admission'.admitted = admission.admitted
    BY <1>2 DEF HandoffInv, CopyIsDeclared, AdmissionIdle
  <1>4. admission.pc \in {"evaluate", "recheck"} /\ edits' # 0
    BY <1>1 DEF OverwriteCopy
  <1>5. CopyIsDeclared' /\ AdmittedAsEvaluated'
    BY <1>3, <1>4 DEF HandoffInv, CopyIsDeclared, AdmittedAsEvaluated, CopyUnchanged
  <1> QED
    BY <1>1, <1>5, AdmissionMoves

LEMMA EvaluateKeeps ==
  ASSUME HandoffInv, Evaluate
  PROVE  HandoffInv'
  <1>1. UNCHANGED <<producer, exporter, export, edits>> /\ edits <= MaxEdits /\ admission.pc = "evaluate"
    BY DEF Evaluate, AdmitAt, HandoffInv, ProducerKeepsPast
  <1>2. PICK report \in {"valid", "invalid", "error"} :
          admission' = [admission EXCEPT !.pc = "recheck", !.seen = admission.copy.c, !.report = report]
    BY DEF Evaluate
  <1>3. /\ DOMAIN admission' = DOMAIN admission /\ admission'.pc = "recheck" /\ admission'.seed = admission.seed
        /\ admission'.original = admission.original /\ admission'.copy = admission.copy
        /\ admission'.stamp = admission.stamp /\ admission'.seeds = admission.seeds
        /\ admission'.admitted = admission.admitted /\ admission'.seen = admission.copy.c
    BY <1>2 DEF HandoffInv, CopyIsDeclared, AdmissionIdle
  <1>4. CopyIsDeclared' /\ AdmittedAsEvaluated'
    BY <1>1, <1>3 DEF HandoffInv, CopyIsDeclared, AdmittedAsEvaluated, CopyUnchanged
  <1> QED
    BY <1>1, <1>4, AdmissionMoves

\* A seed is admitted with a copy that nobody wrote: it is the declared source, and it was evaluated.
LEMMA SeedRecheckKeeps ==
  ASSUME HandoffInv, SeedRecheck
  PROVE  HandoffInv'
  <1>1. UNCHANGED <<producer, exporter, export, edits>> /\ edits <= MaxEdits /\ admission.pc = "recheck"
    BY DEF SeedRecheck, AdmitAt, HandoffInv, ProducerKeepsPast
  <1>2. /\ DOMAIN admission' = DOMAIN admission /\ admission'.pc = "seeds" /\ admission'.copy = admission.copy
        /\ \/ admission'.admitted = admission.admitted
           \/ CopyUnchanged /\ admission'.admitted = WithSeed(admission.seed)
    BY DEF SeedRecheck, Settle, HandoffInv, CopyIsDeclared, AdmissionIdle
  <1>3. CopyIsDeclared'
    BY <1>2 DEF HandoffInv, CopyIsDeclared
  <1>4. CASE admission'.admitted = admission.admitted
    BY <1>1, <1>3, <1>4, AdmissionMoves DEF HandoffInv, AdmittedAsEvaluated
  <1>5. CASE CopyUnchanged /\ admission'.admitted = WithSeed(admission.seed)
    <2>1. /\ Receipt(admission.seed).source = Receipt(admission.seed).declared
          /\ Receipt(admission.seed).source = Receipt(admission.seed).evaluated
      BY <1>1, <1>5 DEF Receipt, HandoffInv, CopyIsDeclared
    <2>2. \A p \in DOMAIN admission'.admitted :
            \/ admission'.admitted[p] = Receipt(admission.seed)
            \/ p \in DOMAIN admission.admitted /\ admission'.admitted[p] = admission.admitted[p]
      BY <1>5 DEF WithSeed
    <2>3. AdmittedAsEvaluated'
      BY <2>1, <2>2 DEF AdmittedAsEvaluated, HandoffInv
    <2> QED
      BY <1>1, <1>3, <2>3, AdmissionMoves
  <1> QED
    BY <1>2, <1>4, <1>5

LEMMA AdmitEndsKeeps ==
  ASSUME HandoffInv, AdmitEnds
  PROVE  HandoffInv'
  <1>1. UNCHANGED <<producer, exporter, export, edits>> /\ edits <= MaxEdits
    BY DEF AdmitEnds, HandoffInv, ProducerKeepsPast
  <1>2. /\ DOMAIN admission' = DOMAIN admission /\ admission'.pc \in {"failed", "admitted"} /\ admission'.copy = NoCopy
        /\ admission'.admitted = admission.admitted
    BY DEF AdmitEnds, HandoffInv, CopyIsDeclared, AdmissionIdle
  <1>3. CopyIsDeclared' /\ AdmittedAsEvaluated'
    BY <1>2 DEF HandoffInv, CopyIsDeclared, AdmittedAsEvaluated, NoCopy
  <1> QED
    BY <1>1, <1>3, AdmissionMoves

LEMMA HandoffInvHolds == HandoffSpec => []HandoffInv
  <1>1. HandoffInit => HandoffInv
    <2> SUFFICES ASSUME HandoffInit PROVE HandoffInv
      OBVIOUS
    <2>1. ProducerKeepsPast
      BY HandoffAssumption DEF HandoffInit, ProducerKeepsPast, NoExport
    <2>2. ExportersHold
      BY DEF HandoffInit, ExportersHold, ExporterHolds, ExportIdle
    <2>3. ExportIsPast /\ ExportIsSnapshot
      BY DEF HandoffInit, ExportIsPast, ExportIsSnapshot, Published, NoExport
    <2>4. CopyIsDeclared /\ AdmittedAsEvaluated
      BY DEF HandoffInit, CopyIsDeclared, AdmittedAsEvaluated, AdmissionIdle, NoCopy
    <2> QED
      BY <2>1, <2>2, <2>3, <2>4 DEF HandoffInv
  <1>2. HandoffInv /\ [HandoffNext]_handoffVars => HandoffInv'
    <2> SUFFICES ASSUME HandoffInv, [HandoffNext]_handoffVars PROVE HandoffInv'
      OBVIOUS
    <2>1. CASE BeginTransaction \/ EndTransaction \/ WriteSource \/ EditExport
      BY <2>1, BeginTransactionKeeps, EndTransactionKeeps, WriteSourceKeeps, EditExportKeeps
    <2>2. ASSUME NEW e \in Exporters,
                 \/ ExportOpen(e) \/ ExportRead(e) \/ ExportCheck(e) \/ ExportStage(e)
                 \/ ExportWriteFails(e) \/ ExportCommit(e) \/ ExportKilled(e)
          PROVE  HandoffInv'
      BY <2>2, ExportOpenKeeps, ExportReadKeeps, ExportCheckKeeps, ExportStageKeeps, ExportStopsKeeps, ExportCommitKeeps
    <2>3. CASE AdmitExport \/ AdmitNative \/ SeedSnapshot \/ OverwriteCopy \/ Evaluate \/ SeedRecheck \/ AdmitEnds
      BY <2>3, AdmitStartsKeeps, SeedSnapshotKeeps, OverwriteCopyKeeps, EvaluateKeeps, SeedRecheckKeeps, AdmitEndsKeeps
    <2>4. CASE UNCHANGED handoffVars
      <3>1. UNCHANGED <<producer, exporter, export, admission, edits>> /\ edits <= MaxEdits
        BY <2>4 DEF handoffVars, producer, HandoffInv, ProducerKeepsPast
      <3> QED
        BY <3>1, AdmissionStays, AdmissionMoves
    <2> QED
      BY <2>1, <2>2, <2>3, <2>4 DEF HandoffNext
  <1> QED
    BY <1>1, <1>2, PTL DEF HandoffSpec

\* For any programs, exporters and lineage, however often producer, candidate and users write: rows and
\* lineage that are published were in the database together, and a seed is admitted with the source
\* that was declared and evaluated (export_shinka_result, admit_seed_manifest).
THEOREM ProgramsAreHandedOver == HandoffSpec => []HandedOverAsWas
  <1>1. HandoffInv => HandedOverAsWas
    BY DEF HandoffInv, HandedOverAsWas
  <1> QED
    BY <1>1, HandoffInvHolds, PTL

-----------------------------------------------------------------------------
(* An effect trial: its inductive invariant.                                *)

Storing == {"backup", "record", "register", "unlink"}
Executing == {"request", "subject", "score", "harness", "scored"} \cup Storing

TrialRecord == [attempt : Nat, rounds : Seq(Nat), error : {"absent", "none", "failed", "incomplete"}]
TrialSteps == {"off", "prepare", "load", "restored", "attempt"} \cup Executing
TrialRow == [at : TrialSteps, deep : BOOLEAN,
             run : 1 .. LogicalRuns + 1, starts : Nat, attempt : Nat, rounds : Seq(Nat), resumed : BOOLEAN,
             pending : TrialRecord, harness : Nat]
Records == [1 .. LogicalRuns -> TrialRecord]
ControlRow == [workspace : {"absent", "partial", "prepared"}, state : Records, record : Records, backup : Records,
               report : Records]
Try == [touched : BOOLEAN, receipts : SUBSET Nat, dirs : SUBSET Nat, scores : [1 .. OuterRounds -> Nat]]
Tries == [1 .. LogicalRuns -> Seq(Try)]

LeftoversHold(left, t) ==
    \A p \in left : p[2] \in 1 .. LogicalRuns /\ p[3] \in DOMAIN t[p[2]] /\ p[4] \in 1 .. OuterRounds

TrialTypes == trial \in TrialRow /\ control \in ControlRow /\ tries \in Tries /\ LeftoversHold(leftovers, tries)

LastOf(deep) == IF deep THEN OuterRounds ELSE 1

\* Scores that the harness wrote for an attempt: none of them is missing, so that nobody writes it again.
Kept(t, deep, r, attempt, rounds) ==
    /\ attempt \in DOMAIN t[r] /\ Len(rounds) <= LastOf(deep)
    /\ \A k \in DOMAIN rounds :
         k \in t[r][attempt].receipts /\ t[r][attempt].scores[k] = rounds[k] /\ rounds[k] # 0

\* What a record says of its error and its rounds.
Ends(deep, record) ==
    /\ record.error \in {"none", "failed", "incomplete"}
    /\ record.error = "none" => Len(record.rounds) = LastOf(deep)
    /\ record.error = "incomplete" => deep

StateIsBacked(row, c, t) ==
    \A r \in 1 .. LogicalRuns :
       c.state[r] # NoRecord => Kept(t, row.deep, r, c.state[r].attempt, c.state[r].rounds) /\ Ends(row.deep, c.state[r])

\* The attempt that is executed goes beyond what is registered of it.
ExecutionIsAhead(row, c, t) ==
    /\ row.at \in Executing \cup {"restored", "attempt"} => row.run <= LogicalRuns
    /\ row.at \in Executing => Kept(t, row.deep, row.run, row.attempt, row.rounds)
    /\ row.at \in Executing /\ c.state[row.run].attempt = row.attempt => Len(c.state[row.run].rounds) <= Len(row.rounds)
    /\ row.at \in {"subject", "score", "harness", "scored"} => Len(row.rounds) < LastOf(row.deep)
    /\ row.at \in {"score", "harness", "scored"} => Len(row.rounds) + 1 \in t[row.run][row.attempt].receipts
    /\ row.at = "scored" => t[row.run][row.attempt].scores[Len(row.rounds) + 1] # 0

\* The order in which a record replaces another.
CommitIsOrdered(row, c) ==
    /\ row.at \in Storing => /\ Ends(row.deep, row.pending) /\ row.pending.attempt = row.attempt
                             /\ row.pending.rounds = row.rounds
    /\ row.at \in {"record", "register"} => c.state[row.run] \in {NoRecord, c.backup[row.run]}
    /\ row.at = "register" => c.record[row.run] = row.pending
    /\ row.at = "unlink" => c.state[row.run] = row.pending
    /\ row.at \in {"unlink", "restored"} => c.state[row.run] = c.record[row.run]
    /\ row.at = "restored" => c.state[row.run] # NoRecord

\* A run that is left behind is complete, and so is what is reported.
EarlierRunsEnded(row, c) ==
    /\ \A r \in 1 .. LogicalRuns : r < row.run => c.state[r].error # "incomplete"
    /\ \A r \in 1 .. LogicalRuns : c.report[r].error # "incomplete"

TrialInv ==
    /\ TrialTypes /\ StateIsBacked(trial, control, tries) /\ ExecutionIsAhead(trial, control, tries)
    /\ CommitIsOrdered(trial, control) /\ EarlierRunsEnded(trial, control) /\ RegisteredLoads

\* An attempt's directory only grows, but for the scores that are lost.
Grows(t, u, lost) ==
    \A r \in 1 .. LogicalRuns : \A a \in DOMAIN t[r] :
        /\ a \in DOMAIN u[r] /\ t[r][a].receipts \subseteq u[r][a].receipts
        /\ \A k \in 1 .. OuterRounds : t[r][a].scores[k] # 0 /\ <<r, a, k>> \notin lost => u[r][a].scores[k] = t[r][a].scores[k]

-----------------------------------------------------------------------------
(* What the operators of a trial do.                                        *)

LEMMA KeptGrows ==
  ASSUME NEW t, NEW u, NEW lost, Grows(t, u, lost), NEW deep \in BOOLEAN, NEW r \in 1 .. LogicalRuns, NEW attempt,
         NEW rounds \in Seq(Nat), Kept(t, deep, r, attempt, rounds),
         \A k \in DOMAIN rounds : <<r, attempt, k>> \notin lost
  PROVE  Kept(u, deep, r, attempt, rounds)
  <1>1. DOMAIN rounds \subseteq 1 .. OuterRounds
    BY TrialAssumption DEF Kept, LastOf
  <1> QED
    BY <1>1 DEF Kept, Grows

LEMMA GrowsStays ==
  ASSUME UNCHANGED tries
  PROVE  Grows(tries, tries', {})
  BY DEF Grows

LEMMA LeftoversStay ==
  ASSUME NEW left, NEW t, NEW u, NEW lost, LeftoversHold(left, t), Grows(t, u, lost)
  PROVE  LeftoversHold(left, u)
  BY DEF LeftoversHold, Grows

LEMMA TrialToEffect ==
  ASSUME TrialTypes, NEW step \in TrialSteps, TrialTo(step)
  PROVE  /\ trial' \in TrialRow /\ trial'.at = step /\ trial'.deep = trial.deep /\ trial'.run = trial.run
         /\ trial'.attempt = trial.attempt /\ trial'.rounds = trial.rounds /\ trial'.resumed = trial.resumed
         /\ trial'.pending = trial.pending
  BY DEF TrialTypes, TrialRow, TrialTo

LEMMA NoRecordIsRecord ==
  NoRecord \in TrialRecord /\ StrayRecord \in TrialRecord
  BY DEF NoRecord, StrayRecord, TrialRecord

LEMMA AbortEffect ==
  ASSUME TrialTypes, Abort
  PROVE  trial' \in TrialRow /\ trial'.at = "off" /\ trial'.deep = trial.deep /\ trial'.run = 1
  <1>1. "off" \in TrialSteps /\ 1 \in 1 .. LogicalRuns + 1 /\ 0 \in Nat /\ << >> \in Seq(Nat) /\ FALSE \in BOOLEAN
    BY TrialAssumption DEF TrialSteps
  <1> QED
    BY <1>1, NoRecordIsRecord DEF TrialTypes, TrialRow, Abort

LEMMA NextRunEffect ==
  ASSUME TrialTypes, NextRun, trial.run <= LogicalRuns
  PROVE  trial' \in TrialRow /\ trial'.at = "load" /\ trial'.deep = trial.deep /\ trial'.run = trial.run + 1
  <1>1. "load" \in TrialSteps /\ trial.run + 1 \in 1 .. LogicalRuns + 1 /\ 0 \in Nat /\ << >> \in Seq(Nat) /\ FALSE \in BOOLEAN
    BY TrialAssumption DEF TrialTypes, TrialRow, TrialSteps
  <1> QED
    BY <1>1, NoRecordIsRecord DEF TrialTypes, TrialRow, NextRun

LEMMA SameAttemptEffect ==
  ASSUME TrialTypes, NEW record \in TrialRecord, SameAttempt(record)
  PROVE  /\ trial' \in TrialRow /\ trial'.at = "request" /\ trial'.deep = trial.deep /\ trial'.run = trial.run
         /\ trial'.attempt = record.attempt /\ trial'.rounds = record.rounds
  BY DEF TrialTypes, TrialRow, TrialSteps, Executing, TrialRecord, SameAttempt

LEMMA StoreEffect ==
  ASSUME TrialTypes, NEW rounds \in Seq(Nat), NEW error \in {"none", "failed", "incomplete"}, Store(rounds, error)
  PROVE  /\ trial' \in TrialRow /\ trial'.at = "backup" /\ trial'.deep = trial.deep /\ trial'.run = trial.run
         /\ trial'.attempt = trial.attempt /\ trial'.rounds = rounds
         /\ trial'.pending = [attempt |-> trial.attempt, rounds |-> rounds, error |-> error]
  <1>1. [attempt |-> trial.attempt, rounds |-> rounds, error |-> error] \in TrialRecord
    BY DEF TrialTypes, TrialRow, TrialRecord
  <1> QED
    BY <1>1 DEF TrialTypes, TrialRow, TrialSteps, Executing, Storing, Store

-----------------------------------------------------------------------------
(* What the parts of the invariant withstand.                               *)

\* A process that outlived its trial, or nobody, writes: the trial is where it was.
LEMMA FilesGrow ==
  ASSUME TrialInv, Grows(tries, tries', {}), TrialTypes', control' = control, trial'.at = trial.at, trial'.deep = trial.deep,
         trial'.run = trial.run, trial'.attempt = trial.attempt, trial'.rounds = trial.rounds, trial'.pending = trial.pending
  PROVE  TrialInv'
  <1>1. StateIsBacked(trial', control', tries')
    <2> SUFFICES ASSUME NEW r \in 1 .. LogicalRuns, control.state[r] # NoRecord
                 PROVE  /\ Kept(tries', trial.deep, r, control.state[r].attempt, control.state[r].rounds)
                        /\ Ends(trial.deep, control.state[r])
      BY DEF StateIsBacked
    <2>1. control.state[r] \in TrialRecord /\ trial.deep \in BOOLEAN
      BY DEF TrialInv, TrialTypes, TrialRow, ControlRow, Records
    <2>2. Kept(tries, trial.deep, r, control.state[r].attempt, control.state[r].rounds) /\ Ends(trial.deep, control.state[r])
      BY DEF TrialInv, StateIsBacked
    <2>3. control.state[r].rounds \in Seq(Nat)
      BY <2>1 DEF TrialRecord
    <2> QED
      BY <2>1, <2>2, <2>3, KeptGrows
  <1>2. ExecutionIsAhead(trial', control', tries')
    <2>1. /\ ExecutionIsAhead(trial, control, tries) /\ trial.deep \in BOOLEAN /\ trial.rounds \in Seq(Nat)
          /\ trial.run \in 1 .. LogicalRuns + 1
      BY DEF TrialInv, TrialTypes, TrialRow
    <2>2. CASE trial.at \in Executing
      <3>1. trial.run \in 1 .. LogicalRuns /\ Kept(tries, trial.deep, trial.run, trial.attempt, trial.rounds)
        BY <2>1, <2>2, TrialAssumption DEF ExecutionIsAhead
      <3>2. Kept(tries', trial.deep, trial.run, trial.attempt, trial.rounds)
        BY <2>1, <3>1, KeptGrows
      <3>3. trial.at \in {"score", "harness", "scored"}
              => Len(trial.rounds) + 1 \in tries'[trial.run][trial.attempt].receipts
        BY <2>1, <3>1 DEF ExecutionIsAhead, Grows, Kept
      <3>4. trial.at = "scored" => tries'[trial.run][trial.attempt].scores[Len(trial.rounds) + 1] # 0
        <4>1. SUFFICES ASSUME trial.at = "scored"
                       PROVE  tries'[trial.run][trial.attempt].scores[Len(trial.rounds) + 1] # 0
          OBVIOUS
        <4>2. Len(trial.rounds) + 1 \in 1 .. OuterRounds
          BY <2>1, <4>1, TrialAssumption DEF ExecutionIsAhead, LastOf
        <4>3. tries[trial.run][trial.attempt].scores[Len(trial.rounds) + 1] # 0 /\ trial.attempt \in DOMAIN tries[trial.run]
          BY <2>1, <3>1, <4>1 DEF ExecutionIsAhead, Kept
        <4> QED
          BY <3>1, <4>2, <4>3 DEF Grows
      <3> QED
        BY <2>1, <3>2, <3>3, <3>4 DEF ExecutionIsAhead
    <2>3. CASE trial.at \notin Executing
      BY <2>1, <2>3 DEF ExecutionIsAhead, Executing
    <2> QED
      BY <2>2, <2>3
  <1>3. CommitIsOrdered(trial', control') /\ EarlierRunsEnded(trial', control') /\ RegisteredLoads'
    BY DEF TrialInv, CommitIsOrdered, EarlierRunsEnded, RegisteredLoads
  <1> QED
    BY <1>1, <1>2, <1>3 DEF TrialInv

\* The trial is between two runs, or off; what is registered, and the files, are as they were.
LEMMA TrialRests ==
  ASSUME TrialInv, UNCHANGED tries, TrialTypes', trial'.deep = trial.deep, control'.state = control.state,
         trial'.at \notin Executing \cup {"restored"}, trial'.at = "attempt" => trial'.run <= LogicalRuns,
         \A r \in 1 .. LogicalRuns : r < trial'.run => control.state[r].error # "incomplete",
         \A r \in 1 .. LogicalRuns : control'.report[r].error # "incomplete",
         RegisteredLoads'
  PROVE  TrialInv'
  <1>1. StateIsBacked(trial', control', tries')
    BY DEF TrialInv, StateIsBacked
  <1>2. ExecutionIsAhead(trial', control', tries')
    BY DEF ExecutionIsAhead, Executing
  <1>3. CommitIsOrdered(trial', control')
    BY DEF CommitIsOrdered, Executing, Storing
  <1>4. EarlierRunsEnded(trial', control')
    BY DEF EarlierRunsEnded
  <1> QED
    BY <1>1, <1>2, <1>3, <1>4 DEF TrialInv

\* A round is executed; a score that no record knows may be lost.
LEMMA ExecutionGoes ==
  ASSUME TrialInv, TrialTypes', NEW lost, lost \in {{}, {<<trial.run, trial.attempt, Len(trial.rounds) + 1>>}},
         Grows(tries, tries', lost),
         trial.at \in Executing, trial'.at \in Executing, control'.state = control.state, control'.report = control.report,
         trial'.deep = trial.deep, trial'.run = trial.run, trial'.attempt = trial.attempt, trial'.rounds = trial.rounds,
         trial'.at \in {"subject", "score", "harness", "scored"} => Len(trial.rounds) < LastOf(trial.deep),
         trial'.at \in {"score", "harness", "scored"}
           => Len(trial.rounds) + 1 \in tries'[trial.run][trial.attempt].receipts,
         trial'.at = "scored" => tries'[trial.run][trial.attempt].scores[Len(trial.rounds) + 1] # 0
  PROVE  /\ StateIsBacked(trial', control', tries') /\ ExecutionIsAhead(trial', control', tries')
         /\ EarlierRunsEnded(trial', control')
  <1>1. /\ ExecutionIsAhead(trial, control, tries) /\ trial.deep \in BOOLEAN /\ trial.rounds \in Seq(Nat)
        /\ trial.run \in 1 .. LogicalRuns
        /\ Kept(tries, trial.deep, trial.run, trial.attempt, trial.rounds)
        /\ control.state[trial.run].attempt = trial.attempt => Len(control.state[trial.run].rounds) <= Len(trial.rounds)
    BY TrialAssumption DEF TrialInv, TrialTypes, TrialRow, ExecutionIsAhead
  <1>2. StateIsBacked(trial', control', tries')
    <2> SUFFICES ASSUME NEW r \in 1 .. LogicalRuns, control.state[r] # NoRecord
                 PROVE  /\ Kept(tries', trial.deep, r, control.state[r].attempt, control.state[r].rounds)
                        /\ Ends(trial.deep, control.state[r])
      BY DEF StateIsBacked
    <2>1. control.state[r] \in TrialRecord
      BY DEF TrialInv, TrialTypes, ControlRow, Records
    <2>2. Kept(tries, trial.deep, r, control.state[r].attempt, control.state[r].rounds) /\ Ends(trial.deep, control.state[r])
      BY DEF TrialInv, StateIsBacked
    <2>3. control.state[r].rounds \in Seq(Nat)
      BY <2>1 DEF TrialRecord
    <2>4. \A k \in DOMAIN control.state[r].rounds : <<r, control.state[r].attempt, k>> \notin lost
      <3> SUFFICES ASSUME NEW k \in DOMAIN control.state[r].rounds,
                          <<r, control.state[r].attempt, k>> = <<trial.run, trial.attempt, Len(trial.rounds) + 1>>
                   PROVE  FALSE
        OBVIOUS
      <3>1. r = trial.run /\ control.state[r].attempt = trial.attempt /\ k = Len(trial.rounds) + 1
        OBVIOUS
      <3>2. Len(control.state[r].rounds) <= Len(trial.rounds)
        BY <1>1, <3>1
      <3>3. k \in 1 .. Len(control.state[r].rounds)
        BY <2>3
      <3> QED
        BY <1>1, <2>3, <3>1, <3>2, <3>3
    <2> QED
      BY <1>1, <2>2, <2>3, <2>4, KeptGrows
  <1>3. ExecutionIsAhead(trial', control', tries')
    <2>1. \A k \in DOMAIN trial.rounds : <<trial.run, trial.attempt, k>> \notin lost
      BY <1>1
    <2>2. Kept(tries', trial.deep, trial.run, trial.attempt, trial.rounds)
      BY <1>1, <2>1, KeptGrows
    <2> QED
      BY <1>1, <2>2 DEF ExecutionIsAhead
  <1>4. EarlierRunsEnded(trial', control')
    BY DEF TrialInv, EarlierRunsEnded
  <1> QED
    BY <1>2, <1>3, <1>4

\* The rounds of a run are ready to be committed.
LEMMA RunIsStored ==
  ASSUME TrialInv, trial.at \in Executing, tries' \in Tries, Grows(tries, tries', {}), UNCHANGED <<control, leftovers>>,
         NEW error \in {"none", "failed", "incomplete"}, error = "incomplete" => trial.deep,
         error = "none" => Len(trial.rounds) = LastOf(trial.deep),
         Store(trial.rounds, error)
  PROVE  TrialInv'
  <1>1. trial.rounds \in Seq(Nat) /\ TrialTypes
    BY DEF TrialInv, TrialTypes, TrialRow
  <1>2. /\ trial' \in TrialRow /\ trial'.at = "backup" /\ trial'.deep = trial.deep /\ trial'.run = trial.run
        /\ trial'.attempt = trial.attempt /\ trial'.rounds = trial.rounds
        /\ trial'.pending = [attempt |-> trial.attempt, rounds |-> trial.rounds, error |-> error]
    BY <1>1, StoreEffect
  <1>3. TrialTypes'
    BY <1>2, LeftoversStay DEF TrialInv, TrialTypes
  <1>4. /\ StateIsBacked(trial', control', tries') /\ ExecutionIsAhead(trial', control', tries')
        /\ EarlierRunsEnded(trial', control')
    <2>1. trial'.at \in Executing /\ trial'.at \notin {"subject", "score", "harness", "scored"}
      BY <1>2 DEF Executing, Storing
    <2> QED
      BY <1>2, <1>3, <2>1, ExecutionGoes
  <1>5. CommitIsOrdered(trial', control')
    BY <1>2 DEF CommitIsOrdered, Ends, Storing
  <1>6. RegisteredLoads'
    BY DEF TrialInv, RegisteredLoads
  <1> QED
    BY <1>3, <1>4, <1>5, <1>6 DEF TrialInv

-----------------------------------------------------------------------------
(* Each step of a trial keeps its invariant.                                *)

LEMMA AbortRests ==
  ASSUME TrialInv, Abort, UNCHANGED <<control, tries>>, LeftoversHold(leftovers', tries)
  PROVE  TrialInv'
  <1>1. trial' \in TrialRow /\ trial'.at = "off" /\ trial'.deep = trial.deep /\ trial'.run = 1
    BY AbortEffect DEF TrialInv
  <1>2. TrialTypes' /\ RegisteredLoads'
    BY <1>1 DEF TrialInv, TrialTypes, RegisteredLoads
  <1>3. \A r \in 1 .. LogicalRuns : control.report[r].error # "incomplete"
    BY DEF TrialInv, EarlierRunsEnded
  <1> QED
    BY <1>1, <1>2, <1>3, TrialRests DEF Executing, Storing

LEMMA NextRunRests ==
  ASSUME TrialInv, NextRun, trial.run <= LogicalRuns, UNCHANGED <<tries, leftovers>>, control' \in ControlRow,
         control'.state = control.state, control'.report = control.report, RegisteredLoads',
         control.state[trial.run].error # "incomplete"
  PROVE  TrialInv'
  <1>1. trial' \in TrialRow /\ trial'.at = "load" /\ trial'.deep = trial.deep /\ trial'.run = trial.run + 1
    BY NextRunEffect DEF TrialInv
  <1>2. TrialTypes'
    BY <1>1 DEF TrialInv, TrialTypes
  <1>3. /\ \A r \in 1 .. LogicalRuns : control.report[r].error # "incomplete"
        /\ \A r \in 1 .. LogicalRuns : r < trial.run => control.state[r].error # "incomplete"
    BY DEF TrialInv, EarlierRunsEnded
  <1>4. \A r \in 1 .. LogicalRuns : r < trial'.run => control.state[r].error # "incomplete"
    BY <1>1, <1>3 DEF TrialInv, TrialTypes, TrialRow
  <1> QED
    BY <1>1, <1>2, <1>3, <1>4, TrialRests DEF Executing, Storing

LEMMA FreshAttemptRests ==
  ASSUME TrialInv, FreshAttempt, trial.run <= LogicalRuns, UNCHANGED <<tries, leftovers>>, control' \in ControlRow,
         control'.state = control.state, control'.report = control.report, RegisteredLoads'
  PROVE  TrialInv'
  <1>0. TrialTypes /\ "attempt" \in TrialSteps
    BY DEF TrialInv, TrialSteps
  <1>1. trial' \in TrialRow /\ trial'.at = "attempt" /\ trial'.deep = trial.deep /\ trial'.run = trial.run
    BY <1>0, TrialToEffect DEF FreshAttempt
  <1>2. TrialTypes'
    BY <1>1 DEF TrialInv, TrialTypes
  <1>3. /\ \A r \in 1 .. LogicalRuns : control.report[r].error # "incomplete"
        /\ \A r \in 1 .. LogicalRuns : r < trial'.run => control.state[r].error # "incomplete"
    BY <1>1 DEF TrialInv, EarlierRunsEnded
  <1> QED
    BY <1>1, <1>2, <1>3, TrialRests DEF Executing, Storing

\* The registered record of a run decides where the trial goes on.
LEMMA LoadedKeeps ==
  ASSUME TrialInv, trial.run <= LogicalRuns, control.state[trial.run] # NoRecord, Loaded(control.state[trial.run]),
         UNCHANGED <<tries, leftovers>>, control' \in ControlRow, control'.state = control.state,
         control'.report = control.report, RegisteredLoads'
  PROVE  TrialInv'
  <1> DEFINE record == control.state[trial.run]
  <1>1. trial.run \in 1 .. LogicalRuns /\ TrialTypes /\ trial.deep \in BOOLEAN
    BY TrialAssumption DEF TrialInv, TrialTypes, TrialRow
  <1>2. record \in TrialRecord
    BY <1>1 DEF TrialTypes, ControlRow, Records
  <1>3. Kept(tries, trial.deep, trial.run, record.attempt, record.rounds) /\ Ends(trial.deep, record)
    BY <1>1 DEF TrialInv, StateIsBacked
  <1>4. Loaded(record) /\ record # NoRecord
    OBVIOUS
  <1>5. record.error \in {"none", "failed", "incomplete"} /\ (~ trial.deep => record.error # "incomplete")
    BY <1>3 DEF Ends
  <1>6. record = control.state[trial.run]
    OBVIOUS
  <1> HIDE DEF record
  <1>7. \/ NextRun /\ record.error # "incomplete"
        \/ Abort
        \/ SameAttempt(record)
        \/ FreshAttempt
    <2>1. CASE ~ trial.deep \/ record.error = "none"
      BY <1>4, <1>5, <2>1 DEF Loaded
    <2>2. CASE trial.deep /\ record.error # "none" /\ ~ ArtifactsHold(trial.run, record)
      BY <1>4, <2>2 DEF Loaded
    <2>3. CASE trial.deep /\ record.error = "incomplete" /\ ArtifactsHold(trial.run, record)
      BY <1>4, <2>3 DEF Loaded
    <2>4. CASE trial.deep /\ record.error = "failed" /\ ArtifactsHold(trial.run, record)
      BY <1>4, <2>4 DEF Loaded
    <2> QED
      BY <1>1, <1>5, <2>1, <2>2, <2>3, <2>4
  <1>8. CASE NextRun /\ record.error # "incomplete"
    BY <1>6, <1>8, NextRunRests
  <1>9. CASE FreshAttempt
    BY <1>9, FreshAttemptRests
  <1>10. CASE Abort
    <2>1. trial' \in TrialRow /\ trial'.at = "off" /\ trial'.deep = trial.deep /\ trial'.run = 1
      BY <1>1, <1>10, AbortEffect
    <2>2. TrialTypes'
      BY <2>1 DEF TrialInv, TrialTypes
    <2>3. \A r \in 1 .. LogicalRuns : control.report[r].error # "incomplete"
      BY DEF TrialInv, EarlierRunsEnded
    <2> QED
      BY <2>1, <2>2, <2>3, TrialRests DEF Executing, Storing
  <1>11. CASE SameAttempt(record)
    <2>1. /\ trial' \in TrialRow /\ trial'.at = "request" /\ trial'.deep = trial.deep /\ trial'.run = trial.run
          /\ trial'.attempt = record.attempt /\ trial'.rounds = record.rounds
      BY <1>1, <1>2, <1>11, SameAttemptEffect
    <2>2. TrialTypes'
      BY <2>1 DEF TrialInv, TrialTypes
    <2>3. StateIsBacked(trial', control', tries') /\ EarlierRunsEnded(trial', control')
      BY <2>1 DEF TrialInv, StateIsBacked, EarlierRunsEnded
    <2>4. ExecutionIsAhead(trial', control', tries')
      <3>1. Len(control.state[trial.run].rounds) <= Len(record.rounds)
        BY <1>2, <1>6 DEF TrialRecord
      <3> QED
        BY <1>3, <2>1, <3>1 DEF ExecutionIsAhead
    <2>5. CommitIsOrdered(trial', control')
      BY <2>1 DEF CommitIsOrdered, Storing
    <2> QED
      BY <2>2, <2>3, <2>4, <2>5 DEF TrialInv
  <1> QED
    BY <1>7, <1>8, <1>9, <1>10, <1>11

LEMMA StartTrialKeeps ==
  ASSUME TrialInv, StartTrial
  PROVE  TrialInv'
  <1>1. /\ trial' \in TrialRow /\ trial'.at \in {"prepare", "load"} /\ trial'.deep = trial.deep /\ trial'.run = trial.run
    <2> DEFINE step == IF control.workspace = "absent" THEN "prepare" ELSE "load"
    <2>1. step \in TrialSteps /\ step \in {"prepare", "load"}
      BY DEF TrialSteps
    <2>2. trial' = [trial EXCEPT !.at = step, !.starts = trial.starts + 1]
      BY DEF StartTrial
    <2>3. trial \in TrialRow /\ trial.starts + 1 \in Nat
      BY DEF TrialInv, TrialTypes, TrialRow
    <2> HIDE DEF step
    <2> QED
      BY <2>1, <2>2, <2>3 DEF TrialRow
  <1>2. /\ control' \in ControlRow /\ control'.state = control.state /\ control'.record = control.record
        /\ control'.backup = control.backup /\ control'.report = control.report
    BY DEF StartTrial, TrialInv, TrialTypes, ControlRow
  <1>3. UNCHANGED <<tries, leftovers>>
    BY DEF StartTrial
  <1>4. TrialTypes' /\ RegisteredLoads'
    BY <1>1, <1>2, <1>3 DEF TrialInv, TrialTypes, RegisteredLoads
  <1>5. /\ \A r \in 1 .. LogicalRuns : control'.report[r].error # "incomplete"
        /\ \A r \in 1 .. LogicalRuns : r < trial'.run => control.state[r].error # "incomplete"
    BY <1>1, <1>2 DEF TrialInv, EarlierRunsEnded
  <1> QED
    BY <1>1, <1>2, <1>3, <1>4, <1>5, TrialRests DEF Executing, Storing

LEMMA PrepareStateKeeps ==
  ASSUME TrialInv, PrepareState
  PROVE  TrialInv'
  <1>0. TrialTypes /\ "load" \in TrialSteps
    BY DEF TrialInv, TrialSteps
  <1>1. trial' \in TrialRow /\ trial'.at = "load" /\ trial'.deep = trial.deep /\ trial'.run = trial.run
    BY <1>0, TrialToEffect DEF PrepareState
  <1>2. /\ control' \in ControlRow /\ control'.state = control.state /\ control'.record = control.record
        /\ control'.backup = control.backup /\ control'.report = control.report
    BY DEF PrepareState, TrialInv, TrialTypes, ControlRow
  <1>3. UNCHANGED <<tries, leftovers>>
    BY DEF PrepareState
  <1>4. TrialTypes' /\ RegisteredLoads'
    BY <1>1, <1>2, <1>3 DEF TrialInv, TrialTypes, RegisteredLoads
  <1>5. /\ \A r \in 1 .. LogicalRuns : control'.report[r].error # "incomplete"
        /\ \A r \in 1 .. LogicalRuns : r < trial'.run => control.state[r].error # "incomplete"
    BY <1>1, <1>2 DEF TrialInv, EarlierRunsEnded
  <1> QED
    BY <1>1, <1>2, <1>3, <1>4, <1>5, TrialRests DEF Executing, Storing

\* The backup replaces the record: the trial can load it now.
LEMMA RestoredKeeps ==
  ASSUME TrialInv, trial.run \in 1 .. LogicalRuns, control.state[trial.run] # NoRecord, TrialTo("restored"),
         control.state[trial.run] = control.backup[trial.run], UNCHANGED <<tries, leftovers>>,
         control' = [control EXCEPT !.record[trial.run] = control.state[trial.run]]
  PROVE  TrialInv'
  <1>0. TrialTypes /\ "restored" \in TrialSteps
    BY DEF TrialInv, TrialSteps
  <1>1. trial' \in TrialRow /\ trial'.at = "restored" /\ trial'.deep = trial.deep /\ trial'.run = trial.run
    BY <1>0, TrialToEffect
  <1>2. /\ control' \in ControlRow /\ control'.state = control.state /\ control'.backup = control.backup
        /\ control'.report = control.report /\ control'.record = [control.record EXCEPT ![trial.run] = control.state[trial.run]]
    BY <1>0 DEF TrialTypes, ControlRow, Records
  <1>3. control'.record[trial.run] = control.state[trial.run]
    BY <1>0, <1>2 DEF TrialTypes, ControlRow, Records
  <1>4. TrialTypes'
    BY <1>1, <1>2 DEF TrialInv, TrialTypes
  <1>5. StateIsBacked(trial', control', tries') /\ EarlierRunsEnded(trial', control')
    BY <1>1, <1>2 DEF TrialInv, StateIsBacked, EarlierRunsEnded
  <1>6. ExecutionIsAhead(trial', control', tries')
    BY <1>0, <1>1 DEF ExecutionIsAhead, Executing, Storing, TrialTypes, TrialRow
  <1>7. CommitIsOrdered(trial', control')
    BY <1>1, <1>2, <1>3 DEF CommitIsOrdered, Storing
  <1>8. RegisteredLoads'
    BY <1>0, <1>2, <1>3 DEF TrialInv, RegisteredLoads, TrialTypes, ControlRow, Records
  <1> QED
    BY <1>4, <1>5, <1>6, <1>7, <1>8 DEF TrialInv

LEMMA LoadRecordKeeps ==
  ASSUME TrialInv, LoadRecord
  PROVE  TrialInv'
  <1> DEFINE registered == control.state[trial.run]
  <1>1. /\ trial.at = "load" /\ trial.run \in 1 .. LogicalRuns /\ UNCHANGED <<tries, leftovers>> /\ control \in ControlRow
        /\ TrialTypes
    BY TrialAssumption DEF LoadRecord, TrialAt, TrialInv, TrialTypes, TrialRow
  <1>2. \/ registered = NoRecord /\ FreshAttempt /\ UNCHANGED control
        \/ registered # NoRecord /\ registered = control.record[trial.run] /\ Loaded(registered) /\ UNCHANGED control
        \/ Abort /\ UNCHANGED control
        \/ /\ registered # NoRecord /\ registered = control.backup[trial.run] /\ TrialTo("restored")
           /\ control' = [control EXCEPT !.record[trial.run] = registered]
    BY DEF LoadRecord
  <1>3. CASE UNCHANGED control /\ (FreshAttempt \/ Abort \/ (registered # NoRecord /\ Loaded(registered)))
    <2>1. RegisteredLoads'
      BY <1>3 DEF TrialInv, RegisteredLoads
    <2>2. CASE FreshAttempt
      BY <1>1, <1>3, <2>1, <2>2, FreshAttemptRests
    <2>3. CASE registered # NoRecord /\ Loaded(registered)
      BY <1>1, <1>3, <2>1, <2>3, LoadedKeeps
    <2>4. CASE Abort
      <3>1. LeftoversHold(leftovers', tries)
        BY <1>1 DEF TrialTypes
      <3> QED
        BY <1>1, <1>3, <2>4, <3>1, AbortRests
    <2> QED
      BY <1>3, <2>2, <2>3, <2>4
  <1>4. CASE /\ registered # NoRecord /\ registered = control.backup[trial.run] /\ TrialTo("restored")
             /\ control' = [control EXCEPT !.record[trial.run] = registered]
    BY <1>1, <1>4, RestoredKeeps
  <1> QED
    BY <1>2, <1>3, <1>4

LEMMA DropBackupKeeps ==
  ASSUME TrialInv, DropBackup
  PROVE  TrialInv'
  <1>1. /\ trial.at = "restored" /\ Loaded(control.record[trial.run]) /\ UNCHANGED <<tries, leftovers>>
        /\ control' = [control EXCEPT !.backup[trial.run] = NoRecord]
    BY DEF DropBackup, TrialAt
  <1>2. /\ trial.run \in 1 .. LogicalRuns /\ control.state[trial.run] = control.record[trial.run]
        /\ control.state[trial.run] # NoRecord
    BY <1>1, TrialAssumption DEF TrialInv, TrialTypes, TrialRow, ExecutionIsAhead, CommitIsOrdered
  <1>3. /\ control' \in ControlRow /\ control'.state = control.state /\ control'.record = control.record
        /\ control'.report = control.report /\ control'.backup = [control.backup EXCEPT ![trial.run] = NoRecord]
    BY <1>1, <1>2, NoRecordIsRecord DEF TrialInv, TrialTypes, ControlRow, Records
  <1>4. \A r \in 1 .. LogicalRuns : r # trial.run => control'.backup[r] = control.backup[r]
    BY <1>3 DEF TrialInv, TrialTypes, ControlRow, Records
  <1>5. RegisteredLoads'
    BY <1>2, <1>3, <1>4 DEF TrialInv, RegisteredLoads
  <1> QED
    BY <1>1, <1>2, <1>3, <1>5, LoadedKeeps

LEMMA AttemptRootKeeps ==
  ASSUME TrialInv, AttemptRoot
  PROVE  TrialInv'
  <1> DEFINE last == Len(tries[trial.run]) + 1
  <1>1. /\ trial.at = "attempt" /\ trial.run \in 1 .. LogicalRuns /\ UNCHANGED <<control, leftovers>>
        /\ tries' = [tries EXCEPT ![trial.run] = Append(@, NewTry)]
        /\ trial' = [trial EXCEPT !.at = "request", !.attempt = last, !.rounds = << >>, !.resumed = FALSE]
    BY TrialAssumption DEF AttemptRoot, TrialAt, TrialInv, TrialTypes, TrialRow, ExecutionIsAhead
  <1>2. NewTry \in Try
    BY DEF NewTry, Try
  <1>3. tries \in Tries /\ tries[trial.run] \in Seq(Try) /\ last \in Nat
    BY <1>1 DEF TrialInv, TrialTypes, Tries
  <1>4. /\ tries' \in Tries /\ \A r \in 1 .. LogicalRuns : r # trial.run => tries'[r] = tries[r]
        /\ tries'[trial.run] = Append(tries[trial.run], NewTry)
    BY <1>1, <1>2, <1>3 DEF Tries
  <1>5. /\ last \in DOMAIN tries'[trial.run] /\ last \notin DOMAIN tries[trial.run]
        /\ \A a \in DOMAIN tries[trial.run] : a \in DOMAIN tries'[trial.run] /\ tries'[trial.run][a] = tries[trial.run][a]
    BY <1>2, <1>3, <1>4
  <1>6. Grows(tries, tries', {})
    BY <1>4, <1>5 DEF Grows
  <1>7. "request" \in TrialSteps /\ << >> \in Seq(Nat) /\ FALSE \in BOOLEAN
    BY DEF TrialSteps, Executing
  <1>8. /\ trial' \in TrialRow /\ trial'.at = "request" /\ trial'.deep = trial.deep /\ trial'.run = trial.run
        /\ trial'.attempt = last /\ trial'.rounds = << >>
    BY <1>1, <1>3, <1>7 DEF TrialInv, TrialTypes, TrialRow
  <1> HIDE DEF last
  <1>9. TrialTypes'
    BY <1>1, <1>4, <1>6, <1>8, LeftoversStay DEF TrialInv, TrialTypes
  <1>10. StateIsBacked(trial', control', tries')
    <2> SUFFICES ASSUME NEW r \in 1 .. LogicalRuns, control.state[r] # NoRecord
                 PROVE  /\ Kept(tries', trial.deep, r, control.state[r].attempt, control.state[r].rounds)
                        /\ Ends(trial.deep, control.state[r])
      BY <1>1, <1>8 DEF StateIsBacked
    <2>1. control.state[r] \in TrialRecord /\ trial.deep \in BOOLEAN
      BY DEF TrialInv, TrialTypes, TrialRow, ControlRow, Records
    <2>2. Kept(tries, trial.deep, r, control.state[r].attempt, control.state[r].rounds) /\ Ends(trial.deep, control.state[r])
      BY DEF TrialInv, StateIsBacked
    <2>3. control.state[r].rounds \in Seq(Nat)
      BY <2>1 DEF TrialRecord
    <2> QED
      BY <1>6, <2>1, <2>2, <2>3, KeptGrows
  <1>11. ExecutionIsAhead(trial', control', tries')
    <2>1. Len(<< >>) = 0 /\ Len(<< >>) <= LastOf(trial.deep) /\ DOMAIN << >> = {}
      BY TrialAssumption DEF LastOf
    <2>2. Kept(tries', trial.deep, trial.run, last, << >>)
      BY <1>5, <2>1 DEF Kept
    <2>3. control.state[trial.run].attempt = last => Len(control.state[trial.run].rounds) <= 0
      <3>1. CASE control.state[trial.run] = NoRecord
        BY <3>1 DEF NoRecord
      <3>2. CASE control.state[trial.run] # NoRecord
        BY <1>1, <1>5, <3>2 DEF TrialInv, StateIsBacked, Kept
      <3> QED
        BY <3>1, <3>2
    <2> QED
      BY <1>1, <1>8, <2>1, <2>2, <2>3 DEF ExecutionIsAhead
  <1>12. CommitIsOrdered(trial', control')
    BY <1>8 DEF CommitIsOrdered, Storing
  <1>13. EarlierRunsEnded(trial', control') /\ RegisteredLoads'
    BY <1>1, <1>8 DEF TrialInv, EarlierRunsEnded, RegisteredLoads
  <1> QED
    BY <1>9, <1>10, <1>11, <1>12, <1>13 DEF TrialInv

\* What is known of a round that is executed.
LEMMA RoundRuns ==
  ASSUME TrialInv, trial.at \in Executing
  PROVE  /\ TrialTypes /\ trial.run \in 1 .. LogicalRuns /\ trial.rounds \in Seq(Nat) /\ trial.deep \in BOOLEAN
         /\ trial.attempt \in DOMAIN tries[trial.run] /\ Current \in Try /\ Round = Len(trial.rounds) + 1 /\ Round \in Nat
         /\ Kept(tries, trial.deep, trial.run, trial.attempt, trial.rounds)
         /\ control \in ControlRow /\ control.state[trial.run] \in TrialRecord /\ tries \in Tries
         /\ LastRound = LastOf(trial.deep) /\ Len(trial.rounds) <= LastOf(trial.deep)
         /\ trial.at \in {"subject", "score", "harness", "scored"} => Round \in 1 .. OuterRounds
  <1>1. TrialTypes /\ trial.run \in 1 .. LogicalRuns /\ trial.rounds \in Seq(Nat) /\ trial.deep \in BOOLEAN
    BY TrialAssumption DEF TrialInv, TrialTypes, TrialRow, ExecutionIsAhead
  <1>2. Kept(tries, trial.deep, trial.run, trial.attempt, trial.rounds)
    BY DEF TrialInv, ExecutionIsAhead
  <1>3. tries[trial.run] \in Seq(Try) /\ trial.attempt \in DOMAIN tries[trial.run]
    BY <1>1, <1>2 DEF TrialTypes, Tries, Kept
  <1>4. Current \in Try /\ Round = Len(trial.rounds) + 1 /\ Round \in Nat
    BY <1>1, <1>3 DEF Current, Round
  <1>5. trial.at \in {"subject", "score", "harness", "scored"} => Round \in 1 .. OuterRounds
    BY <1>1, <1>4, TrialAssumption DEF TrialInv, ExecutionIsAhead, LastOf
  <1>6. control \in ControlRow /\ control.state[trial.run] \in TrialRecord /\ tries \in Tries
    BY <1>1 DEF TrialTypes, ControlRow, Records
  <1> QED
    BY <1>1, <1>2, <1>3, <1>4, <1>5, <1>6 DEF Kept, LastRound, LastOf

\* The directory of the attempt that is executed is written.
LEMMA CurrentWritten ==
  ASSUME TrialInv, trial.at \in Executing, NEW new \in Try, NEW lost, WithTry(new), Current.receipts \subseteq new.receipts,
         \A k \in 1 .. OuterRounds : Current.scores[k] # 0 /\ <<trial.run, trial.attempt, k>> \notin lost
                                      => new.scores[k] = Current.scores[k]
  PROVE  /\ tries' \in Tries /\ Grows(tries, tries', lost) /\ tries'[trial.run][trial.attempt] = new
         /\ \A r \in 1 .. LogicalRuns : DOMAIN tries'[r] = DOMAIN tries[r]
  <1> DEFINE run == trial.run
             attempt == trial.attempt
             u == tries'
  <1>1. run \in 1 .. LogicalRuns /\ tries \in Tries /\ attempt \in DOMAIN tries[run]
    BY RoundRuns
  <1>2. tries' = [tries EXCEPT ![run] = [tries[run] EXCEPT ![attempt] = new]]
    BY <1>1 DEF WithTry, Tries
  <1>3. /\ DOMAIN u = 1 .. LogicalRuns /\ \A r \in 1 .. LogicalRuns : r # run => u[r] = tries[r]
        /\ u[run] = [tries[run] EXCEPT ![attempt] = new] /\ u = [r \in 1 .. LogicalRuns |-> u[r]]
    BY <1>1, <1>2 DEF Tries
  <1>8. /\ u[run] \in Seq(Try) /\ DOMAIN u[run] = DOMAIN tries[run] /\ u[run][attempt] = new
        /\ \A a \in DOMAIN tries[run] : a # attempt => u[run][a] = tries[run][a]
    <2>1. tries[run] \in Seq(Try)
      BY <1>1 DEF Tries
    <2> QED
      BY <1>1, <1>3, <2>1
  <1>4. /\ tries[run][attempt].receipts \subseteq new.receipts
        /\ \A k \in 1 .. OuterRounds : tries[run][attempt].scores[k] # 0 /\ <<run, attempt, k>> \notin lost
                                       => new.scores[k] = tries[run][attempt].scores[k]
    BY DEF Current
  <1>5. run = trial.run /\ attempt = trial.attempt /\ u = tries'
    OBVIOUS
  <1> HIDE DEF run, attempt, u
  <1>6. /\ \A r \in 1 .. LogicalRuns : u[r] \in Seq(Try) /\ DOMAIN u[r] = DOMAIN tries[r]
        /\ Grows(tries, u, lost) /\ u[run][attempt] = new
    <2>1. \A r \in 1 .. LogicalRuns : u[r] \in Seq(Try) /\ DOMAIN u[r] = DOMAIN tries[r]
      BY <1>1, <1>3, <1>8 DEF Tries
    <2>2. Grows(tries, u, lost)
      BY <1>3, <1>4, <1>8 DEF Grows
    <2> QED
      BY <1>8, <2>1, <2>2
  <1>7. u \in Tries
    BY <1>3, <1>6 DEF Tries
  <1> QED
    BY <1>5, <1>6, <1>7

\* The trial goes on with the round, or gives it up, while its files grow.
LEMMA RoundGoes ==
  ASSUME TrialInv, trial.at \in Executing, tries' \in Tries, Grows(tries, tries', {}), UNCHANGED <<control, leftovers>>,
         NEW step \in {"subject", "score"}, TrialTo(step), Len(trial.rounds) < LastOf(trial.deep),
         step = "score" => Round \in tries'[trial.run][trial.attempt].receipts
  PROVE  TrialInv'
  <1>1. TrialTypes /\ step \in TrialSteps /\ step \in Executing
    BY DEF TrialInv, TrialSteps, Executing
  <1>2. /\ trial' \in TrialRow /\ trial'.at = step /\ trial'.deep = trial.deep /\ trial'.run = trial.run
        /\ trial'.attempt = trial.attempt /\ trial'.rounds = trial.rounds
    BY <1>1, TrialToEffect
  <1>3. TrialTypes'
    BY <1>1, <1>2, LeftoversStay DEF TrialTypes
  <1>4. /\ StateIsBacked(trial', control', tries') /\ ExecutionIsAhead(trial', control', tries')
        /\ EarlierRunsEnded(trial', control')
    BY <1>1, <1>2, <1>3, RoundRuns, ExecutionGoes
  <1>5. CommitIsOrdered(trial', control')
    BY <1>2 DEF CommitIsOrdered, Storing
  <1>6. RegisteredLoads'
    BY DEF TrialInv, RegisteredLoads
  <1> QED
    BY <1>3, <1>4, <1>5, <1>6 DEF TrialInv

LEMMA FailRunKeeps ==
  ASSUME TrialInv, trial.at \in Executing, tries' \in Tries, Grows(tries, tries', {}), UNCHANGED <<control, leftovers>>, FailRun
  PROVE  TrialInv'
  BY RunIsStored DEF FailRun

LEMMA BoundaryKeeps ==
  ASSUME TrialInv, trial.at \in Executing, tries' \in Tries, Grows(tries, tries', {}), UNCHANGED <<control, leftovers>>, Boundary
  PROVE  TrialInv'
  <1>1. CASE FailRun
    BY <1>1, FailRunKeeps
  <1>2. CASE Abort
    <2>1. trial' \in TrialRow /\ trial'.at = "off" /\ trial'.deep = trial.deep /\ trial'.run = 1 /\ TrialTypes
      BY <1>2, AbortEffect DEF TrialInv
    <2>2. TrialTypes'
      BY <2>1, LeftoversStay DEF TrialTypes
    <2>3. StateIsBacked(trial', control', tries')
      <3> SUFFICES ASSUME NEW r \in 1 .. LogicalRuns, control.state[r] # NoRecord
                   PROVE  /\ Kept(tries', trial.deep, r, control.state[r].attempt, control.state[r].rounds)
                          /\ Ends(trial.deep, control.state[r])
        BY <2>1 DEF StateIsBacked
      <3>1. control.state[r] \in TrialRecord /\ trial.deep \in BOOLEAN
        BY DEF TrialInv, TrialTypes, TrialRow, ControlRow, Records
      <3>2. /\ Kept(tries, trial.deep, r, control.state[r].attempt, control.state[r].rounds)
            /\ Ends(trial.deep, control.state[r])
        BY DEF TrialInv, StateIsBacked
      <3>3. control.state[r].rounds \in Seq(Nat)
        BY <3>1 DEF TrialRecord
      <3> QED
        BY <3>1, <3>2, <3>3, KeptGrows
    <2>4. ExecutionIsAhead(trial', control', tries') /\ CommitIsOrdered(trial', control')
      BY <2>1 DEF ExecutionIsAhead, CommitIsOrdered, Executing, Storing
    <2>5. EarlierRunsEnded(trial', control') /\ RegisteredLoads'
      BY <2>1 DEF TrialInv, EarlierRunsEnded, RegisteredLoads
    <2> QED
      BY <2>2, <2>3, <2>4, <2>5 DEF TrialInv
  <1> QED
    BY <1>1, <1>2 DEF Boundary

LEMMA RequestRoundKeeps ==
  ASSUME TrialInv, RequestRound
  PROVE  TrialInv'
  <1>1. trial.at = "request" /\ trial.at \in Executing /\ UNCHANGED <<control, tries, leftovers>>
    BY DEF RequestRound, TrialAt, Executing
  <1>2. Grows(tries, tries', {}) /\ tries' \in Tries
    BY <1>1, GrowsStays, RoundRuns
  <1>3. \/ Round > LastRound /\ Store(trial.rounds, "none")
        \/ Boundary
        \/ FailRun
        \/ Round <= LastRound /\ Round \in Current.receipts /\ TrialTo("score")
        \/ Round <= LastRound /\ TrialTo("subject")
    <2>1. Round \in Nat /\ LastRound \in Nat
      BY <1>1, RoundRuns, TrialAssumption DEF LastOf
    <2> QED
      BY <2>1 DEF RequestRound
  <1>4. CASE Round > LastRound /\ Store(trial.rounds, "none")
    <2>1. Len(trial.rounds) = LastOf(trial.deep)
      BY <1>1, <1>4, RoundRuns, TrialAssumption DEF LastOf
    <2> QED
      BY <1>1, <1>2, <1>4, <2>1, RunIsStored
  <1>5. CASE Boundary
    BY <1>1, <1>2, <1>5, BoundaryKeeps
  <1>6. CASE FailRun
    BY <1>1, <1>2, <1>6, FailRunKeeps
  <1>7. Round <= LastRound => Len(trial.rounds) < LastOf(trial.deep)
    BY <1>1, RoundRuns, TrialAssumption DEF LastOf
  <1>8. CASE Round <= LastRound /\ Round \in Current.receipts /\ TrialTo("score")
    <2>1. Round \in tries'[trial.run][trial.attempt].receipts
      BY <1>1, <1>8 DEF Current
    <2> QED
      BY <1>1, <1>2, <1>7, <1>8, <2>1, RoundGoes
  <1>9. CASE Round <= LastRound /\ TrialTo("subject")
    BY <1>1, <1>2, <1>7, <1>9, RoundGoes
  <1> QED
    BY <1>3, <1>4, <1>5, <1>6, <1>8, <1>9

LEMMA SubjectReceiptKeeps ==
  ASSUME TrialInv, RunSubject, SubjectReceipt
  PROVE  TrialInv'
  <1> DEFINE new == [Current EXCEPT !.receipts = @ \cup {Round}]
  <1>1. /\ trial.at = "subject" /\ trial.at \in Executing /\ UNCHANGED <<control, leftovers>> /\ WithTry(new)
        /\ TrialTo("score")
    BY DEF RunSubject, SubjectReceipt, TrialAt, Executing
  <1>2. new \in Try /\ new.receipts = Current.receipts \cup {Round} /\ new.scores = Current.scores
    BY <1>1, RoundRuns DEF Try
  <1> HIDE DEF new
  <1>3. tries' \in Tries /\ Grows(tries, tries', {}) /\ tries'[trial.run][trial.attempt] = new
    BY <1>1, <1>2, CurrentWritten
  <1>4. Len(trial.rounds) < LastOf(trial.deep)
    BY <1>1 DEF TrialInv, ExecutionIsAhead
  <1>5. Round \in tries'[trial.run][trial.attempt].receipts
    BY <1>2, <1>3
  <1> QED
    BY <1>1, <1>3, <1>4, <1>5, RoundGoes

LEMMA SubjectStraysKeeps ==
  ASSUME TrialInv, RunSubject, SubjectStrays
  PROVE  TrialInv'
  <1>1. trial.at = "subject" /\ trial.at \in Executing /\ UNCHANGED leftovers
    BY DEF RunSubject, TrialAt, Executing
  <1>2. CASE WithTry([Current EXCEPT !.touched = TRUE]) /\ Boundary /\ UNCHANGED control
    <2> DEFINE new == [Current EXCEPT !.touched = TRUE]
    <2>1. new \in Try /\ new.receipts = Current.receipts /\ new.scores = Current.scores
      BY <1>1, RoundRuns DEF Try
    <2>2. WithTry(new)
      BY <1>2
    <2> HIDE DEF new
    <2>3. tries' \in Tries /\ Grows(tries, tries', {})
      BY <1>1, <2>1, <2>2, CurrentWritten
    <2> QED
      BY <1>1, <1>2, <2>3, BoundaryKeeps
  <1>3. CASE WithTry([Current EXCEPT !.dirs = @ \cup {Round}]) /\ FailRun /\ UNCHANGED control
    <2> DEFINE new == [Current EXCEPT !.dirs = @ \cup {Round}]
    <2>1. new \in Try /\ new.receipts = Current.receipts /\ new.scores = Current.scores
      BY <1>1, RoundRuns DEF Try
    <2>2. WithTry(new)
      BY <1>3
    <2> HIDE DEF new
    <2>3. tries' \in Tries /\ Grows(tries, tries', {})
      BY <1>1, <2>1, <2>2, CurrentWritten
    <2> QED
      BY <1>1, <1>3, <2>3, FailRunKeeps
  <1>4. CASE \E r \in trial.run + 1 .. LogicalRuns :
               /\ control.state[r] = NoRecord /\ control' = [control EXCEPT !.record[r] = StrayRecord]
               /\ UNCHANGED <<trial, tries>>
    <2>1. PICK r \in trial.run + 1 .. LogicalRuns :
               /\ control.state[r] = NoRecord /\ control' = [control EXCEPT !.record[r] = StrayRecord]
               /\ UNCHANGED <<trial, tries>>
      BY <1>4
    <2>2. r \in 1 .. LogicalRuns /\ r # trial.run
      BY <1>1, RoundRuns
    <2>3. /\ control' \in ControlRow /\ control'.state = control.state /\ control'.backup = control.backup
          /\ control'.report = control.report /\ control'.record = [control.record EXCEPT ![r] = StrayRecord]
      BY <1>1, <2>1, <2>2, NoRecordIsRecord, RoundRuns DEF ControlRow, Records
    <2>4. \A s \in 1 .. LogicalRuns : s # r => control'.record[s] = control.record[s]
      BY <1>1, <2>3, RoundRuns DEF ControlRow, Records
    <2>5. TrialTypes'
      BY <1>1, <2>1, <2>3 DEF TrialInv, TrialTypes
    <2>6. /\ StateIsBacked(trial', control', tries') /\ ExecutionIsAhead(trial', control', tries')
          /\ EarlierRunsEnded(trial', control')
      BY <2>1, <2>3 DEF TrialInv, StateIsBacked, ExecutionIsAhead, EarlierRunsEnded
    <2>7. CommitIsOrdered(trial', control')
      BY <1>1, <2>1 DEF CommitIsOrdered, Storing
    <2>8. RegisteredLoads'
      BY <2>1, <2>2, <2>3, <2>4 DEF TrialInv, RegisteredLoads
    <2> QED
      BY <2>5, <2>6, <2>7, <2>8 DEF TrialInv
  <1> QED
    BY <1>2, <1>3, <1>4 DEF SubjectStrays

LEMMA RunSubjectKeeps ==
  ASSUME TrialInv, RunSubject
  PROVE  TrialInv'
  <1>1. CASE SubjectFails
    <2>1. trial.at \in Executing /\ UNCHANGED <<control, tries, leftovers>>
      BY <1>1 DEF RunSubject, SubjectFails, TrialAt, Executing
    <2> QED
      BY <1>1, <2>1, GrowsStays, RoundRuns, FailRunKeeps DEF SubjectFails
  <1> QED
    BY <1>1, SubjectReceiptKeeps, SubjectStraysKeeps DEF RunSubject

LEMMA HarnessRootKeeps ==
  ASSUME TrialInv, HarnessRoot
  PROVE  TrialInv'
  <1> DEFINE new == [Current EXCEPT !.dirs = @ \cup {Round}, !.scores[Round] = 0]
             lost == {<<trial.run, trial.attempt, Len(trial.rounds) + 1>>}
  <1>1. /\ trial.at = "score" /\ trial.at \in Executing /\ UNCHANGED <<control, leftovers>> /\ WithTry(new)
        /\ TrialTo("harness")
    BY DEF HarnessRoot, TrialAt, Executing
  <1>2. /\ new \in Try /\ new.receipts = Current.receipts
        /\ \A k \in 1 .. OuterRounds : k # Round => new.scores[k] = Current.scores[k]
    BY <1>1, RoundRuns DEF Try
  <1>3. \A k \in 1 .. OuterRounds : <<trial.run, trial.attempt, k>> \notin lost => new.scores[k] = Current.scores[k]
    BY <1>1, <1>2, RoundRuns
  <1> HIDE DEF new
  <1>4. tries' \in Tries /\ Grows(tries, tries', lost) /\ tries'[trial.run][trial.attempt] = new
    <2> HIDE DEF lost
    <2> QED
      BY <1>1, <1>2, <1>3, CurrentWritten
  <1>5. TrialTypes /\ "harness" \in TrialSteps
    BY DEF TrialInv, TrialSteps, Executing
  <1>6. /\ trial' \in TrialRow /\ trial'.at = "harness" /\ trial'.deep = trial.deep /\ trial'.run = trial.run
        /\ trial'.attempt = trial.attempt /\ trial'.rounds = trial.rounds
    BY <1>1, <1>5, TrialToEffect
  <1>7. TrialTypes'
    BY <1>1, <1>4, <1>5, <1>6, LeftoversStay DEF TrialTypes
  <1>8. Len(trial.rounds) < LastOf(trial.deep) /\ Round \in Current.receipts /\ Round = Len(trial.rounds) + 1
    BY <1>1, RoundRuns DEF TrialInv, ExecutionIsAhead, Current
  <1>9. Len(trial.rounds) + 1 \in tries'[trial.run][trial.attempt].receipts
    BY <1>2, <1>4, <1>8
  <1>10. /\ StateIsBacked(trial', control', tries') /\ ExecutionIsAhead(trial', control', tries')
         /\ EarlierRunsEnded(trial', control')
    <2>1. trial'.at \in Executing /\ lost \in {{}, {<<trial.run, trial.attempt, Len(trial.rounds) + 1>>}}
      BY <1>6 DEF Executing
    <2> HIDE DEF lost
    <2> QED
      BY <1>1, <1>4, <1>6, <1>7, <1>8, <1>9, <2>1, ExecutionGoes
  <1>11. CommitIsOrdered(trial', control')
    BY <1>6 DEF CommitIsOrdered, Storing
  <1>12. RegisteredLoads'
    BY <1>1 DEF TrialInv, RegisteredLoads
  <1> QED
    BY <1>7, <1>10, <1>11, <1>12 DEF TrialInv

LEMMA RunHarnessKeeps ==
  ASSUME TrialInv, RunHarness
  PROVE  TrialInv'
  <1>1. trial.at = "harness" /\ trial.at \in Executing /\ UNCHANGED <<control, leftovers>>
    BY DEF RunHarness, TrialAt, Executing
  <1>2. CASE HarnessFails
    BY <1>1, <1>2, GrowsStays, RoundRuns, FailRunKeeps DEF HarnessFails
  <1>3. CASE HarnessReceipt
    <2> DEFINE score == trial.harness + 1
               new == [Current EXCEPT !.scores[Round] = score]
    <2>1. /\ Current.scores[Round] = 0 /\ WithTry(new)
          /\ trial' = [trial EXCEPT !.at = "scored", !.harness = score]
      BY <1>3 DEF HarnessReceipt
    <2>2. score \in Nat /\ score # 0 /\ trial \in TrialRow
      BY DEF TrialInv, TrialTypes, TrialRow
    <2> HIDE DEF score
    <2>3. /\ new \in Try /\ new.receipts = Current.receipts /\ new.scores[Round] = score
          /\ \A k \in 1 .. OuterRounds : k # Round => new.scores[k] = Current.scores[k]
      BY <1>1, <2>2, RoundRuns DEF Try
    <2> HIDE DEF new
    <2>4. tries' \in Tries /\ Grows(tries, tries', {}) /\ tries'[trial.run][trial.attempt] = new
      BY <1>1, <2>1, <2>3, CurrentWritten
    <2>5. "scored" \in TrialSteps /\ "scored" \in Executing
      BY DEF TrialSteps, Executing
    <2>6. /\ trial' \in TrialRow /\ trial'.at = "scored" /\ trial'.deep = trial.deep /\ trial'.run = trial.run
          /\ trial'.attempt = trial.attempt /\ trial'.rounds = trial.rounds
      BY <2>1, <2>2, <2>5 DEF TrialRow
    <2>7. TrialTypes'
      BY <1>1, <2>4, <2>6, LeftoversStay DEF TrialInv, TrialTypes
    <2>8. Len(trial.rounds) < LastOf(trial.deep) /\ Round \in Current.receipts /\ Round = Len(trial.rounds) + 1
      BY <1>1, RoundRuns DEF TrialInv, ExecutionIsAhead, Current
    <2>9. /\ StateIsBacked(trial', control', tries') /\ ExecutionIsAhead(trial', control', tries')
          /\ EarlierRunsEnded(trial', control')
      BY <1>1, <2>2, <2>3, <2>4, <2>5, <2>6, <2>7, <2>8, ExecutionGoes
    <2>10. CommitIsOrdered(trial', control')
      BY <2>6 DEF CommitIsOrdered, Storing
    <2>11. RegisteredLoads'
      BY <1>1 DEF TrialInv, RegisteredLoads
    <2> QED
      BY <2>7, <2>9, <2>10, <2>11 DEF TrialInv
  <1> QED
    BY <1>2, <1>3 DEF RunHarness

LEMMA ScoreRoundKeeps ==
  ASSUME TrialInv, ScoreRound
  PROVE  TrialInv'
  <1>1. trial.at = "scored" /\ trial.at \in Executing /\ UNCHANGED <<control, tries, leftovers>>
    BY DEF ScoreRound, TrialAt, Executing
  <1>2. CASE FailRun
    BY <1>1, <1>2, GrowsStays, RoundRuns, FailRunKeeps
  <1>3. CASE Store(Append(trial.rounds, Current.scores[Round]), IF trial.deep THEN "incomplete" ELSE "none")
    <2> DEFINE score == Current.scores[Round]
               rounds == Append(trial.rounds, score)
               error == IF trial.deep THEN "incomplete" ELSE "none"
    <2>1. /\ TrialTypes /\ trial.rounds \in Seq(Nat) /\ Round = Len(trial.rounds) + 1 /\ Round \in 1 .. OuterRounds
          /\ Current \in Try /\ Len(trial.rounds) < LastOf(trial.deep) /\ Round \in Current.receipts /\ score # 0
          /\ trial.deep \in BOOLEAN /\ trial.run \in 1 .. LogicalRuns
      BY <1>1, RoundRuns DEF TrialInv, ExecutionIsAhead, Current
    <2>2. score \in Nat
      BY <2>1 DEF Try
    <2>3. error \in {"none", "failed", "incomplete"} /\ (error = "incomplete" => trial.deep) /\ (error = "none" => ~ trial.deep)
      BY <2>1
    <2>4. Store(rounds, error)
      BY <1>3
    <2>5. score = Current.scores[Round]
      OBVIOUS
    <2> HIDE DEF score, error
    <2>6. /\ rounds \in Seq(Nat) /\ Len(rounds) = Len(trial.rounds) + 1 /\ rounds[Len(rounds)] = score
          /\ \A k \in 1 .. Len(trial.rounds) : rounds[k] = trial.rounds[k]
          /\ DOMAIN rounds = 1 .. Len(trial.rounds) + 1 /\ DOMAIN trial.rounds = 1 .. Len(trial.rounds)
      BY <2>1, <2>2
    <2> HIDE DEF rounds
    <2>7. /\ trial' \in TrialRow /\ trial'.at = "backup" /\ trial'.deep = trial.deep /\ trial'.run = trial.run
          /\ trial'.attempt = trial.attempt /\ trial'.rounds = rounds
          /\ trial'.pending = [attempt |-> trial.attempt, rounds |-> rounds, error |-> error]
      BY <2>1, <2>3, <2>4, <2>6, StoreEffect
    <2>8. TrialTypes'
      BY <1>1, <2>1, <2>7 DEF TrialTypes
    <2>9. Kept(tries, trial.deep, trial.run, trial.attempt, rounds)
      <3>1. /\ Kept(tries, trial.deep, trial.run, trial.attempt, trial.rounds)
            /\ Round \in tries[trial.run][trial.attempt].receipts /\ score = tries[trial.run][trial.attempt].scores[Round]
        BY <1>1, <2>1, <2>5, RoundRuns DEF Current
      <3>2. Len(rounds) <= LastOf(trial.deep)
        BY <2>1, <2>6, TrialAssumption DEF LastOf
      <3>3. ASSUME NEW k \in DOMAIN rounds
            PROVE  /\ k \in tries[trial.run][trial.attempt].receipts
                   /\ tries[trial.run][trial.attempt].scores[k] = rounds[k] /\ rounds[k] # 0
        <4>1. CASE k = Len(trial.rounds) + 1
          BY <2>1, <2>6, <3>1, <4>1
        <4>2. CASE k \in 1 .. Len(trial.rounds)
          BY <2>6, <3>1, <4>2 DEF Kept
        <4> QED
          BY <2>1, <2>6, <4>1, <4>2
      <3> QED
        BY <3>1, <3>2, <3>3 DEF Kept
    <2>10. StateIsBacked(trial', control', tries') /\ EarlierRunsEnded(trial', control')
      BY <1>1, <2>7 DEF TrialInv, StateIsBacked, EarlierRunsEnded
    <2>11. ExecutionIsAhead(trial', control', tries')
      <3>1. control.state[trial.run].attempt = trial.attempt => Len(control.state[trial.run].rounds) <= Len(rounds)
        <4>1. control.state[trial.run].rounds \in Seq(Nat)
          BY <1>1, RoundRuns DEF TrialRecord
        <4>2. control.state[trial.run].attempt = trial.attempt => Len(control.state[trial.run].rounds) <= Len(trial.rounds)
          BY <1>1 DEF TrialInv, ExecutionIsAhead
        <4> QED
          BY <2>1, <2>6, <4>1, <4>2
      <3> QED
        BY <1>1, <2>1, <2>7, <2>9, <3>1 DEF ExecutionIsAhead
    <2>12. CommitIsOrdered(trial', control')
      <3>1. error = "none" => Len(rounds) = LastOf(trial.deep)
        BY <2>1, <2>3, <2>6 DEF LastOf
      <3> QED
        BY <2>3, <2>7, <3>1 DEF CommitIsOrdered, Ends, Storing
    <2>13. RegisteredLoads'
      BY <1>1 DEF TrialInv, RegisteredLoads
    <2> QED
      BY <2>8, <2>10, <2>11, <2>12, <2>13 DEF TrialInv
  <1> QED
    BY <1>2, <1>3 DEF ScoreRound

\* The commit of a record goes on; the record, or its backup, is written.
LEMMA CommitGoes ==
  ASSUME TrialInv, trial.at \in Storing, NEW step \in Storing, TrialTo(step), UNCHANGED <<tries, leftovers>>,
         control' \in ControlRow, control'.state = control.state, control'.report = control.report
  PROVE  /\ TrialTypes' /\ StateIsBacked(trial', control', tries') /\ ExecutionIsAhead(trial', control', tries')
         /\ EarlierRunsEnded(trial', control')
         /\ trial'.at = step /\ trial'.deep = trial.deep /\ trial'.run = trial.run
         /\ trial'.attempt = trial.attempt /\ trial'.rounds = trial.rounds /\ trial'.pending = trial.pending
         /\ Ends(trial.deep, trial.pending) /\ trial.pending.attempt = trial.attempt /\ trial.pending.rounds = trial.rounds
  <1>1. TrialTypes /\ step \in TrialSteps /\ step \in Executing /\ trial.at \in Executing
    BY DEF TrialInv, TrialSteps, Executing
  <1>2. /\ trial' \in TrialRow /\ trial'.at = step /\ trial'.deep = trial.deep /\ trial'.run = trial.run
        /\ trial'.attempt = trial.attempt /\ trial'.rounds = trial.rounds /\ trial'.pending = trial.pending
    BY <1>1, TrialToEffect
  <1>3. TrialTypes'
    BY <1>1, <1>2 DEF TrialTypes
  <1>4. step \notin {"subject", "score", "harness", "scored"}
    BY DEF Storing
  <1>5. /\ StateIsBacked(trial', control', tries') /\ ExecutionIsAhead(trial', control', tries')
        /\ EarlierRunsEnded(trial', control')
    BY <1>1, <1>2, <1>3, <1>4, GrowsStays, ExecutionGoes
  <1>6. Ends(trial.deep, trial.pending) /\ trial.pending.attempt = trial.attempt /\ trial.pending.rounds = trial.rounds
    BY DEF TrialInv, CommitIsOrdered
  <1> QED
    BY <1>2, <1>3, <1>5, <1>6

LEMMA KeepPreviousKeeps ==
  ASSUME TrialInv, KeepPrevious
  PROVE  TrialInv'
  <1> DEFINE registered == control.state[trial.run]
  <1>1. trial.at = "backup" /\ trial.at \in Storing /\ trial.at \in Executing /\ UNCHANGED <<tries, leftovers>>
    BY DEF KeepPrevious, TrialAt, Executing, Storing
  <1>2. \/ registered = NoRecord /\ TrialTo("record") /\ UNCHANGED control
        \/ /\ registered # NoRecord /\ registered = control.record[trial.run]
           /\ TrialTo("record") /\ control' = [control EXCEPT !.backup[trial.run] = registered]
        \/ Abort /\ UNCHANGED control
    BY DEF KeepPrevious
  <1>3. TrialTypes /\ control \in ControlRow /\ trial.run \in 1 .. LogicalRuns /\ registered \in TrialRecord /\ "record" \in Storing
    BY <1>1, RoundRuns DEF Storing
  <1>4. CASE Abort /\ UNCHANGED control
    <2>1. LeftoversHold(leftovers', tries)
      BY <1>1, <1>3 DEF TrialTypes
    <2> QED
      BY <1>1, <1>4, <2>1, AbortRests
  <1>5. CASE TrialTo("record") /\ registered = NoRecord /\ UNCHANGED control
    <2>1. /\ TrialTypes' /\ StateIsBacked(trial', control', tries') /\ ExecutionIsAhead(trial', control', tries')
          /\ EarlierRunsEnded(trial', control')
          /\ trial'.at = "record" /\ trial'.deep = trial.deep /\ trial'.run = trial.run
          /\ trial'.attempt = trial.attempt /\ trial'.rounds = trial.rounds /\ trial'.pending = trial.pending
          /\ Ends(trial.deep, trial.pending) /\ trial.pending.attempt = trial.attempt /\ trial.pending.rounds = trial.rounds
      BY <1>1, <1>3, <1>5, CommitGoes
    <2>2. CommitIsOrdered(trial', control')
      BY <1>5, <2>1 DEF CommitIsOrdered
    <2>3. RegisteredLoads'
      BY <1>5 DEF TrialInv, RegisteredLoads
    <2> QED
      BY <2>1, <2>2, <2>3 DEF TrialInv
  <1>6. CASE /\ registered # NoRecord /\ registered = control.record[trial.run]
             /\ TrialTo("record") /\ control' = [control EXCEPT !.backup[trial.run] = registered]
    <2>0. /\ control' \in ControlRow /\ control'.state = control.state /\ control'.report = control.report
          /\ control'.record = control.record /\ control'.backup = [control.backup EXCEPT ![trial.run] = registered]
      BY <1>3, <1>6 DEF ControlRow, Records
    <2>1. /\ TrialTypes' /\ StateIsBacked(trial', control', tries') /\ ExecutionIsAhead(trial', control', tries')
          /\ EarlierRunsEnded(trial', control')
          /\ trial'.at = "record" /\ trial'.deep = trial.deep /\ trial'.run = trial.run
          /\ trial'.attempt = trial.attempt /\ trial'.rounds = trial.rounds /\ trial'.pending = trial.pending
          /\ Ends(trial.deep, trial.pending) /\ trial.pending.attempt = trial.attempt /\ trial.pending.rounds = trial.rounds
      BY <1>1, <1>3, <1>6, <2>0, CommitGoes
    <2>2. /\ control'.backup[trial.run] = registered
          /\ \A r \in 1 .. LogicalRuns : r # trial.run => control'.backup[r] = control.backup[r]
      BY <1>3, <2>0 DEF ControlRow, Records
    <2>3. CommitIsOrdered(trial', control')
      BY <2>0, <2>1, <2>2 DEF CommitIsOrdered
    <2>4. RegisteredLoads'
      BY <1>6, <2>0, <2>2 DEF TrialInv, RegisteredLoads
    <2> QED
      BY <2>1, <2>3, <2>4 DEF TrialInv
  <1> QED
    BY <1>2, <1>4, <1>5, <1>6

LEMMA WriteRecordFileKeeps ==
  ASSUME TrialInv, WriteRecordFile
  PROVE  TrialInv'
  <1>1. /\ trial.at = "record" /\ trial.at \in Storing /\ trial.at \in Executing /\ UNCHANGED <<tries, leftovers>>
        /\ TrialTo("register") /\ control' = [control EXCEPT !.record[trial.run] = trial.pending] /\ "register" \in Storing
    BY DEF WriteRecordFile, TrialAt, Executing, Storing
  <1>2. TrialTypes /\ control \in ControlRow /\ trial.run \in 1 .. LogicalRuns /\ trial.pending \in TrialRecord
    BY <1>1, RoundRuns DEF TrialTypes, TrialRow
  <1>3. /\ control' \in ControlRow /\ control'.state = control.state /\ control'.report = control.report
        /\ control'.backup = control.backup /\ control'.record = [control.record EXCEPT ![trial.run] = trial.pending]
    BY <1>1, <1>2 DEF ControlRow, Records
  <1>4. /\ TrialTypes' /\ StateIsBacked(trial', control', tries') /\ ExecutionIsAhead(trial', control', tries')
        /\ EarlierRunsEnded(trial', control')
        /\ trial'.at = "register" /\ trial'.deep = trial.deep /\ trial'.run = trial.run
        /\ trial'.attempt = trial.attempt /\ trial'.rounds = trial.rounds /\ trial'.pending = trial.pending
        /\ Ends(trial.deep, trial.pending) /\ trial.pending.attempt = trial.attempt /\ trial.pending.rounds = trial.rounds
    BY <1>1, <1>3, CommitGoes
  <1>5. /\ control'.record[trial.run] = trial.pending
        /\ \A r \in 1 .. LogicalRuns : r # trial.run => control'.record[r] = control.record[r]
    BY <1>2, <1>3 DEF ControlRow, Records
  <1>6. control.state[trial.run] \in {NoRecord, control.backup[trial.run]}
    BY <1>1 DEF TrialInv, CommitIsOrdered
  <1>7. CommitIsOrdered(trial', control')
    BY <1>3, <1>4, <1>5, <1>6 DEF CommitIsOrdered
  <1>8. RegisteredLoads'
    BY <1>3, <1>5, <1>6 DEF TrialInv, RegisteredLoads
  <1> QED
    BY <1>4, <1>7, <1>8 DEF TrialInv

LEMMA RegisterKeeps ==
  ASSUME TrialInv, Register
  PROVE  TrialInv'
  <1>1. /\ trial.at = "register" /\ trial.at \in Storing /\ trial.at \in Executing /\ UNCHANGED <<tries, leftovers>>
        /\ TrialTo("unlink") /\ control' = [control EXCEPT !.state[trial.run] = trial.pending] /\ "unlink" \in TrialSteps
    BY DEF Register, TrialAt, Executing, Storing, TrialSteps
  <1>2. /\ TrialTypes /\ control \in ControlRow /\ trial.run \in 1 .. LogicalRuns /\ trial.pending \in TrialRecord
        /\ Kept(tries, trial.deep, trial.run, trial.attempt, trial.rounds) /\ trial.rounds \in Seq(Nat)
    BY <1>1, RoundRuns DEF TrialTypes, TrialRow
  <1>3. /\ control' \in ControlRow /\ control'.record = control.record /\ control'.report = control.report
        /\ control'.backup = control.backup /\ control'.state = [control.state EXCEPT ![trial.run] = trial.pending]
    BY <1>1, <1>2 DEF ControlRow, Records
  <1>4. /\ control'.state[trial.run] = trial.pending
        /\ \A r \in 1 .. LogicalRuns : r # trial.run => control'.state[r] = control.state[r]
    BY <1>2, <1>3 DEF ControlRow, Records
  <1>5. /\ trial' \in TrialRow /\ trial'.at = "unlink" /\ trial'.deep = trial.deep /\ trial'.run = trial.run
        /\ trial'.attempt = trial.attempt /\ trial'.rounds = trial.rounds /\ trial'.pending = trial.pending
    BY <1>1, <1>2, TrialToEffect
  <1>6. TrialTypes'
    BY <1>1, <1>2, <1>3, <1>5 DEF TrialTypes
  <1>7. /\ Ends(trial.deep, trial.pending) /\ trial.pending.attempt = trial.attempt /\ trial.pending.rounds = trial.rounds
        /\ control.record[trial.run] = trial.pending
    BY <1>1 DEF TrialInv, CommitIsOrdered
  <1>8. StateIsBacked(trial', control', tries')
    <2> SUFFICES ASSUME NEW r \in 1 .. LogicalRuns, control'.state[r] # NoRecord
                 PROVE  /\ Kept(tries, trial.deep, r, control'.state[r].attempt, control'.state[r].rounds)
                        /\ Ends(trial.deep, control'.state[r])
      BY <1>1, <1>5 DEF StateIsBacked
    <2>1. CASE r = trial.run
      BY <1>2, <1>4, <1>7, <2>1
    <2>2. CASE r # trial.run
      <3>1. control.state[r] # NoRecord /\ control'.state[r] = control.state[r]
        BY <1>4, <2>2
      <3> QED
        BY <3>1 DEF TrialInv, StateIsBacked
    <2> QED
      BY <2>1, <2>2
  <1>9. ExecutionIsAhead(trial', control', tries')
    <2>1. Len(control'.state[trial.run].rounds) <= Len(trial.rounds)
      BY <1>2, <1>4, <1>7
    <2> QED
      BY <1>1, <1>2, <1>5, <2>1 DEF ExecutionIsAhead
  <1>10. CommitIsOrdered(trial', control')
    BY <1>3, <1>4, <1>5, <1>7 DEF CommitIsOrdered
  <1>11. EarlierRunsEnded(trial', control')
    <2>1. \A r \in 1 .. LogicalRuns : r < trial.run => control'.state[r].error # "incomplete"
      BY <1>2, <1>4 DEF TrialInv, EarlierRunsEnded
    <2> QED
      BY <1>3, <1>5, <2>1 DEF TrialInv, EarlierRunsEnded
  <1>12. RegisteredLoads'
    BY <1>3, <1>4, <1>7 DEF TrialInv, RegisteredLoads
  <1> QED
    BY <1>6, <1>8, <1>9, <1>10, <1>11, <1>12 DEF TrialInv

LEMMA UnlinkKeeps ==
  ASSUME TrialInv, Unlink
  PROVE  TrialInv'
  <1>1. /\ trial.at = "unlink" /\ trial.at \in Storing /\ trial.at \in Executing /\ UNCHANGED <<tries, leftovers>>
        /\ control' = [control EXCEPT !.backup[trial.run] = NoRecord]
        /\ IF trial.pending.error = "incomplete" THEN TrialTo("request") ELSE NextRun
    BY DEF Unlink, TrialAt, Executing, Storing
  <1>2. TrialTypes /\ control \in ControlRow /\ trial.run \in 1 .. LogicalRuns
    BY <1>1, RoundRuns
  <1>3. /\ control' \in ControlRow /\ control'.record = control.record /\ control'.report = control.report
        /\ control'.state = control.state /\ control'.backup = [control.backup EXCEPT ![trial.run] = NoRecord]
    BY <1>1, <1>2, NoRecordIsRecord DEF ControlRow, Records
  <1>4. \A r \in 1 .. LogicalRuns : r # trial.run => control'.backup[r] = control.backup[r]
    BY <1>2, <1>3 DEF ControlRow, Records
  <1>5. control.state[trial.run] = trial.pending /\ control.state[trial.run] = control.record[trial.run]
    BY <1>1 DEF TrialInv, CommitIsOrdered
  <1>6. RegisteredLoads'
    BY <1>3, <1>4, <1>5 DEF TrialInv, RegisteredLoads
  <1>7. CASE trial.pending.error # "incomplete" /\ NextRun
    BY <1>1, <1>2, <1>3, <1>5, <1>6, <1>7, NextRunRests
  <1>8. CASE TrialTo("request")
    <2>1. "request" \in TrialSteps /\ "request" \in Executing /\ "request" \notin Storing
      BY DEF TrialSteps, Executing, Storing
    <2>2. /\ trial' \in TrialRow /\ trial'.at = "request" /\ trial'.deep = trial.deep /\ trial'.run = trial.run
          /\ trial'.attempt = trial.attempt /\ trial'.rounds = trial.rounds
      BY <1>2, <1>8, <2>1, TrialToEffect
    <2>3. TrialTypes'
      BY <1>1, <1>2, <1>3, <2>2 DEF TrialTypes
    <2>4. /\ StateIsBacked(trial', control', tries') /\ ExecutionIsAhead(trial', control', tries')
          /\ EarlierRunsEnded(trial', control')
      BY <1>1, <1>3, <2>1, <2>2, <2>3, GrowsStays, ExecutionGoes
    <2>5. CommitIsOrdered(trial', control')
      BY <2>1, <2>2 DEF CommitIsOrdered
    <2> QED
      BY <1>6, <2>3, <2>4, <2>5 DEF TrialInv
  <1> QED
    BY <1>1, <1>7, <1>8

LEMMA ReportKeeps ==
  ASSUME TrialInv, Report
  PROVE  TrialInv'
  <1>1. /\ trial.run > LogicalRuns /\ Abort /\ UNCHANGED <<tries, leftovers>>
        /\ control' = control \/ control' = [control EXCEPT !.report = control.state]
    BY DEF Report
  <1>2. TrialTypes /\ control \in ControlRow /\ trial.run \in 1 .. LogicalRuns + 1
    BY DEF TrialInv, TrialTypes, TrialRow
  <1>3. /\ control' \in ControlRow /\ control'.record = control.record /\ control'.state = control.state
        /\ control'.backup = control.backup /\ control'.report \in {control.report, control.state}
    BY <1>1, <1>2 DEF ControlRow
  <1>4. \A r \in 1 .. LogicalRuns : control.report[r].error # "incomplete" /\ control.state[r].error # "incomplete"
    BY <1>1, <1>2, TrialAssumption DEF TrialInv, EarlierRunsEnded
  <1>5. trial' \in TrialRow /\ trial'.at = "off" /\ trial'.deep = trial.deep /\ trial'.run = 1
    BY <1>1, <1>2, AbortEffect
  <1>6. TrialTypes' /\ RegisteredLoads'
    BY <1>1, <1>2, <1>3, <1>5 DEF TrialInv, TrialTypes, RegisteredLoads
  <1>7. \A r \in 1 .. LogicalRuns : control'.report[r].error # "incomplete"
    BY <1>3, <1>4
  <1> QED
    BY <1>1, <1>3, <1>4, <1>5, <1>6, <1>7, TrialRests DEF Executing, Storing

LEMMA KillTrialKeeps ==
  ASSUME TrialInv, KillTrial
  PROVE  TrialInv'
  <1>1. /\ Abort /\ UNCHANGED <<control, tries>>
        /\ leftovers' = IF trial.at \in {"subject", "harness"}
                        THEN leftovers \cup {<<trial.at, trial.run, trial.attempt, Round>>} ELSE leftovers
    BY DEF KillTrial
  <1>2. LeftoversHold(leftovers, tries)
    BY DEF TrialInv, TrialTypes
  <1>3. CASE trial.at \in {"subject", "harness"}
    <2>1. trial.at \in Executing
      BY <1>3 DEF Executing
    <2>2. trial.run \in 1 .. LogicalRuns /\ trial.attempt \in DOMAIN tries[trial.run] /\ Round \in 1 .. OuterRounds
      BY <1>3, <2>1, RoundRuns
    <2>3. LeftoversHold(leftovers', tries)
      BY <1>1, <1>2, <1>3, <2>2 DEF LeftoversHold
    <2> QED
      BY <1>1, <2>3, AbortRests
  <1>4. CASE trial.at \notin {"subject", "harness"}
    BY <1>1, <1>2, <1>4, AbortRests
  <1> QED
    BY <1>3, <1>4

LEMMA LeftoverEndsKeeps ==
  ASSUME TrialInv, LeftoverEnds
  PROVE  TrialInv'
  <1>1. PICK p \in leftovers :
          /\ leftovers' = leftovers \ {p} /\ UNCHANGED control
          /\ \/ p[1] = "subject" /\ tries' = [tries EXCEPT ![p[2]][p[3]].receipts = @ \cup {p[4]}] /\ UNCHANGED trial
             \/ /\ p[1] = "harness" /\ trial.harness < MaxHarness /\ tries[p[2]][p[3]].scores[p[4]] = 0
                /\ tries' = [tries EXCEPT ![p[2]][p[3]].scores[p[4]] = trial.harness + 1]
                /\ trial' = [trial EXCEPT !.harness = @ + 1]
    BY DEF LeftoverEnds
  <1> DEFINE run == p[2]
             attempt == p[3]
             round == p[4]
             old == tries[run][attempt]
  <1>2. /\ TrialTypes /\ tries \in Tries /\ run \in 1 .. LogicalRuns /\ attempt \in DOMAIN tries[run]
        /\ round \in 1 .. OuterRounds
    BY DEF TrialInv, TrialTypes, LeftoversHold
  <1>3. tries[run] \in Seq(Try) /\ old \in Try
    BY <1>2 DEF Tries
  <1>4. LeftoversHold(leftovers', tries)
    BY <1>1, <1>2 DEF TrialTypes, LeftoversHold
  <1>5. CASE tries' = [tries EXCEPT ![run][attempt].receipts = @ \cup {round}] /\ UNCHANGED trial
    <2> DEFINE new == [old EXCEPT !.receipts = @ \cup {round}]
    <2>1. /\ new \in Try /\ old.receipts \subseteq new.receipts
          /\ \A k \in 1 .. OuterRounds : old.scores[k] # 0 => new.scores[k] = old.scores[k]
      <3>1. round \in Nat
        BY <1>2, TrialAssumption
      <3> HIDE DEF old, round
      <3> QED
        BY <1>3, <3>1 DEF Try
    <2>2. tries' = [tries EXCEPT ![run] = [tries[run] EXCEPT ![attempt] = new]]
      BY <1>2, <1>3, <1>5 DEF Tries
    <2> HIDE DEF new
    <2>7. /\ tries' = [r \in 1 .. LogicalRuns |-> tries'[r]] /\ \A r \in 1 .. LogicalRuns : r # run => tries'[r] = tries[r]
          /\ tries'[run] = [tries[run] EXCEPT ![attempt] = new]
      BY <1>2, <2>2 DEF Tries
    <2>8. /\ tries'[run] \in Seq(Try) /\ DOMAIN tries'[run] = DOMAIN tries[run] /\ tries'[run][attempt] = new
          /\ \A a \in DOMAIN tries[run] : a # attempt => tries'[run][a] = tries[run][a]
      BY <1>2, <1>3, <2>1, <2>7
    <2>3. tries' \in Tries /\ Grows(tries, tries', {})
      <3>1. \A r \in 1 .. LogicalRuns : tries'[r] \in Seq(Try)
        BY <1>2, <2>7, <2>8 DEF Tries
      <3>2. Grows(tries, tries', {})
        BY <1>2, <2>1, <2>7, <2>8 DEF Grows
      <3> QED
        BY <2>7, <3>1, <3>2 DEF Tries
    <2>4. TrialTypes'
      BY <1>1, <1>2, <1>4, <1>5, <2>3, LeftoversStay DEF TrialTypes
    <2> QED
      BY <1>1, <1>5, <2>3, <2>4, FilesGrow
  <1>6. CASE /\ old.scores[round] = 0 /\ tries' = [tries EXCEPT ![run][attempt].scores[round] = trial.harness + 1]
             /\ trial' = [trial EXCEPT !.harness = @ + 1]
    <2> DEFINE score == trial.harness + 1
               new == [old EXCEPT !.scores = [old.scores EXCEPT ![round] = score]]
    <2>0. score \in Nat /\ trial \in TrialRow
      BY <1>2 DEF TrialTypes, TrialRow
    <2>2. tries' = [tries EXCEPT ![run] = [tries[run] EXCEPT ![attempt] = new]]
      BY <1>2, <1>3, <1>6 DEF Tries, Try
    <2>5. trial' = [trial EXCEPT !.harness = score]
      BY <1>6
    <2> HIDE DEF score
    <2>1. /\ new \in Try /\ old.receipts \subseteq new.receipts
          /\ \A k \in 1 .. OuterRounds : old.scores[k] # 0 => new.scores[k] = old.scores[k]
      BY <1>2, <1>3, <1>6, <2>0 DEF Try
    <2> HIDE DEF new
    <2>7. /\ tries' = [r \in 1 .. LogicalRuns |-> tries'[r]] /\ \A r \in 1 .. LogicalRuns : r # run => tries'[r] = tries[r]
          /\ tries'[run] = [tries[run] EXCEPT ![attempt] = new]
      BY <1>2, <2>2 DEF Tries
    <2>8. /\ tries'[run] \in Seq(Try) /\ DOMAIN tries'[run] = DOMAIN tries[run] /\ tries'[run][attempt] = new
          /\ \A a \in DOMAIN tries[run] : a # attempt => tries'[run][a] = tries[run][a]
      BY <1>2, <1>3, <2>1, <2>7
    <2>3. tries' \in Tries /\ Grows(tries, tries', {})
      <3>1. \A r \in 1 .. LogicalRuns : tries'[r] \in Seq(Try)
        BY <1>2, <2>7, <2>8 DEF Tries
      <3>2. Grows(tries, tries', {})
        BY <1>2, <2>1, <2>7, <2>8 DEF Grows
      <3> QED
        BY <2>7, <3>1, <3>2 DEF Tries
    <2>6. /\ trial' \in TrialRow /\ trial'.at = trial.at /\ trial'.deep = trial.deep /\ trial'.run = trial.run
          /\ trial'.attempt = trial.attempt /\ trial'.rounds = trial.rounds /\ trial'.pending = trial.pending
      BY <2>0, <2>5 DEF TrialRow
    <2>4. TrialTypes'
      BY <1>1, <1>2, <1>4, <2>3, <2>6, LeftoversStay DEF TrialTypes
    <2> QED
      BY <1>1, <2>3, <2>4, <2>6, FilesGrow
  <1> QED
    BY <1>1, <1>5, <1>6

-----------------------------------------------------------------------------
(* The records that a trial registered.                                     *)

LEMMA TrialStarts ==
  TrialInit => TrialInv
  <1> SUFFICES ASSUME TrialInit PROVE TrialInv
    OBVIOUS
  <1> DEFINE none == [r \in 1 .. LogicalRuns |-> NoRecord]
  <1>1. PICK deep \in BOOLEAN :
          trial = [at |-> "off", deep |-> deep, run |-> 1, starts |-> 0, attempt |-> 0, rounds |-> << >>, resumed |-> FALSE,
                   pending |-> NoRecord, harness |-> 0]
    BY DEF TrialInit
  <1>2. /\ control = [workspace |-> "absent", state |-> none, record |-> none, backup |-> none, report |-> none]
        /\ tries = [r \in 1 .. LogicalRuns |-> << >>] /\ leftovers = {}
    BY DEF TrialInit
  <1>3. none \in Records /\ \A r \in 1 .. LogicalRuns : none[r] = NoRecord
    BY NoRecordIsRecord DEF Records
  <1>4. "off" \in TrialSteps /\ 1 \in 1 .. LogicalRuns + 1 /\ << >> \in Seq(Nat) /\ << >> \in Seq(Try)
    BY TrialAssumption DEF TrialSteps
  <1> HIDE DEF none
  <1>5. trial \in TrialRow
    BY <1>1, <1>4, NoRecordIsRecord DEF TrialRow
  <1>6. control \in ControlRow
    BY <1>2, <1>3 DEF ControlRow
  <1>7. tries \in Tries /\ LeftoversHold(leftovers, tries)
    BY <1>2, <1>4 DEF Tries, LeftoversHold
  <1>8. StateIsBacked(trial, control, tries) /\ RegisteredLoads
    BY <1>2, <1>3 DEF StateIsBacked, RegisteredLoads
  <1>9. ExecutionIsAhead(trial, control, tries) /\ CommitIsOrdered(trial, control)
    BY <1>1 DEF ExecutionIsAhead, CommitIsOrdered, Executing, Storing
  <1>10. EarlierRunsEnded(trial, control)
    BY <1>2, <1>3 DEF EarlierRunsEnded, NoRecord
  <1> QED
    BY <1>5, <1>6, <1>7, <1>8, <1>9, <1>10 DEF TrialInv, TrialTypes

LEMMA TrialInvHolds ==
  TrialSpec => []TrialInv
  <1>1. TrialInv /\ [TrialNext]_trialVars => TrialInv'
    <2> SUFFICES ASSUME TrialInv, [TrialNext]_trialVars PROVE TrialInv'
      OBVIOUS
    <2>1. CASE UNCHANGED trialVars
      <3>1. UNCHANGED <<trial, control, tries, leftovers>>
        BY <2>1 DEF trialVars
      <3>2. TrialTypes'
        BY <3>1 DEF TrialInv, TrialTypes
      <3> QED
        BY <3>1, <3>2, GrowsStays, FilesGrow
    <2>2. CASE TrialNext
      BY <2>2, StartTrialKeeps, PrepareStateKeeps, LoadRecordKeeps, DropBackupKeeps, AttemptRootKeeps, RequestRoundKeeps,
         RunSubjectKeeps, HarnessRootKeeps, RunHarnessKeeps, ScoreRoundKeeps, KeepPreviousKeeps, WriteRecordFileKeeps,
         RegisterKeeps, UnlinkKeeps, ReportKeeps, KillTrialKeeps, LeftoverEndsKeeps DEF TrialNext
    <2> QED
      BY <2>1, <2>2
  <1> QED
    BY <1>1, TrialStarts, PTL DEF TrialSpec

\* "only a record whose digest the state registered is reused": wherever a trial is killed, what it registered can be
\* loaded again, and each score in it is the one that the harness wrote for that round of that attempt and that is
\* still there, whatever processes that outlived the trial write.
THEOREM RegisteredRecordsAreEvident == TrialSpec => []RegisteredIsEvident
  <1>1. TrialInv => RegisteredIsEvident
    <2> SUFFICES ASSUME TrialInv PROVE RegisteredIsEvident
      OBVIOUS
    <2>1. RegisteredLoads
      BY DEF TrialInv
    <2>2. ASSUME NEW r \in 1 .. LogicalRuns
          PROVE  LET record == control.state[r] IN
                 /\ record # NoRecord => record.attempt \in DOMAIN tries[r] /\ ArtifactsHold(r, record)
                 /\ record.error = "none" => Len(record.rounds) = LastRound
                 /\ control.report[r] # NoRecord => control.report[r].error # "incomplete"
      <3>1. CASE control.state[r] # NoRecord
        BY <3>1 DEF TrialInv, StateIsBacked, Kept, Ends, ArtifactsHold, LastRound, LastOf, EarlierRunsEnded
      <3>2. CASE control.state[r] = NoRecord
        BY <3>2 DEF TrialInv, EarlierRunsEnded, NoRecord
      <3> QED
        BY <3>1, <3>2
    <2> QED
      BY <2>1, <2>2 DEF RegisteredIsEvident, ScoresAreEvident
  <1> QED
    BY <1>1, TrialInvHolds, PTL

-----------------------------------------------------------------------------
(* Bundles that enter an archive: what sequences of candidates hold.         *)

\* The candidates of a batch, and whatever may stand in the archive.
Of(b) == {<<b, i>> : i \in Bundles}
Appended == {"search"} \X Nat
Ids      == (UNION {Of(b) : b \in Batches}) \cup Appended

LEMMA NoMembers == Members(<< >>) = {}
  BY DEF Members

LEMMA MembersOfSeq ==
  ASSUME NEW S, NEW s \in Seq(S)
  PROVE  Members(s) \subseteq S /\ (s # << >> => Members(s) # {}) /\ (s = << >> => Members(s) = {})
  <1>1. Len(s) \in Nat /\ DOMAIN s = 1 .. Len(s)
    BY LenProperties
  <1>2. \A i \in 1 .. Len(s) : s[i] \in S
    BY ElementOfSeq
  <1>3. s # << >> => Len(s) # 0
    BY EmptySeq
  <1>4. s # << >> => 1 \in 1 .. Len(s)
    BY <1>1, <1>3
  <1>5. s = << >> => Members(s) = {}
    BY NoMembers
  <1> QED
    BY <1>1, <1>2, <1>4, <1>5 DEF Members

LEMMA MembersOfConcat ==
  ASSUME NEW S, NEW s \in Seq(S), NEW t \in Seq(S)
  PROVE  s \o t \in Seq(S) /\ Members(s \o t) = Members(s) \cup Members(t)
  <1>1. /\ s \o t \in Seq(S) /\ Len(s \o t) = Len(s) + Len(t) /\ Len(s) \in Nat /\ Len(t) \in Nat
        /\ DOMAIN s = 1 .. Len(s) /\ DOMAIN t = 1 .. Len(t) /\ DOMAIN (s \o t) = 1 .. Len(s) + Len(t)
        /\ \A i \in 1 .. Len(s) + Len(t) : (s \o t)[i] = IF i <= Len(s) THEN s[i] ELSE t[i - Len(s)]
    BY ConcatProperties, LenProperties
  <1>2. ASSUME NEW i \in DOMAIN (s \o t) PROVE (s \o t)[i] \in Members(s) \cup Members(t)
    BY <1>1, <1>2 DEF Members
  <1>3. ASSUME NEW i \in DOMAIN s PROVE s[i] \in Members(s \o t)
    BY <1>1, <1>3 DEF Members
  <1>4. ASSUME NEW i \in DOMAIN t PROVE t[i] \in Members(s \o t)
    <2>1. i + Len(s) \in DOMAIN (s \o t) /\ (s \o t)[i + Len(s)] = t[i]
      BY <1>1, <1>4
    <2> QED
      BY <2>1 DEF Members
  <1> QED
    BY <1>1, <1>2, <1>3, <1>4 DEF Members

LEMMA MembersOfTail ==
  ASSUME NEW S, NEW s \in Seq(S), s # << >>
  PROVE  Head(s) \in S /\ Tail(s) \in Seq(S) /\ Members(s) = {Head(s)} \cup Members(Tail(s))
  <1>1. /\ Head(s) \in S /\ Tail(s) \in Seq(S) /\ Len(Tail(s)) = Len(s) - 1 /\ Len(s) \in Nat /\ Len(s) # 0
        /\ \A i \in 1 .. Len(Tail(s)) : Tail(s)[i] = s[i + 1]
        /\ DOMAIN s = 1 .. Len(s) /\ DOMAIN Tail(s) = 1 .. Len(s) - 1 /\ Head(s) = s[1]
    BY HeadTailProperties, LenProperties, EmptySeq
  <1>2. ASSUME NEW i \in DOMAIN s PROVE s[i] \in {Head(s)} \cup Members(Tail(s))
    <2>1. CASE i = 1
      BY <1>1, <2>1
    <2>2. CASE i # 1
      <3>1. i - 1 \in DOMAIN Tail(s) /\ Tail(s)[i - 1] = s[i]
        BY <1>1, <1>2, <2>2
      <3> QED
        BY <3>1 DEF Members
    <2> QED
      BY <2>1, <2>2
  <1>3. ASSUME NEW i \in DOMAIN Tail(s) PROVE Tail(s)[i] \in Members(s)
    <2>1. i + 1 \in DOMAIN s /\ Tail(s)[i] = s[i + 1]
      BY <1>1, <1>3
    <2> QED
      BY <2>1 DEF Members
  <1>4. Head(s) \in Members(s)
    BY <1>1 DEF Members
  <1> QED
    BY <1>1, <1>2, <1>3, <1>4 DEF Members

LEMMA MembersOfAppend ==
  ASSUME NEW S, NEW s \in Seq(S), NEW x \in S
  PROVE  Append(s, x) \in Seq(S) /\ Members(Append(s, x)) = Members(s) \cup {x}
  <1>1. /\ Append(s, x) \in Seq(S) /\ Len(Append(s, x)) = Len(s) + 1 /\ Len(s) \in Nat
        /\ \A i \in 1 .. Len(s) : Append(s, x)[i] = s[i]
        /\ Append(s, x)[Len(s) + 1] = x
        /\ DOMAIN s = 1 .. Len(s) /\ DOMAIN Append(s, x) = 1 .. Len(s) + 1
    BY AppendProperties, LenProperties
  <1>2. ASSUME NEW i \in DOMAIN Append(s, x) PROVE Append(s, x)[i] \in Members(s) \cup {x}
    BY <1>1, <1>2 DEF Members
  <1>3. ASSUME NEW i \in DOMAIN s PROVE s[i] \in Members(Append(s, x))
    <2>1. i \in DOMAIN Append(s, x) /\ Append(s, x)[i] = s[i]
      BY <1>1, <1>3
    <2> QED
      BY <2>1 DEF Members
  <1>4. x \in Members(Append(s, x))
    <2>1. Len(s) + 1 \in DOMAIN Append(s, x)
      BY <1>1
    <2> QED
      BY <1>1, <2>1 DEF Members
  <1> QED
    BY <1>1, <1>2, <1>3, <1>4 DEF Members

LEMMA AdjudicatedIsOfBatch ==
  ASSUME NEW b \in Batches, NEW ids \in Adjudicated(b)
  PROVE  ids \in Seq(Of(b)) /\ Members(ids) # {} /\ Members(ids) \subseteq Of(b)
  <1>1. Members(Plan(b)) \subseteq Of(b)
    BY DEF Members, Plan, Of
  <1>2. PICK n \in Bundles : ids \in [1..n -> Members(Plan(b))]
    BY DEF Adjudicated
  <1>3. n \in Nat /\ n >= 1
    BY BundleAssumption DEF Bundles
  <1>4. ids \in [1..n -> Of(b)] /\ 1 \in DOMAIN ids
    BY <1>1, <1>2, <1>3
  <1>5. ids \in Seq(Of(b))
    BY <1>3, <1>4, IsASeq
  <1> QED
    BY <1>4, <1>5 DEF Members

-----------------------------------------------------------------------------
(* The inductive invariant of a publication.                                 *)

Preparing  == {"files", "journal", "manifest", "marker", "link"}
Moving     == {"move", "state", "terminal", "published", "unlink"}
Publishing == Preparing \cup {"linked", "begin"} \cup Moving
BundlePlaces == Publishing \cup {"idle", "preflight", "enter", "lock", "commit", "ended"}
CallPlaces == {"idle", "read", "ready", "save", "begin", "finish", "generate", "evaluate", "append", "appended"}

DirRow == [stage : {"none", "made", "written"}, left : Seq(Ids), archive : Seq(Ids), active : SUBSET Ids,
           journal : {"none", "publishing", "published"}, ids : Seq(Ids), manifest : BOOLEAN, terminal : BOOLEAN]
PublisherRow == [pc : BundlePlaces, batch : Batches \cup {"none"}, ids : Seq(Ids), archive : Seq(Ids), active : SUBSET Ids]
MarkerRow == [status : {"absent", "staged", "unknown"}, batch : Batches \cup {"none"}, draft : BOOLEAN, successor : BOOLEAN]
CallRow == [pc : CallPlaces, active : SUBSET Ids, seen : Seq(Ids), seeds : BOOLEAN, history : BOOLEAN, made : Nat]

BundleTypes ==
    /\ archive \in Seq(Ids) /\ active \subseteq Ids /\ shown \subseteq Ids
    /\ marker \in MarkerRow
    /\ dir \in [Batches -> DirRow]
    /\ publisher \in [Publishers -> PublisherRow]
    /\ publicationLock \in Publishers \cup {"free"}
    /\ search \in CallRow
    /\ late \subseteq Appended /\ torn \in BOOLEAN

\* What is published, what the archive may hold at all and what the state must name.
PublishedBatches == {b \in Batches : dir[b].journal = "published"}
IdsOf(b) == Members(dir[b].ids)
KnownIds == Appended \cup UNION {Of(b) : b \in {c \in Batches : c \in PublishedBatches \/ marker.batch = c}}
KeptIds  == UNION {IdsOf(b) : b \in PublishedBatches \ spanned}

\* An archive and a state that may replace the present ones.
Replaces(lines, names) ==
    /\ Lines \ late \subseteq lines /\ lines \subseteq KnownIds
    /\ KeptIds \subseteq names /\ names \subseteq KnownIds

\* The copies in the stage of a batch that a marker names.
CopyHolds(b) ==
    /\ Replaces(Members(dir[b].archive), dir[b].active)
    /\ IdsOf(b) # {} /\ IdsOf(b) \subseteq Of(b) /\ IdsOf(b) \subseteq Members(dir[b].archive) \cap dir[b].active

\* What a publisher has prepared so far, on an archive that only grows by late lines.
PreparedSoFar(p) ==
    /\ publisher[p].pc \in Preparing => Absent /\ Replaces(Members(publisher[p].archive), publisher[p].active)
    /\ publisher[p].pc \in Preparing \ {"files"} =>
         /\ Dir(p).stage = "written" /\ Dir(p).left = publisher[p].ids
         /\ Dir(p).archive = publisher[p].archive \o publisher[p].ids
         /\ Dir(p).active = publisher[p].active \cup Members(publisher[p].ids)
    /\ publisher[p].pc \in {"manifest", "marker", "link"} => Dir(p).journal = "publishing" /\ Dir(p).ids = publisher[p].ids
    /\ publisher[p].pc \in {"marker", "link"} => Dir(p).manifest

\* A state that was published stays as it is until a search starts, unless one was under way.
IsNamed(b) == b \in spanned \/ (search.pc = "idle" /\ IdsOf(b) \subseteq active)

\* What it has moved so far.
MovedSoFar(p) ==
    /\ publisher[p].pc \in {"linked", "begin"} => marker.status = "staged" /\ marker.batch = Batch(p)
    /\ publisher[p].pc \in Moving =>
         /\ marker.status = "unknown" /\ marker.batch = Batch(p)
         /\ Members(Dir(p).left) \subseteq IdsOf(Batch(p))
    /\ At(p, "move") => IdsOf(Batch(p)) \subseteq shown \cup Members(Dir(p).left)
    /\ publisher[p].pc \in Moving \ {"move"} => IdsOf(Batch(p)) \subseteq shown \cap Lines
    /\ publisher[p].pc \in {"terminal", "published", "unlink"} => IsNamed(Batch(p))
    /\ At(p, "unlink") => Batch(p) \in PublishedBatches

PublisherKeeps(p) ==
    /\ publisher[p].pc # "idle" => Batch(p) # "none"
    /\ Batch(p) # "none" => Members(publisher[p].ids) # {} /\ Members(publisher[p].ids) \subseteq Of(Batch(p))
    /\ publisher[p].pc \in Publishing => publicationLock = p
    /\ PreparedSoFar(p) /\ MovedSoFar(p)

\* A temporary file beside the marker is of a publisher at work or was left there.
BesideMarker ==
    /\ marker.draft /\ ~ torn => \E p \in Publishers : publisher[p].pc \in {"link", "linked"}
    /\ marker.successor /\ ~ torn => \E p \in Publishers : At(p, "begin")

MarkerKeeps ==
    /\ Absent => marker.batch = "none"
    /\ ~ Absent => marker.batch \in Batches /\ CopyHolds(marker.batch)
    /\ marker.status = "staged" => StageVerified(marker.batch)

ArchiveKeeps ==
    /\ \A b \in PublishedBatches : IdsOf(b) # {} /\ IdsOf(b) \subseteq Of(b) /\ IdsOf(b) \subseteq Lines \cap shown
    /\ Lines \subseteq KnownIds /\ active \subseteq KnownIds /\ shown \subseteq KnownIds /\ search.active \subseteq KnownIds
    /\ KeptIds \subseteq active
    /\ search.pc \notin {"idle", "read"} => KeptIds \subseteq search.active

BundleInv ==
    /\ BundleTypes /\ ArchiveKeeps /\ MarkerKeeps /\ BesideMarker
    /\ \A p \in Publishers : PublisherKeeps(p)

LEMMA BundleInvInit ==
  ASSUME BundleInit
  PROVE  BundleInv
  <1>1. << >> \in Seq(Ids) /\ Lines = {} /\ Members(<< >>) = {}
    BY EmptySeq, NoMembers DEF BundleInit, Lines
  <1>2. BundleTypes
    BY <1>1 DEF BundleInit, BundleTypes, NoMarker, MarkerRow, EmptyDir, DirRow, PublisherIdle, PublisherRow, BundlePlaces,
                CallRow, CallPlaces
  <1>3. MarkerKeeps /\ BesideMarker
    BY DEF BundleInit, MarkerKeeps, NoMarker, Absent, BesideMarker
  <1>4. \A p \in Publishers : PublisherKeeps(p)
    BY DEF BundleInit, PublisherIdle, PublisherKeeps, PreparedSoFar, MovedSoFar, At, Batch, Publishing, Preparing, Moving
  <1>5. PublishedBatches = {} /\ KeptIds = {}
    BY DEF BundleInit, EmptyDir, PublishedBatches, KeptIds
  <1>6. ArchiveKeeps
    BY <1>1, <1>5 DEF BundleInit, ArchiveKeeps
  <1> QED
    BY <1>2, <1>3, <1>4, <1>6 DEF BundleInv

-----------------------------------------------------------------------------
(* What steps leave alone.                                                   *)

Alone(p) == \A q \in Publishers : q # p => publisher'[q] = publisher[q]
Goes(p, pc) == /\ Alone(p) /\ publisher'[p].pc = pc /\ publisher'[p].batch = publisher[p].batch
               /\ publisher'[p].ids = publisher[p].ids /\ publisher'[p].archive = publisher[p].archive
               /\ publisher'[p].active = publisher[p].active /\ publisher' \in [Publishers -> PublisherRow]

LEMMA MovesGo ==
  ASSUME BundleTypes, NEW p \in Publishers, NEW pc \in BundlePlaces, Moves(p, pc)
  PROVE  Goes(p, pc)
  BY DEF BundleTypes, PublisherRow, Moves, Goes, Alone

LEMMA StopsGo ==
  ASSUME BundleTypes, NEW p \in Publishers, Stops(p)
  PROVE  Goes(p, "ended")
  BY DEF BundleTypes, PublisherRow, Stops, Goes, Alone, BundlePlaces

LEMMA SetsDir ==
  ASSUME BundleTypes, NEW p \in Publishers, Batch(p) \in Batches, NEW d \in DirRow, SetDir(p, d)
  PROVE  /\ dir' \in [Batches -> DirRow] /\ dir'[Batch(p)] = d
         /\ \A b \in Batches : b # Batch(p) => dir'[b] = dir[b]
  BY DEF BundleTypes, SetDir

\* As long as nothing gets published.
NothingPublished == PublishedBatches' = PublishedBatches /\ \A b \in PublishedBatches : dir'[b].ids = dir[b].ids

LEMMA KnownStays ==
  ASSUME NothingPublished, marker'.batch = marker.batch
  PROVE  KnownIds' = KnownIds
  <1>1. {c \in Batches : c \in PublishedBatches \/ marker.batch = c}' = {c \in Batches : c \in PublishedBatches \/ marker.batch = c}
    BY DEF NothingPublished
  <1> QED
    BY <1>1 DEF KnownIds

LEMMA KeptStays ==
  ASSUME NothingPublished, spanned \subseteq spanned'
  PROVE  KeptIds' \subseteq KeptIds
  <1> SUFFICES ASSUME NEW id \in KeptIds' PROVE id \in KeptIds
    OBVIOUS
  <1>1. PICK b \in PublishedBatches' \ spanned' : id \in IdsOf(b)'
    BY DEF KeptIds
  <1>2. b \in PublishedBatches \ spanned /\ id \in IdsOf(b)
    BY <1>1 DEF NothingPublished, IdsOf
  <1> QED
    BY <1>2 DEF KeptIds

LEMMA ArchiveStays ==
  ASSUME ArchiveKeeps, NothingPublished, marker'.batch = marker.batch, spanned \subseteq spanned',
         UNCHANGED <<archive, active, shown, search>>
  PROVE  ArchiveKeeps' /\ Lines' = Lines
  <1>1. KnownIds' = KnownIds /\ KeptIds' \subseteq KeptIds /\ Lines' = Lines
    BY KnownStays, KeptStays DEF Lines
  <1>2. \A b \in PublishedBatches' : b \in PublishedBatches /\ IdsOf(b)' = IdsOf(b)
    BY DEF NothingPublished, IdsOf
  <1> QED
    BY <1>1, <1>2 DEF ArchiveKeeps

LEMMA NoDirSet ==
  ASSUME dir' = dir
  PROVE  NothingPublished
  BY DEF NothingPublished, PublishedBatches

\* The journal of a batch that is not published yet may change.
LEMMA UnpublishedDirSet ==
  ASSUME BundleTypes, NEW p \in Publishers, Batch(p) \in Batches, NEW d \in DirRow, SetDir(p, d),
         \/ d.journal = Dir(p).journal /\ d.ids = Dir(p).ids
         \/ Dir(p).journal # "published" /\ d.journal # "published"
  PROVE  NothingPublished
  <1>1. /\ dir' \in [Batches -> DirRow] /\ dir'[Batch(p)] = d
        /\ \A b \in Batches : b # Batch(p) => dir'[b] = dir[b]
    BY SetsDir
  <1>2. \A b \in Batches : dir'[b].journal = "published" <=> dir[b].journal = "published"
    BY <1>1 DEF Dir
  <1>3. PublishedBatches' = PublishedBatches
    BY <1>2 DEF PublishedBatches
  <1> QED
    BY <1>1, <1>3 DEF NothingPublished, PublishedBatches, Dir

-----------------------------------------------------------------------------
(* Steps that hold no lock.                                                  *)

\* The lock is with one publisher.
LEMMA OnePublisher ==
  ASSUME BundleInv, NEW p \in Publishers, publicationLock \in {p, "free"}, NEW q \in Publishers, q # p
  PROVE  publisher[q].pc \notin Publishing
  BY BundleAssumption DEF BundleInv, PublisherKeeps

\* Whoever has no lock expects nothing of the archive.
LEMMA OutsideKeeps ==
  ASSUME NEW p \in Publishers, publisher[p].pc \notin Publishing
  PROVE  /\ PublisherKeeps(p) <=> /\ publisher[p].pc # "idle" => Batch(p) # "none"
                                  /\ Batch(p) # "none" => /\ Members(publisher[p].ids) # {}
                                                          /\ Members(publisher[p].ids) \subseteq Of(Batch(p))
  BY DEF PublisherKeeps, PreparedSoFar, MovedSoFar, Publishing, Preparing, Moving, At

LEMMA OutsideKeepsNext ==
  ASSUME NEW p \in Publishers, publisher'[p].pc \notin Publishing
  PROVE  /\ PublisherKeeps(p)' <=> /\ publisher'[p].pc # "idle" => publisher'[p].batch # "none"
                                   /\ publisher'[p].batch # "none" => /\ Members(publisher'[p].ids) # {}
                                                                      /\ Members(publisher'[p].ids) \subseteq Of(publisher'[p].batch)
  BY DEF PublisherKeeps, PreparedSoFar, MovedSoFar, Publishing, Preparing, Moving, At, Batch

\* The others do not notice what the one with the lock does.
LEMMA OthersKeep ==
  ASSUME BundleInv, NEW p \in Publishers, Alone(p), publicationLock \in {p, "free"}, NEW q \in Publishers, q # p
  PROVE  PublisherKeeps(q)'
  <1>1. publisher[q].pc \notin Publishing /\ publisher'[q] = publisher[q]
    BY OnePublisher DEF Alone
  <1> QED
    BY <1>1, OutsideKeeps, OutsideKeepsNext DEF BundleInv, Batch

\* A publisher at a place without a temporary file makes none and excuses none.
LEMMA BesideMarkerStays ==
  ASSUME BesideMarker, BundleTypes, NEW p \in Publishers, Alone(p), publisher[p].pc \notin {"link", "linked", "begin"},
         UNCHANGED <<marker, torn>>
  PROVE  BesideMarker'
  <1>1. ASSUME marker.draft, ~ torn PROVE \E q \in Publishers : publisher'[q].pc \in {"link", "linked"}
    <2>1. PICK q \in Publishers : publisher[q].pc \in {"link", "linked"}
      BY <1>1 DEF BesideMarker
    <2> QED
      BY <2>1 DEF Alone
  <1>2. ASSUME marker.successor, ~ torn PROVE \E q \in Publishers : publisher'[q].pc = "begin"
    <2>1. PICK q \in Publishers : publisher[q].pc = "begin"
      BY <1>2 DEF BesideMarker, At
    <2> QED
      BY <2>1 DEF Alone
  <1> QED
    BY <1>1, <1>2 DEF BesideMarker, At

\* A publisher that only goes on, or stops, outside the lock.
LEMMA OutsideStep ==
  ASSUME BundleInv, NEW p \in Publishers, Alone(p), publisher' \in [Publishers -> PublisherRow],
         UNCHANGED <<archive, active, shown, marker, dir, search, late, spanned, torn>>,
         publicationLock' = publicationLock \/ (publicationLock = p /\ publicationLock' = "free"),
         publisher[p].pc \notin Publishing, publisher'[p].pc \notin Publishing, PublisherKeeps(p)'
  PROVE  BundleInv'
  <1>1. ArchiveKeeps' /\ Lines' = Lines /\ KnownIds' = KnownIds /\ KeptIds' = KeptIds /\ PublishedBatches' = PublishedBatches
    BY NoDirSet, ArchiveStays, KnownStays DEF BundleInv, KeptIds, PublishedBatches, IdsOf
  <1>2. BundleTypes'
    BY DEF BundleInv, BundleTypes
  <1>3. ASSUME NEW q \in Publishers, q # p PROVE PublisherKeeps(q)'
    <2>1. publisher'[q] = publisher[q] /\ PublisherKeeps(q)
      BY <1>3 DEF Alone, BundleInv
    <2>2. PreparedSoFar(q)'
      BY <1>1, <2>1 DEF PublisherKeeps, PreparedSoFar, Replaces, Absent, Batch, Dir
    <2>3. MovedSoFar(q)'
      BY <1>1, <2>1 DEF PublisherKeeps, MovedSoFar, IsNamed, IdsOf, At, Batch, Dir
    <2>4. publisher[q].pc \in Publishing => publicationLock' = q
      BY <1>3, <2>1, BundleAssumption DEF PublisherKeeps
    <2> QED
      BY <2>1, <2>2, <2>3, <2>4 DEF PublisherKeeps, Batch
  <1>4. MarkerKeeps'
    BY <1>1 DEF BundleInv, MarkerKeeps, StageVerified, CopyHolds, Replaces, IdsOf, Absent
  <1>5. BesideMarker'
    BY BesideMarkerStays DEF BundleInv, Publishing, Preparing
  <1> QED
    BY <1>1, <1>2, <1>3, <1>4, <1>5 DEF BundleInv

\* The steps outside the lock.
LEMMA OutsideSteps ==
  ASSUME BundleInv, NEW p \in Publishers,
         \/ Preflight(p) \/ StageEnter(p) \/ Recover(p)
         \/ (StageLock(p) \/ CommitVerify(p)) /\ publicationLock' = publicationLock
  PROVE  BundleInv'
  <1>1. \E pc \in {"enter", "lock", "commit", "ended"} : Goes(p, pc)
    BY MovesGo, StopsGo, BundleAssumption DEF BundleInv, Preflight, StageEnter, Recover, StageLock, CommitVerify, BundlePlaces, Acquire
  <1>2. publisher[p].pc \notin Publishing /\ Batch(p) # "none"
    BY DEF BundleInv, PublisherKeeps, Preflight, StageEnter, Recover, StageLock, CommitVerify, At, Publishing, Preparing, Moving
  <1>3. UNCHANGED <<archive, active, shown, marker, dir, publicationLock, search, late, spanned, torn>>
    BY BundleAssumption DEF Preflight, StageEnter, Recover, StageLock, CommitVerify, Acquire, archiveVars, excuses
  <1>4. publisher'[p].pc \notin Publishing
    BY <1>1 DEF Goes, Publishing, Preparing, Moving
  <1>5. PublisherKeeps(p)'
    BY <1>1, <1>2, <1>4, OutsideKeeps, OutsideKeepsNext DEF BundleInv, Goes, Batch
  <1> QED
    <2>1. Alone(p) /\ publisher' \in [Publishers -> PublisherRow]
      BY <1>1 DEF Goes
    <2> QED
      BY <1>2, <1>3, <1>4, <1>5, <2>1, OutsideStep

LEMMA BuildJournalKeeps ==
  ASSUME BundleInv, NEW p \in Publishers, BuildJournal(p)
  PROVE  BundleInv'
  <1>0. PICK b \in Batches : \E ids \in Adjudicated(b) :
          publisher' = [publisher EXCEPT ![p] = [pc |-> "preflight", batch |-> b, ids |-> ids, archive |-> archive, active |-> active]]
    BY DEF BuildJournal
  <1>1. PICK ids \in Adjudicated(b) :
          publisher' = [publisher EXCEPT ![p] = [pc |-> "preflight", batch |-> b, ids |-> ids, archive |-> archive, active |-> active]]
    BY <1>0
  <1>2. ids \in Seq(Ids) /\ Members(ids) # {} /\ Members(ids) \subseteq Of(b)
    <2>1. Of(b) \subseteq Ids
      BY DEF Ids
    <2> QED
      BY <2>1, AdjudicatedIsOfBatch, SeqMonotonic
  <1>3. /\ Alone(p) /\ publisher' \in [Publishers -> PublisherRow] /\ publisher'[p].pc = "preflight" /\ publisher'[p].batch = b
        /\ publisher'[p].ids = ids
    BY <1>1, <1>2 DEF BundleInv, BundleTypes, PublisherRow, Alone, BundlePlaces
  <1>4. UNCHANGED <<archive, active, shown, marker, dir, publicationLock, search, late, spanned, torn>> /\ publisher[p].pc = "idle"
    BY DEF BuildJournal, At, archiveVars, excuses
  <1>5. "preflight" \notin Publishing /\ "idle" \notin Publishing
    BY DEF Publishing, Preparing, Moving
  <1>6. PublisherKeeps(p)'
    BY <1>2, <1>3, <1>5, OutsideKeepsNext, BundleAssumption
  <1> QED
    BY <1>3, <1>4, <1>5, <1>6, OutsideStep

-----------------------------------------------------------------------------
(* Steps under the lock: staging.                                            *)

\* The others need no look.
LEMMA LockedStep ==
  ASSUME BundleInv, NEW p \in Publishers, Alone(p), publicationLock \in {p, "free"},
         BundleTypes', ArchiveKeeps', MarkerKeeps', BesideMarker', PublisherKeeps(p)'
  PROVE  BundleInv'
  <1>1. ASSUME NEW q \in Publishers PROVE PublisherKeeps(q)'
    BY <1>1, OthersKeep
  <1> QED
    BY <1>1 DEF BundleInv

\* A publisher with the lock is at work on one batch.
LEMMA AtWork ==
  ASSUME BundleInv, NEW p \in Publishers, publisher[p].pc # "idle"
  PROVE  /\ Batch(p) \in Batches /\ Dir(p) \in DirRow
         /\ publisher[p].ids \in Seq(Ids) /\ Members(publisher[p].ids) # {} /\ Members(publisher[p].ids) \subseteq Of(Batch(p))
         /\ publisher[p].archive \in Seq(Ids) /\ publisher[p].active \in SUBSET Ids
         /\ publisher[p].pc \in Publishing => publicationLock = p
         /\ PreparedSoFar(p) /\ MovedSoFar(p)
  BY DEF BundleInv, BundleTypes, PublisherKeeps, PublisherRow, Batch, Dir

\* What a publisher knows while it prepares.
LEMMA AtPreparing ==
  ASSUME BundleInv, NEW p \in Publishers, publisher[p].pc \in Preparing
  PROVE  /\ Batch(p) \in Batches /\ Dir(p) \in DirRow /\ publicationLock = p /\ Absent /\ marker.batch = "none"
         /\ publisher[p].ids \in Seq(Ids) /\ Members(publisher[p].ids) # {} /\ Members(publisher[p].ids) \subseteq Of(Batch(p))
         /\ publisher[p].archive \in Seq(Ids) /\ publisher[p].active \in SUBSET Ids
         /\ Replaces(Members(publisher[p].archive), publisher[p].active)
         /\ PreparedSoFar(p)
  <1>1. publisher[p].pc # "idle" /\ publisher[p].pc \in Publishing
    BY DEF Publishing, Preparing
  <1> QED
    BY <1>1, AtWork DEF PreparedSoFar, BundleInv, MarkerKeeps

\* What is prepared is not yet seen: the stage may change as long as nothing is published.
LEMMA PreparingStep ==
  ASSUME BundleInv, NEW p \in Publishers, Alone(p), publisher' \in [Publishers -> PublisherRow],
         UNCHANGED <<archive, active, shown, search, late, spanned>>, torn' \in BOOLEAN,
         publicationLock \in {p, "free"}, publicationLock' \in {p, "free"},
         Absent, marker' \in MarkerRow, marker'.status = "absent", marker'.batch = marker.batch, BesideMarker',
         Batch(p) \in Batches, NEW d \in DirRow, SetDir(p, d), NothingPublished, PublisherKeeps(p)'
  PROVE  BundleInv'
  <1>1. dir' \in [Batches -> DirRow]
    BY SetsDir DEF BundleInv
  <1>2. ArchiveKeeps'
    BY ArchiveStays DEF BundleInv
  <1>3. BundleTypes'
    BY <1>1 DEF BundleInv, BundleTypes
  <1>4. MarkerKeeps'
    BY DEF BundleInv, MarkerKeeps, Absent
  <1> QED
    BY <1>2, <1>3, <1>4, LockedStep

\* What it has prepared of the archive is as good after such a step.
LEMMA BaseStays ==
  ASSUME NothingPublished, marker'.batch = marker.batch, spanned' = spanned, UNCHANGED <<archive, late>>,
         NEW p \in Publishers, Replaces(Members(publisher[p].archive), publisher[p].active),
         publisher'[p].archive = publisher[p].archive, publisher'[p].active = publisher[p].active
  PROVE  Replaces(Members(publisher[p].archive), publisher[p].active)'
  <1>1. KnownIds' = KnownIds /\ KeptIds' \subseteq KeptIds /\ Lines' = Lines
    BY KnownStays, KeptStays DEF Lines
  <1> QED
    BY <1>1 DEF Replaces

LEMMA StageLockKeeps ==
  ASSUME BundleInv, NEW p \in Publishers, StageLock(p)
  PROVE  BundleInv'
  <1>1. CASE ~ (BaseHolds(p) /\ Absent /\ Dir(p).stage = "none")
    BY <1>1, OutsideSteps DEF StageLock
  <1>2. CASE BaseHolds(p) /\ Absent /\ Dir(p).stage = "none"
    <2> DEFINE d == [Dir(p) EXCEPT !.stage = "made"]
    <2>1. Goes(p, "files") /\ publicationLock = "free" /\ publicationLock' = p /\ SetDir(p, d)
          /\ UNCHANGED <<archive, active, shown, marker, search, late, spanned, torn>>
      BY <1>2, MovesGo DEF BundleInv, StageLock, Acquire, BundlePlaces, Publishing, Preparing, archiveVars, excuses
    <2>2. Batch(p) \in Batches /\ Dir(p) \in DirRow /\ Members(publisher[p].ids) # {} /\ Members(publisher[p].ids) \subseteq Of(Batch(p))
      BY AtWork DEF StageLock, At
    <2>3. d \in DirRow /\ d.journal = Dir(p).journal /\ d.ids = Dir(p).ids
      BY <2>2 DEF DirRow
    <2>4. NothingPublished
      BY <2>1, <2>2, <2>3, UnpublishedDirSet DEF BundleInv
    <2>5. Replaces(Members(publisher[p].archive), publisher[p].active)
      <3>1. Members(archive) = Lines
        BY DEF Members, Lines
      <3> QED
        BY <1>2, <3>1 DEF BundleInv, ArchiveKeeps, BaseHolds, Replaces
    <2>6. Replaces(Members(publisher[p].archive), publisher[p].active)'
      BY <2>1, <2>4, <2>5, BaseStays DEF Goes
    <2>7. PublisherKeeps(p)'
      BY <1>2, <2>1, <2>2, <2>6, BundleAssumption
         DEF Goes, PublisherKeeps, PreparedSoFar, MovedSoFar, Publishing, Preparing, Moving, At, Batch, Absent
    <2>8. BesideMarker' /\ marker \in MarkerRow /\ torn \in BOOLEAN
      BY <2>1, BesideMarkerStays DEF BundleInv, BundleTypes, Goes, StageLock, At
    <2> QED
      BY <1>2, <2>1, <2>2, <2>3, <2>4, <2>7, <2>8, PreparingStep DEF Goes, Absent
  <1> QED
    BY <1>1, <1>2

LEMMA StageFilesKeeps ==
  ASSUME BundleInv, NEW p \in Publishers, StageFiles(p)
  PROVE  BundleInv'
  <1> DEFINE d == [Dir(p) EXCEPT !.stage = "written", !.left = publisher[p].ids,
                                 !.archive = publisher[p].archive \o publisher[p].ids,
                                 !.active = publisher[p].active \cup Members(publisher[p].ids)]
  <1>1. Goes(p, "journal") /\ SetDir(p, d) /\ UNCHANGED <<archive, active, shown, marker, publicationLock, search, late, spanned, torn>>
    BY MovesGo DEF BundleInv, StageFiles, BundlePlaces, Publishing, Preparing, archiveVars, excuses
  <1>2. /\ Batch(p) \in Batches /\ Dir(p) \in DirRow /\ publicationLock = p /\ Absent
        /\ Members(publisher[p].ids) # {} /\ Members(publisher[p].ids) \subseteq Of(Batch(p))
        /\ publisher[p].ids \in Seq(Ids) /\ publisher[p].archive \in Seq(Ids) /\ publisher[p].active \in SUBSET Ids
        /\ Replaces(Members(publisher[p].archive), publisher[p].active)
    BY AtPreparing DEF StageFiles, At, Preparing
  <1>3. publisher[p].archive \o publisher[p].ids \in Seq(Ids) /\ Members(publisher[p].ids) \subseteq Ids
    BY <1>2, MembersOfConcat, MembersOfSeq
  <1>4. d \in DirRow /\ d.journal = Dir(p).journal /\ d.ids = Dir(p).ids
    BY <1>2, <1>3 DEF DirRow
  <1>5. dir'[Batch(p)] = d
    BY <1>1, <1>2, <1>4, SetsDir DEF BundleInv
  <1>6. NothingPublished
    BY <1>1, <1>2, <1>4, UnpublishedDirSet DEF BundleInv
  <1>7. Dir(p)' = d /\ d.stage = "written" /\ d.left = publisher[p].ids /\ d.archive = publisher[p].archive \o publisher[p].ids
        /\ d.active = publisher[p].active \cup Members(publisher[p].ids)
    BY <1>1, <1>2, <1>5 DEF Goes, Dir, Batch, DirRow
  <1>8. Replaces(Members(publisher[p].archive), publisher[p].active)'
    BY <1>1, <1>2, <1>6, BaseStays DEF Goes
  <1>9. PublisherKeeps(p)'
    BY <1>1, <1>2, <1>7, <1>8, BundleAssumption
       DEF Goes, PublisherKeeps, PreparedSoFar, MovedSoFar, Publishing, Preparing, Moving, At, Batch, Absent
  <1>10. BesideMarker' /\ marker \in MarkerRow /\ torn \in BOOLEAN
    BY <1>1, BesideMarkerStays DEF BundleInv, BundleTypes, Goes, StageFiles, At
  <1> QED
    BY <1>1, <1>2, <1>4, <1>6, <1>9, <1>10, PreparingStep DEF Goes, Absent

\* The stage is taken away again; a temporary file of the marker may stay.
LEMMA GoneKeeps ==
  ASSUME BundleInv, NEW p \in Publishers, publisher[p].pc \in Preparing, StageGone(p), Stops(p), Release,
         UNCHANGED <<archive, active, shown, search, late, spanned>>, torn' \in BOOLEAN,
         marker' \in MarkerRow, marker'.status = marker.status, marker'.batch = marker.batch, BesideMarker'
  PROVE  BundleInv'
  <1> DEFINE d == [Dir(p) EXCEPT !.stage = "none", !.left = << >>, !.archive = << >>, !.active = {}]
  <1>1. Goes(p, "ended") /\ SetDir(p, d) /\ publicationLock' = "free"
    BY StopsGo DEF BundleInv, StageGone, Release
  <1>2. /\ Batch(p) \in Batches /\ Dir(p) \in DirRow /\ publicationLock = p /\ Absent
        /\ Members(publisher[p].ids) # {} /\ Members(publisher[p].ids) \subseteq Of(Batch(p))
    BY AtPreparing
  <1>3. d \in DirRow /\ d.journal = Dir(p).journal /\ d.ids = Dir(p).ids
    BY <1>2, EmptySeq DEF DirRow
  <1>4. NothingPublished
    BY <1>1, <1>2, <1>3, UnpublishedDirSet DEF BundleInv
  <1>5. PublisherKeeps(p)'
    BY <1>1, <1>2, BundleAssumption DEF Goes, PublisherKeeps, PreparedSoFar, MovedSoFar, Publishing, Preparing, Moving, At, Batch
  <1> QED
    BY <1>1, <1>2, <1>3, <1>4, <1>5, PreparingStep DEF Goes, Absent

LEMMA StageJournalKeeps ==
  ASSUME BundleInv, NEW p \in Publishers, StageJournal(p)
  PROVE  BundleInv'
  <1>0. /\ publisher[p].pc = "journal" /\ publisher[p].pc \in Preparing /\ marker \in MarkerRow /\ torn \in BOOLEAN
        /\ UNCHANGED <<archive, active, shown, marker, search, late, spanned, torn>>
    BY DEF StageJournal, At, Preparing, BundleInv, BundleTypes, archiveVars, excuses
  <1>1. CASE Dir(p).journal # "none"
    <2>1. StageGone(p) /\ Stops(p) /\ Release
      BY <1>1 DEF StageJournal
    <2>2. BesideMarker'
      BY <1>0, <2>1, StopsGo, BesideMarkerStays DEF BundleInv, Goes
    <2> QED
      BY <1>0, <2>1, <2>2, GoneKeeps
  <1>2. CASE Dir(p).journal = "none"
    <2> DEFINE d == [Dir(p) EXCEPT !.journal = "publishing", !.ids = publisher[p].ids]
    <2>1. Goes(p, "manifest") /\ SetDir(p, d) /\ publicationLock' = publicationLock
      BY <1>2, MovesGo DEF BundleInv, StageJournal, BundlePlaces, Publishing, Preparing
    <2>2. /\ Batch(p) \in Batches /\ Dir(p) \in DirRow /\ publicationLock = p /\ PreparedSoFar(p) /\ Absent
          /\ Members(publisher[p].ids) # {} /\ Members(publisher[p].ids) \subseteq Of(Batch(p))
          /\ publisher[p].ids \in Seq(Ids)
          /\ Replaces(Members(publisher[p].archive), publisher[p].active)
      BY <1>0, AtPreparing
    <2>3. d \in DirRow /\ d.journal = "publishing" /\ d.ids = publisher[p].ids
      BY <2>2 DEF DirRow
    <2>4. d.stage = Dir(p).stage /\ d.left = Dir(p).left /\ d.archive = Dir(p).archive /\ d.active = Dir(p).active
      BY <2>2 DEF DirRow
    <2>5. Dir(p)' = d
      BY <2>1, <2>2, <2>3, SetsDir DEF BundleInv, Goes, Dir, Batch
    <2>6. NothingPublished
      BY <1>2, <2>1, <2>2, <2>3, UnpublishedDirSet DEF BundleInv
    <2>7. Replaces(Members(publisher[p].archive), publisher[p].active)'
      BY <1>0, <2>1, <2>2, <2>6, BaseStays DEF Goes
    <2>8. PublisherKeeps(p)'
      BY <1>0, <2>1, <2>2, <2>3, <2>4, <2>5, <2>7, BundleAssumption
         DEF Goes, PublisherKeeps, PreparedSoFar, MovedSoFar, Publishing, Preparing, Moving, At, Batch, Absent
    <2>9. BesideMarker'
      BY <1>0, <2>1, BesideMarkerStays DEF BundleInv, Goes
    <2> QED
      BY <1>0, <2>1, <2>2, <2>3, <2>6, <2>8, <2>9, PreparingStep DEF Goes, Absent
  <1> QED
    BY <1>1, <1>2

LEMMA StageManifestKeeps ==
  ASSUME BundleInv, NEW p \in Publishers, StageManifest(p)
  PROVE  BundleInv'
  <1> DEFINE d == [Dir(p) EXCEPT !.manifest = TRUE]
  <1>0. /\ publisher[p].pc = "manifest" /\ publisher[p].pc \in Preparing /\ marker \in MarkerRow /\ torn \in BOOLEAN
        /\ UNCHANGED <<archive, active, shown, marker, publicationLock, search, late, spanned, torn>>
    BY DEF StageManifest, At, Preparing, BundleInv, BundleTypes, archiveVars, excuses
  <1>1. Goes(p, "marker") /\ SetDir(p, d)
    BY MovesGo DEF BundleInv, StageManifest, BundlePlaces, Publishing, Preparing
  <1>2. /\ Batch(p) \in Batches /\ Dir(p) \in DirRow /\ publicationLock = p /\ PreparedSoFar(p) /\ Absent
        /\ Members(publisher[p].ids) # {} /\ Members(publisher[p].ids) \subseteq Of(Batch(p))
        /\ Replaces(Members(publisher[p].archive), publisher[p].active)
    BY <1>0, AtPreparing
  <1>3. d \in DirRow /\ d.journal = Dir(p).journal /\ d.ids = Dir(p).ids
    BY <1>2 DEF DirRow
  <1>4. d.stage = Dir(p).stage /\ d.left = Dir(p).left /\ d.archive = Dir(p).archive /\ d.active = Dir(p).active /\ d.manifest
    BY <1>2 DEF DirRow
  <1>5. Dir(p)' = d
    BY <1>1, <1>2, <1>3, SetsDir DEF BundleInv, Goes, Dir, Batch
  <1>6. NothingPublished
    BY <1>1, <1>2, <1>3, UnpublishedDirSet DEF BundleInv
  <1>7. Replaces(Members(publisher[p].archive), publisher[p].active)'
    BY <1>0, <1>1, <1>2, <1>6, BaseStays DEF Goes
  <1>8. PublisherKeeps(p)'
    BY <1>0, <1>1, <1>2, <1>3, <1>4, <1>5, <1>7, BundleAssumption
       DEF Goes, PublisherKeeps, PreparedSoFar, MovedSoFar, Publishing, Preparing, Moving, At, Batch, Absent
  <1>9. BesideMarker'
    BY <1>0, <1>1, BesideMarkerStays DEF BundleInv, Goes
  <1> QED
    BY <1>0, <1>1, <1>2, <1>3, <1>6, <1>8, <1>9, PreparingStep DEF Goes, Absent

\* No directory is touched.
LEMMA StandingDir ==
  ASSUME BundleInv, NEW p \in Publishers, Batch(p) \in Batches, dir' = dir
  PROVE  SetDir(p, Dir(p)) /\ Dir(p) \in DirRow /\ NothingPublished
  BY NoDirSet DEF BundleInv, BundleTypes, SetDir, Dir

\* The temporary file is there: the publisher whose it is is about to link it.
LEMMA StageDraftKeeps ==
  ASSUME BundleInv, NEW p \in Publishers, StageDraft(p)
  PROVE  BundleInv'
  <1>0. /\ publisher[p].pc = "marker" /\ publisher[p].pc \in Preparing /\ marker \in MarkerRow /\ torn \in BOOLEAN
        /\ UNCHANGED <<archive, active, shown, search, late, spanned, torn>>
    BY DEF StageDraft, At, Preparing, BundleInv, BundleTypes, archiveVars, excuses
  <1>1. CASE marker.draft
    <2>1. StageGone(p) /\ Stops(p) /\ Release /\ marker' = marker
      BY <1>1 DEF StageDraft
    <2>2. BesideMarker'
      BY <1>0, <2>1, StopsGo, BesideMarkerStays DEF BundleInv, Goes
    <2> QED
      BY <1>0, <2>1, <2>2, GoneKeeps
  <1>2. CASE ~ marker.draft
    <2>1. /\ Goes(p, "link") /\ marker' = [marker EXCEPT !.draft = TRUE]
          /\ dir' = dir /\ publicationLock' = publicationLock
      BY <1>2, MovesGo DEF BundleInv, StageDraft, BundlePlaces, Publishing, Preparing
    <2>2. /\ Batch(p) \in Batches /\ publicationLock = p /\ PreparedSoFar(p) /\ Absent
          /\ Members(publisher[p].ids) # {} /\ Members(publisher[p].ids) \subseteq Of(Batch(p))
          /\ Replaces(Members(publisher[p].archive), publisher[p].active)
      BY <1>0, AtPreparing
    <2>3. marker' \in MarkerRow /\ marker'.status = marker.status /\ marker'.batch = marker.batch /\ marker'.successor = marker.successor
      BY <1>0, <2>1 DEF MarkerRow
    <2>4. SetDir(p, Dir(p)) /\ Dir(p) \in DirRow /\ NothingPublished
      BY <2>1, <2>2, StandingDir
    <2>5. Dir(p)' = Dir(p)
      BY <2>1 DEF Goes, Dir, Batch
    <2>6. Replaces(Members(publisher[p].archive), publisher[p].active)'
      BY <1>0, <2>1, <2>2, <2>3, <2>4, BaseStays DEF Goes
    <2>7. PublisherKeeps(p)'
      BY <1>0, <2>1, <2>2, <2>3, <2>5, <2>6, BundleAssumption
         DEF Goes, PublisherKeeps, PreparedSoFar, MovedSoFar, Publishing, Preparing, Moving, At, Batch, Absent
    <2>8. BesideMarker'
      <3>1. publisher'[p].pc = "link"
        BY <2>1 DEF Goes
      <3>2. ASSUME marker.successor, ~ torn PROVE \E q \in Publishers : publisher'[q].pc = "begin"
        <4>1. PICK q \in Publishers : publisher[q].pc = "begin"
          BY <3>2 DEF BundleInv, BesideMarker, At
        <4> QED
          BY <1>0, <2>1, <4>1 DEF Goes, Alone
      <3> QED
        BY <1>0, <2>3, <3>1, <3>2 DEF BesideMarker, At
    <2> QED
      BY <1>0, <2>1, <2>2, <2>3, <2>4, <2>7, <2>8, PreparingStep DEF Goes, Absent
  <1> QED
    BY <1>1, <1>2

\* The marker is there: the copies it stands for are what was prepared.
LEMMA StageLinkKeeps ==
  ASSUME BundleInv, NEW p \in Publishers, StageLink(p)
  PROVE  BundleInv'
  <1>0. /\ publisher[p].pc = "link" /\ publisher[p].pc \in Preparing /\ marker \in MarkerRow
        /\ UNCHANGED <<archive, active, shown, dir, publicationLock, search, late, spanned, torn>>
    BY DEF StageLink, At, Preparing, BundleInv, BundleTypes, archiveVars, excuses
  <1>1. Goes(p, "linked") /\ marker' = [marker EXCEPT !.status = "staged", !.batch = Batch(p)]
    BY MovesGo DEF BundleInv, StageLink, BundlePlaces, Publishing
  <1>2. /\ Batch(p) \in Batches /\ publicationLock = p /\ PreparedSoFar(p) /\ Absent /\ marker.batch = "none"
        /\ Members(publisher[p].ids) # {} /\ Members(publisher[p].ids) \subseteq Of(Batch(p))
        /\ publisher[p].ids \in Seq(Ids) /\ publisher[p].archive \in Seq(Ids)
        /\ Replaces(Members(publisher[p].archive), publisher[p].active)
    BY <1>0, AtPreparing
  <1>3. /\ StageVerified(Batch(p)) /\ IdsOf(Batch(p)) = Members(publisher[p].ids)
        /\ dir[Batch(p)].archive = publisher[p].archive \o publisher[p].ids
        /\ dir[Batch(p)].active = publisher[p].active \cup Members(publisher[p].ids)
    BY <1>0, <1>2 DEF PreparedSoFar, Preparing, StageVerified, Dir, IdsOf
  <1>4. Members(dir[Batch(p)].archive) = Members(publisher[p].archive) \cup IdsOf(Batch(p))
    BY <1>2, <1>3, MembersOfConcat
  <1>5. /\ marker'.status = "staged" /\ marker'.batch = Batch(p) /\ marker'.draft = marker.draft
        /\ marker'.successor = marker.successor /\ marker' \in MarkerRow
    BY <1>0, <1>1, <1>2 DEF MarkerRow
  <1>6. PublishedBatches' = PublishedBatches /\ KeptIds' = KeptIds /\ Lines' = Lines /\ \A b \in Batches : IdsOf(b)' = IdsOf(b)
    BY <1>0 DEF PublishedBatches, KeptIds, IdsOf, Lines
  <1>7. KnownIds \subseteq KnownIds' /\ Of(Batch(p)) \subseteq KnownIds'
    <2>1. \A c \in Batches : c \in PublishedBatches \/ marker.batch = c => c \in PublishedBatches' \/ marker'.batch = c
      BY <1>2, <1>6, BundleAssumption
    <2> QED
      BY <1>2, <1>5, <2>1 DEF KnownIds
  <1>8. BundleTypes'
    BY <1>0, <1>1, <1>5 DEF BundleInv, BundleTypes, Goes
  <1>9. ArchiveKeeps'
    BY <1>0, <1>6, <1>7 DEF BundleInv, ArchiveKeeps, PublishedBatches
  <1>10. CopyHolds(Batch(p))'
    <2>1. Lines' \ late' \subseteq Members(dir[Batch(p)].archive) /\ Members(dir[Batch(p)].archive) \subseteq KnownIds'
      BY <1>0, <1>2, <1>3, <1>4, <1>6, <1>7 DEF Replaces
    <2>2. KeptIds' \subseteq dir[Batch(p)].active /\ dir[Batch(p)].active \subseteq KnownIds'
      BY <1>2, <1>3, <1>6, <1>7 DEF Replaces
    <2>3. IdsOf(Batch(p)) # {} /\ IdsOf(Batch(p)) \subseteq Of(Batch(p)) /\ IdsOf(Batch(p)) \subseteq Members(dir[Batch(p)].archive) \cap dir[Batch(p)].active
      BY <1>2, <1>3, <1>4
    <2>4. Batch(p)' = Batch(p)
      BY <1>1 DEF Goes, Batch
    <2> QED
      BY <1>0, <1>2, <1>6, <2>1, <2>2, <2>3, <2>4 DEF CopyHolds, Replaces
  <1>11. MarkerKeeps'
    <2>1. Batch(p)' = Batch(p)
      BY <1>1 DEF Goes, Batch
    <2> QED
      BY <1>0, <1>2, <1>3, <1>5, <1>10, <2>1 DEF MarkerKeeps, CopyHolds, Replaces, IdsOf, StageVerified, Absent
  <1>12. PublisherKeeps(p)'
    BY <1>0, <1>1, <1>2, <1>5, BundleAssumption DEF Goes, PublisherKeeps, PreparedSoFar, MovedSoFar, Publishing, Preparing, Moving, At, Batch
  <1>13. BesideMarker'
    <2>1. publisher'[p].pc = "linked"
      BY <1>1 DEF Goes
    <2>2. ASSUME marker.successor, ~ torn PROVE \E q \in Publishers : publisher'[q].pc = "begin"
      <3>1. PICK q \in Publishers : publisher[q].pc = "begin"
        BY <2>2 DEF BundleInv, BesideMarker, At
      <3> QED
        BY <1>0, <1>1, <3>1 DEF Goes, Alone
    <2> QED
      BY <1>0, <1>5, <2>1, <2>2 DEF BesideMarker, At
  <1> QED
    BY <1>1, <1>2, <1>8, <1>9, <1>11, <1>12, <1>13, LockedStep DEF Goes

\* A step under the marker that leaves the archive and the stage as they are.
LEMMA MarkedStep ==
  ASSUME BundleInv, NEW p \in Publishers, Alone(p), publisher' \in [Publishers -> PublisherRow],
         UNCHANGED <<archive, active, shown, dir, search, late, spanned>>, torn' \in BOOLEAN,
         publicationLock \in {p, "free"}, publicationLock' \in {p, "free"},
         ~ Absent, marker' \in MarkerRow, marker'.status \in {marker.status, "unknown"}, marker'.batch = marker.batch,
         BesideMarker', PublisherKeeps(p)'
  PROVE  BundleInv'
  <1>1. ArchiveKeeps' /\ Lines' = Lines /\ KnownIds' = KnownIds /\ KeptIds' \subseteq KeptIds
    BY NoDirSet, ArchiveStays, KnownStays, KeptStays DEF BundleInv
  <1>2. BundleTypes'
    BY DEF BundleInv, BundleTypes
  <1>3. marker'.status # "absent" /\ (marker'.status = "staged" => marker.status = "staged") /\ marker.batch \in Batches
    BY DEF BundleInv, MarkerKeeps, Absent
  <1>4. MarkerKeeps'
    BY <1>1, <1>3 DEF BundleInv, MarkerKeeps, StageVerified, CopyHolds, Replaces, IdsOf, Absent
  <1> QED
    BY <1>1, <1>2, <1>4, LockedStep

LEMMA StageMarkerKeeps ==
  ASSUME BundleInv, NEW p \in Publishers, StageMarker(p)
  PROVE  BundleInv'
  <1>1. /\ Goes(p, "commit") /\ publicationLock' = "free" /\ marker' = [marker EXCEPT !.draft = FALSE]
        /\ UNCHANGED <<archive, active, shown, dir, search, late, spanned, torn>> /\ publisher[p].pc = "linked"
    BY MovesGo DEF BundleInv, StageMarker, Release, BundlePlaces, archiveVars, excuses, At
  <1>2. /\ Batch(p) \in Batches /\ publicationLock = p /\ marker.status = "staged"
        /\ Members(publisher[p].ids) # {} /\ Members(publisher[p].ids) \subseteq Of(Batch(p))
    BY <1>1, AtWork DEF Publishing, MovedSoFar
  <1>3. /\ marker'.status = marker.status /\ marker'.batch = marker.batch /\ ~ marker'.draft
        /\ marker'.successor = marker.successor /\ marker' \in MarkerRow
    BY <1>1 DEF BundleInv, BundleTypes, MarkerRow
  <1>4. PublisherKeeps(p)'
    BY <1>1, <1>2, BundleAssumption DEF Goes, PublisherKeeps, PreparedSoFar, MovedSoFar, Publishing, Preparing, Moving, At, Batch
  <1>5. BesideMarker'
    <2>1. ASSUME marker.successor, ~ torn PROVE \E q \in Publishers : publisher'[q].pc = "begin"
      <3>1. PICK q \in Publishers : publisher[q].pc = "begin"
        BY <2>1 DEF BundleInv, BesideMarker, At
      <3> QED
        BY <1>1, <3>1 DEF Goes, Alone
    <2> QED
      BY <1>1, <1>3, <2>1 DEF BesideMarker, At
  <1>6. torn' \in BOOLEAN
    BY <1>1 DEF BundleInv, BundleTypes
  <1> QED
    BY <1>1, <1>2, <1>3, <1>4, <1>5, <1>6, MarkedStep DEF Goes, Absent

\* A file that is left behind is remembered.
LEMMA TidiedBesideMarker ==
  ASSUME BundleInv, NEW p \in Publishers, Alone(p), publicationLock = p, NEW clean \in MarkerRow, Tidied(clean),
         clean.status = marker.status, clean.batch = marker.batch,
         \/ publisher[p].pc \in {"link", "linked"} /\ ~ clean.draft /\ clean.successor = marker.successor
         \/ publisher[p].pc = "begin" /\ ~ clean.successor /\ clean.draft = marker.draft
  PROVE  /\ marker' \in MarkerRow /\ marker'.status = marker.status /\ marker'.batch = marker.batch
         /\ torn' \in BOOLEAN /\ BesideMarker'
  <1>1. PICK gone \in BOOLEAN : marker' = (IF gone THEN clean ELSE marker) /\ torn' = (torn \/ ~ gone)
    BY DEF Tidied
  <1>2. marker \in MarkerRow /\ torn \in BOOLEAN
    BY DEF BundleInv, BundleTypes
  <1>3. \A q \in Publishers : q # p => publisher[q].pc \notin {"link", "linked", "begin"}
    BY OnePublisher DEF Publishing, Preparing
  <1>4. BesideMarker'
    <2>1. CASE ~ gone
      BY <1>1, <2>1 DEF BesideMarker
    <2>2. CASE gone
      BY <1>1, <1>3, <2>2 DEF BundleInv, BesideMarker, At
    <2> QED
      BY <2>1, <2>2
  <1> QED
    BY <1>1, <1>2, <1>4

LEMMA StageFailsKeeps ==
  ASSUME BundleInv, NEW p \in Publishers, StageFails(p)
  PROVE  BundleInv'
  <1> DEFINE clean == [marker EXCEPT !.draft = FALSE]
  <1>1. /\ publisher[p].pc \in Preparing \cup {"linked"} /\ Stops(p) /\ Release
        /\ UNCHANGED <<archive, active, shown, search, late, spanned>>
        /\ Absent => StageGone(p)
        /\ ~ Absent => dir' = dir
    BY DEF StageFails, Preparing, archiveVars
  <1>2. Goes(p, "ended") /\ publicationLock' = "free" /\ publisher[p].pc # "idle" /\ publisher[p].pc \in Publishing
    BY <1>1, StopsGo DEF BundleInv, Release, Publishing, Preparing
  <1>3. /\ Batch(p) \in Batches /\ publicationLock = p /\ MovedSoFar(p)
        /\ Members(publisher[p].ids) # {} /\ Members(publisher[p].ids) \subseteq Of(Batch(p))
    BY <1>2, AtWork
  <1>4. /\ marker' \in MarkerRow /\ marker'.status = marker.status /\ marker'.batch = marker.batch
        /\ torn' \in BOOLEAN /\ BesideMarker'
    <2>1. CASE publisher[p].pc \in {"link", "linked"}
      <3>1. /\ clean \in MarkerRow /\ ~ clean.draft /\ clean.successor = marker.successor
            /\ clean.status = marker.status /\ clean.batch = marker.batch
        BY DEF BundleInv, BundleTypes, MarkerRow
      <3>2. Tidied(clean)
        BY <2>1 DEF StageFails
      <3> QED
        BY <1>2, <1>3, <2>1, <3>1, <3>2, TidiedBesideMarker DEF Goes
    <2>2. CASE publisher[p].pc \notin {"link", "linked"}
      <3>1. marker' = marker /\ torn' = torn /\ publisher[p].pc # "begin"
        BY <1>1, <2>2 DEF StageFails, Preparing
      <3> QED
        BY <1>2, <2>2, <3>1, BesideMarkerStays DEF BundleInv, BundleTypes, Goes
    <2> QED
      BY <2>1, <2>2
  <1>5. CASE publisher[p].pc \in Preparing
    <2>1. Absent
      BY <1>5, AtPreparing
    <2> QED
      BY <1>1, <1>4, <1>5, <2>1, GoneKeeps
  <1>6. CASE publisher[p].pc = "linked"
    <2>1. ~ Absent
      BY <1>3, <1>6 DEF MovedSoFar, Absent
    <2>2. PublisherKeeps(p)'
      BY <1>2, <1>3, BundleAssumption DEF Goes, PublisherKeeps, PreparedSoFar, MovedSoFar, Publishing, Preparing, Moving, At, Batch
    <2> QED
      BY <1>1, <1>2, <1>3, <1>4, <2>1, <2>2, MarkedStep DEF Goes
  <1> QED
    BY <1>1, <1>5, <1>6

-----------------------------------------------------------------------------
(* Steps under the lock: committing.                                         *)

LEMMA CommitVerifyKeeps ==
  ASSUME BundleInv, NEW p \in Publishers, CommitVerify(p)
  PROVE  BundleInv'
  <1> DEFINE goes == /\ marker.status = "staged" /\ marker.batch = Batch(p) /\ StageVerified(Batch(p))
                     /\ ~ marker.draft /\ ~ marker.successor
  <1>1. CASE ~ goes
    BY <1>1, OutsideSteps DEF CommitVerify
  <1>2. CASE goes
    <2>1. /\ Goes(p, "begin") /\ publicationLock = "free" /\ publicationLock' = p /\ marker' = [marker EXCEPT !.successor = TRUE]
          /\ UNCHANGED <<archive, active, shown, dir, search, late, spanned, torn>> /\ publisher[p].pc = "commit"
      BY <1>2, MovesGo DEF BundleInv, CommitVerify, Acquire, BundlePlaces, Publishing, archiveVars, excuses, At
    <2>2. Batch(p) \in Batches /\ Members(publisher[p].ids) # {} /\ Members(publisher[p].ids) \subseteq Of(Batch(p))
      BY <2>1, AtWork
    <2>3. /\ marker'.status = marker.status /\ marker'.batch = marker.batch /\ ~ marker'.draft /\ marker' \in MarkerRow
          /\ torn' \in BOOLEAN
      BY <1>2, <2>1 DEF BundleInv, BundleTypes, MarkerRow
    <2>4. PublisherKeeps(p)'
      BY <1>2, <2>1, <2>2, <2>3, BundleAssumption
         DEF Goes, PublisherKeeps, PreparedSoFar, MovedSoFar, Publishing, Preparing, Moving, At, Batch
    <2>5. BesideMarker'
      BY <2>1, <2>3 DEF BesideMarker, Goes, At
    <2> QED
      BY <1>2, <2>1, <2>3, <2>4, <2>5, MarkedStep DEF Goes, Absent
  <1> QED
    BY <1>1, <1>2

LEMMA CommitBeginKeeps ==
  ASSUME BundleInv, NEW p \in Publishers, CommitBegin(p)
  PROVE  BundleInv'
  <1>1. /\ Goes(p, "move") /\ marker' = [marker EXCEPT !.status = "unknown", !.successor = FALSE] /\ publisher[p].pc = "begin"
        /\ UNCHANGED <<archive, active, shown, dir, publicationLock, search, late, spanned, torn>>
    BY MovesGo DEF BundleInv, CommitBegin, BundlePlaces, Publishing, Moving, archiveVars, excuses, At
  <1>2. /\ Batch(p) \in Batches /\ publicationLock = p /\ marker.status = "staged" /\ marker.batch = Batch(p)
        /\ Members(publisher[p].ids) # {} /\ Members(publisher[p].ids) \subseteq Of(Batch(p))
    BY <1>1, AtWork DEF Publishing, MovedSoFar
  <1>3. dir[Batch(p)].left = dir[Batch(p)].ids
    BY <1>2 DEF BundleInv, MarkerKeeps, StageVerified
  <1>4. /\ marker'.status = "unknown" /\ marker'.batch = marker.batch /\ marker'.draft = marker.draft /\ ~ marker'.successor
        /\ marker' \in MarkerRow /\ torn' \in BOOLEAN
    BY <1>1 DEF BundleInv, BundleTypes, MarkerRow
  <1>5. PublisherKeeps(p)'
    BY <1>1, <1>2, <1>3, <1>4, BundleAssumption
       DEF Goes, PublisherKeeps, PreparedSoFar, MovedSoFar, Publishing, Preparing, Moving, At, Batch, Dir, IdsOf
  <1>6. BesideMarker'
    <2>1. ASSUME marker.draft, ~ torn PROVE \E q \in Publishers : publisher'[q].pc \in {"link", "linked"}
      <3>1. PICK q \in Publishers : publisher[q].pc \in {"link", "linked"}
        BY <2>1 DEF BundleInv, BesideMarker
      <3> QED
        BY <1>1, <3>1 DEF Goes, Alone
    <2> QED
      BY <1>1, <1>4, <2>1 DEF BesideMarker
  <1> QED
    BY <1>1, <1>2, <1>4, <1>5, <1>6, MarkedStep DEF Goes, Absent

LEMMA AtMoving ==
  ASSUME BundleInv, NEW p \in Publishers, publisher[p].pc \in Moving
  PROVE  /\ Batch(p) \in Batches /\ Dir(p) \in DirRow /\ publicationLock = p /\ MovedSoFar(p)
         /\ marker.status = "unknown" /\ marker.batch = Batch(p) /\ CopyHolds(Batch(p))
         /\ Members(publisher[p].ids) # {} /\ Members(publisher[p].ids) \subseteq Of(Batch(p))
         /\ archive \in Seq(Ids) /\ dir \in [Batches -> DirRow]
  <1>1. publisher[p].pc # "idle" /\ publisher[p].pc \in Publishing
    BY DEF Publishing, Moving
  <1>2. Batch(p) \in Batches
    BY <1>1, AtWork
  <1> QED
    BY <1>1, <1>2, AtWork DEF MovedSoFar, BundleInv, BundleTypes, MarkerKeeps, Absent

\* What moves is of the batch under way, which is not published yet or stays so.
LEMMA MovingStep ==
  ASSUME BundleInv, NEW p \in Publishers, publisher[p].pc \in Moving, Alone(p), publisher' \in [Publishers -> PublisherRow],
         UNCHANGED <<marker, publicationLock, search, late, torn>>, NothingPublished, spanned \subseteq spanned',
         archive' \in Seq(Ids), Lines \ late \subseteq Lines', Lines' \subseteq Lines \cup Members(Dir(p).archive),
         active' \in {active, Dir(p).active},
         shown \subseteq shown', shown' \subseteq shown \cup IdsOf(Batch(p)),
         dir' \in [Batches -> DirRow], dir'[Batch(p)].ids = Dir(p).ids,
         dir'[Batch(p)].archive = Dir(p).archive, dir'[Batch(p)].active = Dir(p).active, PublisherKeeps(p)'
  PROVE  BundleInv'
  <1>1. /\ Batch(p) \in Batches /\ publicationLock = p /\ marker.status = "unknown" /\ marker.batch = Batch(p) /\ CopyHolds(Batch(p))
    BY AtMoving
  <1>2. KnownIds' = KnownIds /\ KeptIds' \subseteq KeptIds
    BY KnownStays, KeptStays
  <1>3. /\ Lines \ late \subseteq Members(Dir(p).archive) /\ Members(Dir(p).archive) \subseteq KnownIds
        /\ KeptIds \subseteq Dir(p).active /\ Dir(p).active \subseteq KnownIds
        /\ IdsOf(Batch(p)) # {} /\ IdsOf(Batch(p)) \subseteq Of(Batch(p))
        /\ IdsOf(Batch(p)) \subseteq Members(Dir(p).archive) \cap Dir(p).active
    BY <1>1 DEF CopyHolds, Replaces, Dir
  <1>4. KnownIds \subseteq Ids /\ Of(Batch(p)) \subseteq KnownIds
    BY <1>1 DEF KnownIds, Ids, PublishedBatches
  <1>5. Lines' \subseteq KnownIds /\ active' \subseteq KnownIds /\ shown' \subseteq KnownIds /\ KeptIds \subseteq active'
    BY <1>3, <1>4 DEF BundleInv, ArchiveKeeps
  <1>6. BundleTypes'
    BY <1>4, <1>5 DEF BundleInv, BundleTypes
  <1>7. ASSUME NEW b \in PublishedBatches' PROVE IdsOf(b)' # {} /\ IdsOf(b)' \subseteq Of(b) /\ IdsOf(b)' \subseteq Lines' \cap shown'
    <2>1. b \in PublishedBatches /\ IdsOf(b)' = IdsOf(b)
      BY <1>7 DEF NothingPublished, IdsOf
    <2>2. Of(b) \cap late = {}
      BY <2>1, BundleAssumption DEF BundleInv, BundleTypes, Of, Appended, PublishedBatches
    <2> QED
      BY <2>1, <2>2 DEF BundleInv, ArchiveKeeps
  <1>8. ArchiveKeeps'
    BY <1>2, <1>5, <1>7 DEF BundleInv, ArchiveKeeps
  <1>9. \A b \in Batches : b = Batch(p) => IdsOf(b)' = IdsOf(b) /\ dir'[b].archive = dir[b].archive /\ dir'[b].active = dir[b].active
    BY DEF IdsOf, Dir
  <1>10. MarkerKeeps'
    <2>1. Lines' \ late \subseteq Members(Dir(p).archive)
      BY <1>3
    <2>2. CopyHolds(marker.batch)'
      BY <1>1, <1>2, <1>3, <1>9, <2>1 DEF CopyHolds, Replaces, Dir
    <2> QED
      BY <1>1, <2>2 DEF MarkerKeeps, Absent
  <1>11. BesideMarker'
    BY BesideMarkerStays DEF BundleInv, Moving
  <1> QED
    BY <1>1, <1>6, <1>8, <1>10, <1>11, LockedStep

\* A commit that stops leaves everything where it is.
LEMMA MarkedStops ==
  ASSUME BundleInv, NEW p \in Publishers, publisher[p].pc \in Moving \cup {"linked", "begin"},
         NEW pc \in {"ended", "idle"}, Goes(p, pc),
         UNCHANGED <<archive, active, shown, dir, search, late, spanned>>, publicationLock' = "free",
         marker' \in MarkerRow, marker'.status = marker.status, marker'.batch = marker.batch, torn' \in BOOLEAN, BesideMarker'
  PROVE  BundleInv'
  <1>1. publisher[p].pc # "idle" /\ publisher[p].pc \in Publishing
    BY DEF Publishing, Moving
  <1>2. /\ Batch(p) \in Batches /\ publicationLock = p /\ MovedSoFar(p)
        /\ Members(publisher[p].ids) # {} /\ Members(publisher[p].ids) \subseteq Of(Batch(p))
    BY <1>1, AtWork
  <1>3. ~ Absent
    BY <1>2 DEF MovedSoFar, Absent
  <1>4. PublisherKeeps(p)'
    BY <1>2, BundleAssumption DEF Goes, PublisherKeeps, PreparedSoFar, MovedSoFar, Publishing, Preparing, Moving, At, Batch
  <1> QED
    BY <1>2, <1>3, <1>4, MarkedStep DEF Goes

LEMMA MovingStops ==
  ASSUME BundleInv, NEW p \in Publishers, publisher[p].pc \in Moving, NEW pc \in {"ended", "idle"}, Goes(p, pc),
         UNCHANGED <<archive, active, shown, marker, dir, search, late, spanned, torn>>, publicationLock' = "free"
  PROVE  BundleInv'
  <1>1. BesideMarker'
    BY BesideMarkerStays DEF BundleInv, Goes, Moving
  <1> QED
    BY <1>1, MarkedStops DEF BundleInv, BundleTypes

LEMMA CommitMoveKeeps ==
  ASSUME BundleInv, NEW p \in Publishers, CommitMove(p)
  PROVE  BundleInv'
  <1>1. /\ publisher[p].pc \in Moving /\ publisher[p].pc = "move" /\ Lines' = Lines
        /\ UNCHANGED <<archive, active, marker, search, late, spanned, torn>>
    BY DEF CommitMove, At, Moving, Lines, excuses
  <1>2. /\ Batch(p) \in Batches /\ Dir(p) \in DirRow /\ publicationLock = p /\ MovedSoFar(p) /\ archive \in Seq(Ids)
        /\ Members(publisher[p].ids) # {} /\ Members(publisher[p].ids) \subseteq Of(Batch(p))
    BY <1>1, AtMoving
  <1>3. CASE Head(Dir(p).left) \in shown
    BY <1>1, <1>3, StopsGo, MovingStops DEF BundleInv, CommitMove, Release
  <1>4. CASE Head(Dir(p).left) \notin shown
    <2> DEFINE id == Head(Dir(p).left)
    <2> DEFINE d == [Dir(p) EXCEPT !.left = Tail(@)]
    <2>1. shown' = shown \cup {id} /\ SetDir(p, d) /\ publisher' = publisher /\ publicationLock' = publicationLock
      BY <1>4 DEF CommitMove
    <2>2. Dir(p).left \in Seq(Ids) /\ Dir(p).left # << >>
      BY <1>2 DEF DirRow, CommitMove
    <2>3. Tail(Dir(p).left) \in Seq(Ids) /\ Members(Dir(p).left) = {id} \cup Members(Tail(Dir(p).left))
      BY <2>2, MembersOfTail
    <2>4. d \in DirRow /\ d.ids = Dir(p).ids /\ d.journal = Dir(p).journal /\ d.left = Tail(Dir(p).left)
          /\ d.archive = Dir(p).archive /\ d.active = Dir(p).active
      BY <1>2, <2>3 DEF DirRow
    <2>5. dir' \in [Batches -> DirRow] /\ dir'[Batch(p)] = d
      BY <1>2, <2>1, <2>4, SetsDir DEF BundleInv
    <2>6. Members(Dir(p).left) \subseteq IdsOf(Batch(p)) /\ IdsOf(Batch(p)) \subseteq shown \cup Members(Dir(p).left)
      BY <1>1, <1>2 DEF MovedSoFar, At
    <2>7. Batch(p)' = Batch(p) /\ Dir(p)' = d /\ IdsOf(Batch(p))' = IdsOf(Batch(p))
      BY <2>1, <2>4, <2>5 DEF Batch, Dir, IdsOf
    <2>8. PublisherKeeps(p)'
      BY <1>1, <1>2, <2>1, <2>3, <2>4, <2>6, <2>7, BundleAssumption
         DEF PublisherKeeps, PreparedSoFar, MovedSoFar, Publishing, Preparing, Moving, At
    <2>9. Alone(p) /\ publisher' \in [Publishers -> PublisherRow] /\ NothingPublished /\ id \in IdsOf(Batch(p))
      BY <1>2, <2>1, <2>3, <2>4, <2>6, UnpublishedDirSet DEF Alone, BundleInv, BundleTypes
    <2>10. shown' \subseteq shown \cup IdsOf(Batch(p)) /\ shown \subseteq shown'
      BY <2>1, <2>9
    <2> QED
      BY <1>1, <1>2, <2>1, <2>4, <2>5, <2>8, <2>9, <2>10, MovingStep
  <1> QED
    BY <1>3, <1>4

LEMMA CommitArchiveKeeps ==
  ASSUME BundleInv, NEW p \in Publishers, CommitArchive(p)
  PROVE  BundleInv' /\ Lines \ late \subseteq Lines'
  <1>1. /\ publisher[p].pc \in Moving /\ publisher[p].pc = "move" /\ Goes(p, "state") /\ archive' = Dir(p).archive
        /\ UNCHANGED <<active, shown, marker, dir, publicationLock, search, late, spanned, torn>>
    BY MovesGo DEF BundleInv, CommitArchive, At, Moving, BundlePlaces, Publishing, excuses
  <1>2. /\ Batch(p) \in Batches /\ Dir(p) \in DirRow /\ publicationLock = p /\ MovedSoFar(p) /\ CopyHolds(Batch(p))
        /\ marker.status = "unknown" /\ marker.batch = Batch(p)
        /\ Members(publisher[p].ids) # {} /\ Members(publisher[p].ids) \subseteq Of(Batch(p)) /\ dir \in [Batches -> DirRow]
    BY <1>1, AtMoving
  <1>3. Lines' = Members(Dir(p).archive)
    BY <1>1 DEF Lines, Members
  <1>4. /\ Lines \ late \subseteq Lines' /\ IdsOf(Batch(p)) \subseteq Lines' /\ IdsOf(Batch(p)) \subseteq shown
    <2>1. Members(Dir(p).left) = {}
      BY NoMembers DEF CommitArchive
    <2> QED
      BY <1>1, <1>2, <1>3, <2>1 DEF CopyHolds, Replaces, MovedSoFar, At, Dir
  <1>5. archive' \in Seq(Ids) /\ NothingPublished
    BY <1>1, <1>2, NoDirSet DEF DirRow
  <1>6. Batch(p)' = Batch(p) /\ Dir(p)' = Dir(p) /\ IdsOf(Batch(p))' = IdsOf(Batch(p)) /\ dir'[Batch(p)] = Dir(p)
    BY <1>1 DEF Goes, Batch, Dir, IdsOf
  <1>7. PublisherKeeps(p)'
    BY <1>1, <1>2, <1>4, <1>6, BundleAssumption
       DEF Goes, PublisherKeeps, PreparedSoFar, MovedSoFar, Publishing, Preparing, Moving, At
  <1> QED
    BY <1>1, <1>2, <1>3, <1>4, <1>5, <1>6, <1>7, MovingStep DEF Goes

\* A search under way is remembered; without one the state names the batch.
LEMMA CommitStateKeeps ==
  ASSUME BundleInv, NEW p \in Publishers, CommitState(p)
  PROVE  BundleInv'
  <1>1. /\ publisher[p].pc \in Moving /\ publisher[p].pc = "state" /\ Goes(p, "terminal") /\ active' = Dir(p).active
        /\ UNCHANGED <<archive, shown, marker, dir, publicationLock, search, late, torn>> /\ Lines' = Lines
        /\ spanned' = (IF search.pc = "idle" THEN spanned ELSE spanned \cup {Batch(p)})
    BY MovesGo DEF BundleInv, CommitState, At, Moving, BundlePlaces, Publishing, Lines
  <1>2. /\ Batch(p) \in Batches /\ Dir(p) \in DirRow /\ publicationLock = p /\ MovedSoFar(p) /\ CopyHolds(Batch(p))
        /\ marker.status = "unknown" /\ marker.batch = Batch(p) /\ archive \in Seq(Ids)
        /\ Members(publisher[p].ids) # {} /\ Members(publisher[p].ids) \subseteq Of(Batch(p)) /\ dir \in [Batches -> DirRow]
    BY <1>1, AtMoving
  <1>3. IdsOf(Batch(p)) \subseteq Dir(p).active /\ IdsOf(Batch(p)) \subseteq shown \cap Lines
    BY <1>1, <1>2 DEF CopyHolds, Dir, MovedSoFar, Moving
  <1>4. spanned \subseteq spanned' /\ NothingPublished
    BY <1>1, NoDirSet
  <1>5. Batch(p)' = Batch(p) /\ Dir(p)' = Dir(p) /\ IdsOf(Batch(p))' = IdsOf(Batch(p)) /\ dir'[Batch(p)] = Dir(p)
    BY <1>1 DEF Goes, Batch, Dir, IdsOf
  <1>6. IsNamed(Batch(p))'
    BY <1>1, <1>3, <1>5 DEF IsNamed
  <1>7. PublisherKeeps(p)'
    BY <1>1, <1>2, <1>3, <1>5, <1>6, BundleAssumption
       DEF Goes, PublisherKeeps, PreparedSoFar, MovedSoFar, Publishing, Preparing, Moving, At
  <1> QED
    BY <1>1, <1>2, <1>4, <1>5, <1>7, MovingStep DEF Goes

LEMMA CommitTerminalKeeps ==
  ASSUME BundleInv, NEW p \in Publishers, CommitTerminal(p)
  PROVE  BundleInv'
  <1>1. /\ publisher[p].pc = "terminal" /\ publisher[p].pc \in Moving /\ Lines' = Lines
        /\ UNCHANGED <<archive, active, shown, marker, search, late, spanned, torn>>
    BY DEF CommitTerminal, At, Moving, archiveVars, excuses, Lines
  <1>2. CASE ~ AfterHolds(Batch(p))
    BY <1>1, <1>2, AtMoving, StopsGo, MovingStops DEF BundleInv, CommitTerminal, Release
  <1>3. CASE AfterHolds(Batch(p))
    <2> DEFINE d == [Dir(p) EXCEPT !.terminal = TRUE]
    <2>1. Goes(p, "published") /\ SetDir(p, d) /\ publicationLock' = publicationLock
      BY <1>3, MovesGo DEF BundleInv, CommitTerminal, BundlePlaces, Publishing, Moving
    <2>2. /\ Batch(p) \in Batches /\ Dir(p) \in DirRow /\ publicationLock = p /\ MovedSoFar(p) /\ archive \in Seq(Ids)
          /\ Members(publisher[p].ids) # {} /\ Members(publisher[p].ids) \subseteq Of(Batch(p))
      BY <1>1, AtMoving
    <2>3. d \in DirRow /\ d.journal = Dir(p).journal /\ d.ids = Dir(p).ids /\ d.left = Dir(p).left
          /\ d.archive = Dir(p).archive /\ d.active = Dir(p).active
      BY <2>2 DEF DirRow
    <2>4. dir' \in [Batches -> DirRow] /\ dir'[Batch(p)] = d /\ NothingPublished
      BY <2>1, <2>2, <2>3, SetsDir, UnpublishedDirSet DEF BundleInv
    <2>5. Batch(p)' = Batch(p) /\ Dir(p)' = d /\ IdsOf(Batch(p))' = IdsOf(Batch(p))
      BY <2>1, <2>3, <2>4 DEF Goes, Batch, Dir, IdsOf
    <2>6. IsNamed(Batch(p))'
      BY <1>1, <2>2, <2>5 DEF MovedSoFar, IsNamed
    <2>7. PublisherKeeps(p)'
      BY <1>1, <2>1, <2>2, <2>3, <2>5, <2>6, BundleAssumption
         DEF Goes, PublisherKeeps, PreparedSoFar, MovedSoFar, Publishing, Preparing, Moving, At
    <2> QED
      BY <1>1, <2>1, <2>2, <2>3, <2>4, <2>7, MovingStep DEF Goes
  <1> QED
    BY <1>2, <1>3

\* From here on the batch is published, and all that is required of it holds already.
LEMMA CommitJournalKeeps ==
  ASSUME BundleInv, NEW p \in Publishers, CommitJournal(p)
  PROVE  BundleInv'
  <1> DEFINE d == [Dir(p) EXCEPT !.journal = "published"]
  <1>1. /\ publisher[p].pc = "published" /\ publisher[p].pc \in Moving /\ Goes(p, "unlink") /\ SetDir(p, d) /\ Lines' = Lines
        /\ UNCHANGED <<archive, active, shown, marker, publicationLock, search, late, spanned, torn>>
    BY MovesGo DEF BundleInv, CommitJournal, At, BundlePlaces, Publishing, Moving, archiveVars, excuses, Lines
  <1>2. /\ Batch(p) \in Batches /\ Dir(p) \in DirRow /\ publicationLock = p /\ MovedSoFar(p) /\ CopyHolds(Batch(p))
        /\ marker.status = "unknown" /\ marker.batch = Batch(p)
        /\ Members(publisher[p].ids) # {} /\ Members(publisher[p].ids) \subseteq Of(Batch(p))
    BY <1>1, AtMoving
  <1>3. d \in DirRow /\ d.journal = "published" /\ d.ids = Dir(p).ids /\ d.left = Dir(p).left
        /\ d.archive = Dir(p).archive /\ d.active = Dir(p).active
    BY <1>2 DEF DirRow
  <1>4. dir' \in [Batches -> DirRow] /\ dir'[Batch(p)] = d /\ \A b \in Batches : b # Batch(p) => dir'[b] = dir[b]
    BY <1>1, <1>2, <1>3, SetsDir DEF BundleInv
  <1>5. Batch(p)' = Batch(p) /\ Dir(p)' = d /\ \A b \in Batches : IdsOf(b)' = IdsOf(b)
    BY <1>1, <1>3, <1>4 DEF Goes, Batch, Dir, IdsOf
  <1>6. PublishedBatches' = PublishedBatches \cup {Batch(p)}
    BY <1>2, <1>3, <1>4 DEF PublishedBatches
  <1>7. KnownIds' = KnownIds
    <2>1. {c \in Batches : c \in PublishedBatches \/ marker.batch = c}' = {c \in Batches : c \in PublishedBatches \/ marker.batch = c}
      BY <1>1, <1>2, <1>6
    <2> QED
      BY <2>1 DEF KnownIds
  <1>8. IsNamed(Batch(p)) /\ IdsOf(Batch(p)) \subseteq shown \cap Lines
    BY <1>1, <1>2 DEF MovedSoFar, Moving
  <1>9. \A id \in KeptIds' : id \in KeptIds \/ (Batch(p) \notin spanned /\ id \in IdsOf(Batch(p)))
    <2> SUFFICES ASSUME NEW id \in KeptIds', id \notin IdsOf(Batch(p)) \/ Batch(p) \in spanned PROVE id \in KeptIds
      OBVIOUS
    <2>1. PICK b \in PublishedBatches' \ spanned' : id \in IdsOf(b)'
      BY DEF KeptIds
    <2>2. b \in Batches /\ id \in IdsOf(b) /\ b \notin spanned
      BY <1>1, <1>5, <2>1 DEF PublishedBatches
    <2>3. b \in PublishedBatches
      BY <1>6, <2>1, <2>2
    <2> QED
      BY <2>2, <2>3 DEF KeptIds
  <1>10. BundleTypes'
    BY <1>1, <1>4 DEF BundleInv, BundleTypes, Goes
  <1>11. ArchiveKeeps'
    <2>1. KeptIds' \subseteq active /\ (search.pc \notin {"idle", "read"} => KeptIds' \subseteq search.active)
      BY <1>8, <1>9 DEF BundleInv, ArchiveKeeps, IsNamed
    <2>2. \A b \in PublishedBatches' : IdsOf(b) # {} /\ IdsOf(b) \subseteq Of(b) /\ IdsOf(b) \subseteq Lines \cap shown
      BY <1>2, <1>6, <1>8 DEF BundleInv, ArchiveKeeps, CopyHolds
    <2>3. \A b \in PublishedBatches' : IdsOf(b)' = IdsOf(b)
      BY <1>5 DEF PublishedBatches
    <2> QED
      BY <1>1, <1>7, <2>1, <2>2, <2>3 DEF BundleInv, ArchiveKeeps
  <1>12. MarkerKeeps'
    <2>1. CopyHolds(marker.batch)'
      <3>1. KeptIds' \subseteq dir[Batch(p)].active
        BY <1>2, <1>9 DEF CopyHolds, Replaces
      <3>2. dir'[Batch(p)].archive = dir[Batch(p)].archive /\ dir'[Batch(p)].active = dir[Batch(p)].active
        BY <1>3, <1>4 DEF Dir
      <3> QED
        BY <1>1, <1>2, <1>5, <1>7, <3>1, <3>2 DEF CopyHolds, Replaces
    <2> QED
      BY <1>1, <1>2, <2>1 DEF MarkerKeeps, Absent
  <1>13. PublisherKeeps(p)'
    <2>1. IsNamed(Batch(p))' /\ Batch(p)' \in PublishedBatches'
      BY <1>1, <1>2, <1>5, <1>6, <1>8 DEF IsNamed
    <2> QED
      BY <1>1, <1>2, <1>3, <1>5, <1>8, <2>1, BundleAssumption
         DEF Goes, PublisherKeeps, PreparedSoFar, MovedSoFar, Publishing, Preparing, Moving, At
  <1>14. BesideMarker'
    BY <1>1, BesideMarkerStays DEF BundleInv, Goes
  <1> QED
    BY <1>1, <1>2, <1>10, <1>11, <1>12, <1>13, <1>14, LockedStep DEF Goes

LEMMA CommitEndKeeps ==
  ASSUME BundleInv, NEW p \in Publishers, CommitEnd(p)
  PROVE  BundleInv'
  <1>1. /\ publisher[p].pc = "unlink" /\ publisher[p].pc \in Moving /\ Goes(p, "ended") /\ publicationLock' = "free" /\ marker' = NoMarker
        /\ UNCHANGED <<archive, active, shown, dir, search, late, spanned, torn>> /\ Lines' = Lines
    BY StopsGo DEF BundleInv, CommitEnd, At, Moving, Release, archiveVars, excuses, Lines
  <1>2. /\ Batch(p) \in PublishedBatches /\ publicationLock = p /\ marker.batch = Batch(p)
        /\ Members(publisher[p].ids) # {} /\ Members(publisher[p].ids) \subseteq Of(Batch(p))
    BY <1>1, AtMoving DEF MovedSoFar, At
  <1>3. PublishedBatches' = PublishedBatches /\ KeptIds' = KeptIds /\ \A b \in Batches : IdsOf(b)' = IdsOf(b)
    BY <1>1 DEF PublishedBatches, KeptIds, IdsOf
  <1>4. marker'.status = "absent" /\ marker'.batch = "none" /\ ~ marker'.draft /\ ~ marker'.successor /\ marker' \in MarkerRow
    BY <1>1 DEF NoMarker, MarkerRow
  <1>5. KnownIds' = KnownIds
    <2>1. {c \in Batches : c \in PublishedBatches \/ marker.batch = c}' = {c \in Batches : c \in PublishedBatches \/ marker.batch = c}
      BY <1>2, <1>3, <1>4, BundleAssumption
    <2> QED
      BY <2>1 DEF KnownIds
  <1>6. BundleTypes'
    BY <1>1, <1>4 DEF BundleInv, BundleTypes, Goes
  <1>7. ArchiveKeeps'
    BY <1>1, <1>3, <1>5 DEF BundleInv, ArchiveKeeps, PublishedBatches
  <1>8. MarkerKeeps' /\ BesideMarker'
    BY <1>4 DEF MarkerKeeps, BesideMarker, Absent
  <1>9. PublisherKeeps(p)'
    BY <1>1, <1>2, BundleAssumption
       DEF Goes, PublisherKeeps, PreparedSoFar, MovedSoFar, Publishing, Preparing, Moving, At, Batch, PublishedBatches
  <1> QED
    BY <1>1, <1>2, <1>6, <1>7, <1>8, <1>9, LockedStep DEF Goes

LEMMA CommitFailsKeeps ==
  ASSUME BundleInv, NEW p \in Publishers, CommitFails(p)
  PROVE  BundleInv'
  <1>1. publisher[p].pc \in Moving \cup {"begin"} /\ Goes(p, "ended") /\ publicationLock' = "free"
        /\ UNCHANGED <<archive, active, shown, dir, search, late, spanned>>
    BY StopsGo DEF BundleInv, CommitFails, Moving, Release, archiveVars
  <1>2. CASE publisher[p].pc \in Moving
    BY <1>1, <1>2, MovingStops DEF CommitFails, At, Moving
  <1>3. CASE publisher[p].pc = "begin"
    <2> DEFINE clean == [marker EXCEPT !.successor = FALSE]
    <2>1. /\ clean \in MarkerRow /\ ~ clean.successor /\ clean.draft = marker.draft
          /\ clean.status = marker.status /\ clean.batch = marker.batch
      BY DEF BundleInv, BundleTypes, MarkerRow
    <2>2. Tidied(clean)
      BY <1>3 DEF CommitFails, At
    <2>3. publicationLock = p
      BY <1>3, AtWork DEF Publishing
    <2> QED
      BY <1>1, <1>3, <2>1, <2>2, <2>3, TidiedBesideMarker, MarkedStops DEF Goes
  <1> QED
    BY <1>1, <1>2, <1>3

\* A publisher that is killed leaves what it wrote.
LEMMA PublisherKilledKeeps ==
  ASSUME BundleInv, NEW p \in Publishers, PublisherKilled(p)
  PROVE  BundleInv'
  <1>1. /\ publisher[p].pc # "idle" /\ Goes(p, "idle") /\ marker \in MarkerRow /\ marker' = marker /\ torn' \in BOOLEAN
        /\ UNCHANGED <<archive, active, shown, dir, search, late, spanned>>
        /\ publicationLock' = IF publicationLock = p THEN "free" ELSE publicationLock
        /\ torn' = (torn \/ publisher[p].pc \in {"link", "linked", "begin"})
    BY MovesGo DEF BundleInv, BundleTypes, PublisherKilled, BundlePlaces, archiveVars
  <1>2. /\ Batch(p) \in Batches
        /\ Members(publisher[p].ids) # {} /\ Members(publisher[p].ids) \subseteq Of(Batch(p))
        /\ publisher[p].pc \in Publishing => publicationLock = p /\ publicationLock' = "free"
    BY <1>1, AtWork
  <1>3. BesideMarker'
    <2>1. CASE publisher[p].pc \in {"link", "linked", "begin"}
      BY <1>1, <2>1 DEF BesideMarker
    <2>2. CASE publisher[p].pc \notin {"link", "linked", "begin"}
      <3>1. torn' = torn
        BY <1>1, <2>2 DEF BundleInv, BundleTypes
      <3> QED
        BY <1>1, <2>2, <3>1, BesideMarkerStays DEF BundleInv, Goes
    <2> QED
      BY <2>1, <2>2
  <1>4. PublisherKeeps(p)'
    BY <1>1, <1>2, BundleAssumption DEF Goes, PublisherKeeps, PreparedSoFar, MovedSoFar, Publishing, Preparing, Moving, At, Batch
  <1>5. CASE publisher[p].pc \in Moving \cup {"linked", "begin"}
    BY <1>1, <1>2, <1>3, <1>5, MarkedStops DEF Publishing
  <1>6. CASE publisher[p].pc \in Preparing
    <2>1. Absent
      BY <1>6, AtPreparing
    <2>2. SetDir(p, Dir(p)) /\ Dir(p) \in DirRow /\ NothingPublished
      BY <1>1, <1>2, StandingDir
    <2> QED
      BY <1>1, <1>2, <1>3, <1>4, <1>6, <2>1, <2>2, PreparingStep DEF Goes, Publishing, Absent
  <1>7. CASE publisher[p].pc \notin Publishing
    <2>1. torn' = torn
      BY <1>1, <1>7 DEF BundleInv, BundleTypes, Publishing, Preparing
    <2>2. publisher'[p].pc \notin Publishing
      BY <1>1 DEF Goes, Publishing, Preparing, Moving
    <2>3. publicationLock' = publicationLock \/ (publicationLock = p /\ publicationLock' = "free")
      BY <1>1
    <2> QED
      BY <1>1, <1>4, <1>7, <2>1, <2>2, <2>3, OutsideStep DEF Goes
  <1> QED
    BY <1>5, <1>6, <1>7 DEF Publishing

-----------------------------------------------------------------------------
(* Searches.                                                                 *)

\* What a search may do: it adds lines of its own, which are late when a publication is under way, and it replaces
\* the state by one that names what every state must name.
LEMMA SearchStep ==
  ASSUME BundleInv, UNCHANGED <<marker, dir, publisher, publicationLock, spanned, torn>>,
         archive' \in Seq(Ids), Lines \subseteq Lines', Lines' \subseteq KnownIds,
         Lines' \ late' \subseteq Lines \ late \/ (Absent /\ publicationLock = "free"), late' \subseteq Appended,
         shown \subseteq shown', shown' \subseteq KnownIds,
         active' \subseteq KnownIds, KeptIds \subseteq active', search.pc = "idle" => active' = active,
         search' \in CallRow, search'.active \subseteq KnownIds,
         search'.pc \notin {"idle", "read"} => KeptIds \subseteq search'.active,
         search.pc = "idle" => search'.pc = "idle" \/ Absent
  PROVE  BundleInv'
  <1>1. KnownIds \subseteq Ids
    BY DEF KnownIds, Ids, PublishedBatches
  <1>2. BundleTypes'
    BY <1>1 DEF BundleInv, BundleTypes
  <1>3. KnownIds' = KnownIds /\ KeptIds' = KeptIds /\ PublishedBatches' = PublishedBatches /\ \A b \in Batches : IdsOf(b)' = IdsOf(b)
    BY DEF KnownIds, KeptIds, PublishedBatches, IdsOf
  <1>4. ArchiveKeeps'
    BY <1>3 DEF BundleInv, ArchiveKeeps, PublishedBatches
  <1>5. BesideMarker'
    BY DEF BundleInv, BesideMarker, At
  <1>6. MarkerKeeps'
    BY <1>3 DEF BundleInv, MarkerKeeps, CopyHolds, Replaces, StageVerified, Absent
  <1>7. ASSUME NEW p \in Publishers PROVE PublisherKeeps(p)'
    <2>1. PublisherKeeps(p) /\ publisher'[p] = publisher[p] /\ (Batch(p) # "none" => Batch(p) \in Batches)
      BY DEF BundleInv, BundleTypes, PublisherRow, Batch
    <2>2. CASE publisher[p].pc \notin Publishing
      BY <2>1, <2>2, OutsideKeeps, OutsideKeepsNext DEF Batch
    <2>3. CASE publisher[p].pc \in Publishing
      <3>1. publicationLock = p /\ publicationLock # "free" /\ publisher[p].pc # "idle"
        BY <2>1, <2>3, BundleAssumption DEF PublisherKeeps, Publishing, Preparing, Moving
      <3>2. Lines' \ late' \subseteq Lines \ late /\ Batch(p) \in Batches
        BY <2>1, <3>1 DEF PublisherKeeps
      <3>3. PreparedSoFar(p)'
        BY <1>3, <2>1, <3>2 DEF PublisherKeeps, PreparedSoFar, Replaces, Absent, Batch, Dir
      <3>4. IsNamed(Batch(p)) /\ ~ Absent => IsNamed(Batch(p))'
        <4>1. Batch(p)' = Batch(p) /\ IdsOf(Batch(p))' = IdsOf(Batch(p))
          BY <1>3, <2>1, <3>2 DEF Batch
        <4> QED
          BY <4>1 DEF IsNamed
      <3>5. MovedSoFar(p)'
        <4>1. Batch(p)' = Batch(p) /\ IdsOf(Batch(p))' = IdsOf(Batch(p)) /\ Dir(p)' = Dir(p)
          BY <1>3, <2>1, <3>2 DEF Batch, Dir
        <4>2. publisher[p].pc \in {"terminal", "published", "unlink"} => IsNamed(Batch(p))'
          BY <2>1, <3>4 DEF PublisherKeeps, MovedSoFar, Moving, Absent
        <4> QED
          BY <1>3, <2>1, <4>1, <4>2 DEF PublisherKeeps, MovedSoFar, At
      <3> QED
        BY <2>1, <3>1, <3>3, <3>5 DEF PublisherKeeps, Batch
    <2> QED
      BY <2>2, <2>3
  <1> QED
    BY <1>2, <1>4, <1>5, <1>6, <1>7 DEF BundleInv

\* A search that writes nothing.
LEMMA SearchLooks ==
  ASSUME BundleInv, SearchFrame, UNCHANGED <<archive, active, shown, late>>,
         search' \in CallRow, search'.active \subseteq KnownIds,
         search'.pc \notin {"idle", "read"} => KeptIds \subseteq search'.active,
         search.pc = "idle" => search'.pc = "idle" \/ Absent
  PROVE  BundleInv' /\ Lines' = Lines
  <1>1. Lines' = Lines /\ UNCHANGED <<marker, dir, publisher, publicationLock, spanned, torn>>
    BY DEF Lines, SearchFrame
  <1>2. /\ archive \in Seq(Ids) /\ late \subseteq Appended /\ Lines \subseteq KnownIds /\ active \subseteq KnownIds /\ shown \subseteq KnownIds
        /\ KeptIds \subseteq active
    BY DEF BundleInv, BundleTypes, ArchiveKeeps
  <1> QED
    BY <1>1, <1>2, SearchStep

\* What it has generated is of no batch.
LEMMA GeneratedIsKnown ==
  ASSUME NEW n \in Nat
  PROVE  <<"search", n>> \in Appended /\ <<"search", n>> \in KnownIds /\ <<"search", n>> \in Ids
  <1>1. <<"search", n>> \in Appended
    BY DEF Appended
  <1> QED
    BY <1>1 DEF KnownIds, Ids

\* Every published batch names a candidate; if the state names none, every such batch has met a search.
LEMMA KeptIsInAnyPopulation ==
  ASSUME BundleInv
  PROVE  KeptIds \subseteq (IF active = {} THEN Lines ELSE active) /\ Lines \subseteq Ids
  <1>1. KeptIds \subseteq active
    BY DEF BundleInv, ArchiveKeeps
  <1>2. Lines \subseteq Ids
    BY DEF BundleInv, ArchiveKeeps, KnownIds, Ids, PublishedBatches
  <1> QED
    BY <1>1, <1>2

LEMMA SearchLooksKeeps ==
  ASSUME BundleInv,
         SearchStart \/ SearchRead \/ SearchSave \/ SearchBegin \/ SearchPersist \/ SearchFinish \/ SearchStops
  PROVE  BundleInv' /\ Lines' = Lines
  <1>1. SearchFrame /\ UNCHANGED <<archive, active, shown, late>>
    BY DEF SearchStart, SearchRead, SearchSave, SearchBegin, SearchPersist, SearchFinish, SearchStops, archiveVars
  <1>2. /\ search \in CallRow /\ archive \in Seq(Ids) /\ active \subseteq Ids /\ Lines \subseteq KnownIds /\ active \subseteq KnownIds
        /\ search.active \subseteq KnownIds /\ search.made \in Nat
        /\ search.pc \notin {"idle", "read"} => KeptIds \subseteq search.active
    BY DEF BundleInv, BundleTypes, ArchiveKeeps, CallRow
  <1>3. /\ search' \in CallRow /\ search'.active \subseteq KnownIds
        /\ search'.pc \notin {"idle", "read"} => KeptIds \subseteq search'.active
        /\ search.pc = "idle" => search'.pc = "idle" \/ Absent
    <2>1. CASE SearchStart
      BY <1>2, <2>1 DEF SearchStart, SearchMoves, CallRow, CallPlaces
    <2>2. CASE SearchRead
      BY <1>2, <2>2, KeptIsInAnyPopulation DEF SearchRead, CallRow, CallPlaces
    <2>3. CASE SearchSave \/ SearchPersist
      BY <1>2, <2>3 DEF SearchSave, SearchPersist, SearchMoves, CallRow, CallPlaces
    <2>4. CASE SearchBegin
      BY <1>2, <2>4 DEF SearchBegin, CallRow, CallPlaces
    <2>5. CASE SearchFinish
      <3>1. Generated \in KnownIds /\ Generated \in Ids
        BY <1>2, GeneratedIsKnown DEF Generated
      <3> QED
        BY <1>2, <2>5, <3>1 DEF SearchFinish, CallRow, CallPlaces
    <2>6. CASE SearchStops
      BY <1>2, <2>6, EmptySeq DEF SearchStops, CallRow, CallPlaces
    <2> QED
      BY <2>1, <2>2, <2>3, <2>4, <2>5, <2>6
  <1> QED
    BY <1>1, <1>3, SearchLooks

\* The population in memory names every batch that was published before it was read; a batch published since has
\* met this search.
LEMMA SearchWriteKeeps ==
  ASSUME BundleInv, SearchWrite
  PROVE  BundleInv' /\ Lines' = Lines
  <1>1. /\ active' = search.active /\ search.pc \in {"save", "begin", "finish"} /\ Lines' = Lines
        /\ UNCHANGED <<archive, shown, late, marker, dir, publisher, publicationLock, spanned, torn>>
    BY DEF SearchWrite, SearchFrame, Lines
  <1>2. /\ search \in CallRow /\ archive \in Seq(Ids) /\ late \subseteq Appended /\ Lines \subseteq KnownIds /\ shown \subseteq KnownIds
        /\ search.active \subseteq KnownIds /\ KeptIds \subseteq search.active
    BY <1>1 DEF BundleInv, BundleTypes, ArchiveKeeps
  <1>3. search' \in CallRow /\ search'.active = search.active
    BY <1>2 DEF SearchWrite, CallRow, CallPlaces
  <1> QED
    BY <1>1, <1>2, <1>3, SearchStep

LEMMA SearchGenerateKeeps ==
  ASSUME BundleInv, SearchGenerate
  PROVE  BundleInv' /\ Lines' = Lines
  <1> DEFINE id == <<"search", search.made + 1>>
  <1>1. /\ shown' = shown \cup {id} /\ search.pc = "generate" /\ Lines' = Lines
        /\ search' = [search EXCEPT !.pc = "evaluate", !.made = @ + 1]
        /\ UNCHANGED <<archive, active, late, marker, dir, publisher, publicationLock, spanned, torn>>
    BY DEF SearchGenerate, SearchFrame, Lines
  <1>2. /\ search \in CallRow /\ archive \in Seq(Ids) /\ late \subseteq Appended /\ Lines \subseteq KnownIds /\ shown \subseteq KnownIds
        /\ active \subseteq KnownIds /\ KeptIds \subseteq active
        /\ search.active \subseteq KnownIds /\ KeptIds \subseteq search.active /\ search.made + 1 \in Nat
    BY <1>1 DEF BundleInv, BundleTypes, ArchiveKeeps, CallRow
  <1>3. search' \in CallRow /\ search'.active = search.active /\ search'.pc = "evaluate"
    BY <1>1, <1>2 DEF CallRow, CallPlaces
  <1>4. id \in KnownIds
    BY <1>2, GeneratedIsKnown
  <1>5. shown \subseteq shown' /\ shown' \subseteq KnownIds
    BY <1>1, <1>2, <1>4
  <1> QED
    BY <1>1, <1>2, <1>3, <1>5, SearchStep

\* A line that meets a publication is late.
LEMMA SearchAppendKeeps ==
  ASSUME BundleInv, SearchAppend
  PROVE  BundleInv' /\ Lines \subseteq Lines'
  <1>1. /\ archive' = Append(archive, Generated) /\ search.pc = "append"
        /\ late' = (IF Absent /\ publicationLock = "free" THEN late ELSE late \cup {Generated})
        /\ UNCHANGED <<active, shown, marker, dir, publisher, publicationLock, spanned, torn>>
    BY DEF SearchAppend, SearchFrame
  <1>2. /\ search \in CallRow /\ archive \in Seq(Ids) /\ late \subseteq Appended /\ Lines \subseteq KnownIds /\ shown \subseteq KnownIds
        /\ active \subseteq KnownIds /\ KeptIds \subseteq active
        /\ search.active \subseteq KnownIds /\ KeptIds \subseteq search.active /\ search.made \in Nat /\ search.seen \in Seq(Ids)
    BY <1>1 DEF BundleInv, BundleTypes, ArchiveKeeps, CallRow
  <1>3. Generated \in Appended /\ Generated \in KnownIds /\ Generated \in Ids
    BY <1>2, GeneratedIsKnown DEF Generated
  <1>4. archive' \in Seq(Ids) /\ Lines' = Lines \cup {Generated}
    <2>1. Lines = Members(archive) /\ Lines' = Members(archive')
      BY DEF Lines, Members
    <2> QED
      BY <1>1, <1>2, <1>3, <2>1, MembersOfAppend
  <1>5. Lines' \ late' \subseteq Lines \ late \/ (Absent /\ publicationLock = "free")
    BY <1>1, <1>4
  <1>6. late' \subseteq Appended
    BY <1>1, <1>2, <1>3
  <1>7. search' \in CallRow /\ search'.active \subseteq KnownIds /\ KeptIds \subseteq search'.active
    <2>1. Append(search.seen, Generated) \in Seq(Ids)
      BY <1>2, <1>3, AppendProperties
    <2> QED
      BY <1>2, <1>3, <2>1 DEF SearchAppend, CallRow, CallPlaces
  <1> QED
    BY <1>1, <1>2, <1>3, <1>4, <1>5, <1>6, <1>7, SearchStep

-----------------------------------------------------------------------------

LEMMA BundleStutters ==
  ASSUME BundleInv, UNCHANGED bundleVars
  PROVE  BundleInv'
  <1>1. UNCHANGED <<archive, active, shown, late, search>> /\ SearchFrame
    BY DEF bundleVars, SearchFrame
  <1>2. search \in CallRow /\ search.active \subseteq KnownIds /\ (search.pc \notin {"idle", "read"} => KeptIds \subseteq search.active)
    BY DEF BundleInv, BundleTypes, ArchiveKeeps
  <1> QED
    BY <1>1, <1>2, SearchLooks

LEMMA BundleStep ==
  ASSUME BundleInv, [BundleNext]_bundleVars
  PROVE  BundleInv' /\ Lines \ late \subseteq Lines'
  <1>1. ASSUME NEW p \in Publishers,
               \/ BuildJournal(p) \/ Preflight(p) \/ StageEnter(p) \/ StageLock(p) \/ StageFiles(p) \/ StageJournal(p) \/ StageManifest(p)
               \/ StageDraft(p) \/ StageLink(p) \/ StageMarker(p) \/ StageFails(p)
        PROVE  BundleInv' /\ archive' = archive
    <2>1. archive' = archive
      BY <1>1 DEF BuildJournal, Preflight, StageEnter, StageLock, StageFiles, StageJournal, StageManifest, StageDraft, StageLink,
                  StageMarker, StageFails, archiveVars
    <2>2. CASE Preflight(p) \/ StageEnter(p)
      BY <2>1, <2>2, OutsideSteps
    <2> QED
      BY <1>1, <2>1, <2>2, BuildJournalKeeps, StageLockKeeps, StageFilesKeeps, StageJournalKeeps, StageManifestKeeps,
         StageDraftKeeps, StageLinkKeeps, StageMarkerKeeps, StageFailsKeeps
  <1>2. ASSUME NEW p \in Publishers,
               \/ CommitVerify(p) \/ CommitBegin(p) \/ CommitMove(p) \/ CommitState(p) \/ CommitTerminal(p)
               \/ CommitJournal(p) \/ CommitEnd(p) \/ CommitFails(p) \/ PublisherKilled(p) \/ Recover(p)
        PROVE  BundleInv' /\ archive' = archive
    <2>1. archive' = archive
      BY <1>2 DEF CommitVerify, CommitBegin, CommitMove, CommitState, CommitTerminal, CommitJournal, CommitEnd, CommitFails,
                  PublisherKilled, Recover, archiveVars
    <2>2. CASE Recover(p)
      BY <2>1, <2>2, OutsideSteps
    <2> QED
      BY <1>2, <2>1, <2>2, CommitVerifyKeeps, CommitBeginKeeps, CommitMoveKeeps, CommitStateKeeps, CommitTerminalKeeps,
         CommitJournalKeeps, CommitEndKeeps, CommitFailsKeeps, PublisherKilledKeeps
  <1>3. CASE UNCHANGED bundleVars
    <2>1. archive' = archive
      BY <1>3 DEF bundleVars
    <2> QED
      BY <1>3, <2>1, BundleStutters DEF Lines
  <1>4. archive' = archive => Lines \subseteq Lines'
    BY DEF Lines
  <1>5. CASE \/ SearchStart \/ SearchRead \/ SearchSave \/ SearchBegin \/ SearchWrite
             \/ SearchGenerate \/ SearchPersist \/ SearchAppend \/ SearchFinish \/ SearchStops
    BY <1>5, SearchLooksKeeps, SearchWriteKeeps, SearchGenerateKeeps, SearchAppendKeeps
  <1> QED
    BY <1>1, <1>2, <1>3, <1>4, <1>5, CommitArchiveKeeps DEF BundleNext

\* No batch is ever visible in part or lost again, and none is stuck: stage_producer_bundle_publication,
\* commit_producer_bundle_publication and resume_producer_bundle_publication, beside a search that writes what it has in
\* memory, for any number of publishers, batches, failing writes and kills at any step.
THEOREM PublicationsAreWhole == BundleInit /\ [][BundleNext]_bundleVars => []PublicationIsWhole
  <1>1. BundleInv => PublicationIsWhole
    <2> SUFFICES ASSUME BundleInv PROVE BatchIsWhole /\ BatchIsNamed /\ StagedCanCommit
      BY DEF PublicationIsWhole
    <2>1. BatchIsWhole
      <3>1. ASSUME NEW b \in Batches, dir[b].journal # "published", marker.batch # b
            PROVE  Of(b) \cap KnownIds = {}
        <4>1. Of(b) \cap Appended = {}
          BY BundleAssumption DEF Of, Appended
        <4>2. ASSUME NEW c \in {d \in Batches : d \in PublishedBatches \/ marker.batch = d} PROVE Of(b) \cap Of(c) = {}
          BY <3>1 DEF Of, PublishedBatches
        <4> QED
          BY <4>1, <4>2 DEF KnownIds
      <3>2. ASSUME NEW b \in Batches, dir[b].journal = "published"
            PROVE  Members(dir[b].ids) # {} /\ Members(dir[b].ids) \subseteq Lines \cap shown
        BY <3>2 DEF BundleInv, ArchiveKeeps, PublishedBatches, IdsOf
      <3>3. Lines \cup active \cup shown \subseteq KnownIds
        BY DEF BundleInv, ArchiveKeeps
      <3>4. ASSUME NEW b \in Batches, NEW i \in Bundles PROVE <<b, i>> \in Of(b)
        BY DEF Of
      <3> QED
        BY <3>1, <3>2, <3>3, <3>4 DEF BatchIsWhole
    <2>2. BatchIsNamed
      <3> SUFFICES ASSUME NEW b \in Batches, dir[b].journal = "published", b \notin spanned
                   PROVE  Members(dir[b].ids) \subseteq active
        BY DEF BatchIsNamed
      <3>1. IdsOf(b) \subseteq KeptIds
        BY DEF KeptIds, PublishedBatches
      <3> QED
        BY <3>1 DEF BundleInv, ArchiveKeeps, IdsOf
    <2>3. StagedCanCommit
      <3> SUFFICES ASSUME marker.status = "staged", publicationLock = "free"
                   PROVE  /\ Recovery(marker.batch) = "resume" /\ StageVerified(marker.batch)
                          /\ marker.draft \/ marker.successor => torn
        BY DEF StagedCanCommit
      <3>1. StageVerified(marker.batch)
        BY DEF BundleInv, MarkerKeeps
      <3>2. Recovery(marker.batch) = "resume"
        BY <3>1 DEF Recovery, StageVerified, EvidenceHolds, Absent
      <3>3. \A p \in Publishers : publisher[p].pc \notin {"link", "linked", "begin"}
        BY BundleAssumption DEF BundleInv, PublisherKeeps, Publishing, Preparing
      <3>4. marker.draft \/ marker.successor => torn
        BY <3>3 DEF BundleInv, BesideMarker, At
      <3> QED
        BY <3>1, <3>2, <3>4
    <2> QED
      BY <2>1, <2>2, <2>3
  <1>2. BundleInit => BundleInv
    BY BundleInvInit
  <1>3. BundleInv /\ [BundleNext]_bundleVars => BundleInv'
    BY BundleStep
  <1> QED
    BY <1>1, <1>2, <1>3, PTL

\* No line is lost but those that searches appended while a publisher held the lock or a marker
\* stood: the archive that a commit moves into place holds every other line written since the plan.
THEOREM ArchivesOnlyGrow == BundleInit /\ [][BundleNext]_bundleVars => LinesStay
  <1>1. BundleInit => BundleInv
    BY BundleInvInit
  <1>2. BundleInv /\ [BundleNext]_bundleVars => BundleInv'
    BY BundleStep
  <1>3. BundleInv /\ [BundleNext]_bundleVars => [Lines \ late \subseteq {archive'[i] : i \in DOMAIN archive'}]_bundleVars
    <2>1. Lines' = {archive'[i] : i \in DOMAIN archive'}
      BY DEF Lines
    <2> QED
      BY <2>1, BundleStep
  <1> QED
    BY <1>1, <1>2, <1>3, PTL DEF LinesStay
=============================================================================
