------------------------------ MODULE Sessions ------------------------------
(***************************************************************************)
(* A staged attempt of the agent: a master invocation plans, a build       *)
(* invocation works until it ends or reaches a stage boundary, and one     *)
(* resume may go on from the checkpoint written there.  An invocation is a *)
(* loop of model requests and tool calls over a durable, bounded           *)
(* transcript, under ceilings that the whole attempt shares.  Every        *)
(* request is made by a transport process of its own.  The attempt may be  *)
(* killed anywhere; another process then opens what it left.               *)
(***************************************************************************)
EXTENDS Integers, Sequences

CONSTANTS
    MaxSteps,        \* tool calls of the attempt
    MaxTokens,       \* tokens of the attempt
    MaxMessages,     \* messages a transcript keeps
    MaxTurns,        \* bound on model turns of an invocation
    MaxEdits         \* bound on writes to the declared files

VARIABLES
    session,         \* the runner and its agent loop
    spend,          \* UsageLedger
    transcript,      \* SessionTranscript: kinds of messages
    request,         \* the transport process
    workflow,        \* workflow/state.json
    saved,           \* workflow/checkpoints
    declared         \* the declared files, as a count of writes

sessionVars == <<session, spend, transcript, request, workflow, saved, declared>>

Unmetered == -1    \* a turn without usage
NoUsage == [tokens |-> 0, rounds |-> 0, steps |-> 0]

\* steps: AgentLoopRuntime._last_tool_steps; base: the runner's _steps; ran and sent count what happened.
SessionIdle == [pc |-> "fresh", mode |-> "master", turns |-> 0, calls |-> 0, steps |-> 0, base |-> 0,
                cancelled |-> FALSE, ran |-> 0, sent |-> 0]

Is(pc) == session.pc = pc
Up == session.pc # "down"
Raises == session' = [session EXCEPT !.pc = "over"]

---------------------------------------------------------------------------
(* SessionTranscript and UsageLedger                                       *)

\* _compact: the oldest messages go when there are too many.
Compact(messages) == SubSeq(messages, 1 + (IF Len(messages) > MaxMessages THEN Len(messages) - MaxMessages ELSE 0), Len(messages))

\* append
Appended(messages) == Compact(transcript \o messages)

\* _initial_messages
InitialMessages == IF transcript = << >> THEN <<"system", "prompt">> ELSE <<"prompt">>

Calls(message) == IF message = "one call" THEN 1 ELSE IF message = "two calls" THEN 2 ELSE 0

\* _durable_transcript_complete: every call has its result right after it, and every result its call.
Paired(messages) ==
    /\ \A i \in DOMAIN messages : i + Calls(messages[i]) <= Len(messages)
    /\ \A i \in DOMAIN messages, k \in 1..2 : k <= Calls(messages[i]) => messages[i + k] = "result"
    /\ \A i \in DOMAIN messages : messages[i] = "result" =>
         \E k \in 1..2 : i - k >= 1 /\ k <= Calls(messages[i - k]) /\ \A j \in i-k+1..i : messages[j] = "result"

\* check_request
MayRequest == spend.complete /\ ~spend.exceeded /\ spend.tokens < MaxTokens

Usage(steps) == [tokens |-> spend.tokens, rounds |-> spend.rounds, steps |-> steps]

\* monotonic_from
Monotonic(usage) == \A k \in DOMAIN usage : workflow.usage[k] <= usage[k]

\* _validate_usage
UsageHolds(usage) == Monotonic(usage) /\ usage.tokens <= MaxTokens /\ usage.steps <= MaxSteps

\* What a turn may hold: _parse_usage, _parse_tool_calls.
TurnUsages == {1, 2, Unmetered}
TurnCalls == 0..2

---------------------------------------------------------------------------
(* AgentLoopRuntime.run                                                    *)

\* A new invocation: an earlier cancel is forgotten, the prompt goes to the transcript.
Invoke(mode) ==
    /\ session' = [session EXCEPT !.pc = "loop", !.mode = mode, !.turns = 0, !.calls = 0,
                                  !.steps = session.base, !.cancelled = FALSE]
    /\ transcript' = Appended(InitialMessages)

\* The deadline of the invocation or of the attempt, or an error of the host.
Interrupted ==
    /\ session.pc \in {"loop", "tools", "planned", "boundary", "built"} /\ Raises
    /\ UNCHANGED <<spend, transcript, request, workflow, saved, declared>>

\* stage_boundary says yes: time or rounds are used up.
Boundary ==
    /\ Is("loop") /\ session.turns > 0 /\ session.mode = "build" /\ MayRequest
    /\ IF spend.complete /\ Paired(transcript)
       THEN session' = [session EXCEPT !.pc = "boundary", !.base = session.steps]
       ELSE Raises
    /\ UNCHANGED <<spend, transcript, request, workflow, saved, declared>>

\* The transport process starts; its lifeline is a pipe that the caller holds.
Send ==
    /\ Is("loop") /\ session.turns < MaxTurns
    /\ IF MayRequest /\ ~session.cancelled
       THEN /\ session' = [session EXCEPT !.pc = "request", !.sent = @ + 1]
            /\ request' = "open" /\ UNCHANGED spend
       ELSE /\ Raises /\ UNCHANGED request
            /\ spend' = IF MayRequest THEN [spend EXCEPT !.complete = FALSE] ELSE spend
    /\ UNCHANGED <<transcript, workflow, saved, declared>>

\* The worker ends: it has an answer, or the endpoint's failure.
WorkerAnswers ==
    /\ request = "open" /\ request' \in {"answer", "failure"}
    /\ UNCHANGED <<session, spend, transcript, workflow, saved, declared>>

\* Fault: only a worker that has its answer looks at the lifeline.
GuardianLate ==
    /\ ~Is("request") /\ request \in {"answer", "failure"} /\ request' = "none"
    /\ UNCHANGED <<session, spend, transcript, workflow, saved, declared>>

\* The lifeline closes with the caller, whatever the worker's main thread waits for.
Guardian ==
    /\ ~Is("request") /\ request # "none" /\ request' = "none"
    /\ UNCHANGED <<session, spend, transcript, workflow, saved, declared>>

\* _complete: an answer that is a turn.
Completes == request = "answer"

\* exchange: a failure, an answer that is no turn, a deadline or a cancel; what was spent is unknown.
RequestFails ==
    /\ Is("request") /\ request' = "none"
    /\ spend' = [spend EXCEPT !.complete = FALSE] /\ Raises
    /\ UNCHANGED <<transcript, workflow, saved, declared>>

\* _record_profile_usage
RecordedTurn(tokens, calls) ==
    IF tokens = Unmetered THEN [spend |-> [spend EXCEPT !.complete = FALSE], raises |-> TRUE]
    ELSE IF spend.tokens + tokens > MaxTokens THEN [spend |-> [spend EXCEPT !.exceeded = TRUE], raises |-> TRUE]
    ELSE [spend |-> [spend EXCEPT !.tokens = @ + tokens, !.rounds = @ + 1],
          raises |-> calls > 0 /\ spend.tokens + tokens >= MaxTokens]

\* A turn: a final text, or calls that fit the ceiling together.
Turn(tokens, calls) ==
    /\ Is("request") /\ Completes /\ request' = "none"
    /\ LET seen == RecordedTurn(tokens, calls)
           next == [session EXCEPT !.turns = @ + 1, !.calls = calls] IN
       /\ spend' = seen.spend
       /\ IF seen.raises \/ session.cancelled \/ session.steps + calls > MaxSteps
          THEN session' = [next EXCEPT !.pc = "over"] /\ UNCHANGED transcript
          ELSE /\ session' = [next EXCEPT !.pc = IF calls > 0 THEN "tools"
                                                 ELSE IF session.mode = "master" THEN "planned" ELSE "built",
                                          !.base = IF calls > 0 THEN @ ELSE session.steps]
               /\ transcript' = Appended(<<IF calls = 0 THEN "text" ELSE IF calls = 1 THEN "one call" ELSE "two calls">>)
    /\ UNCHANGED <<workflow, saved, declared>>

\* What a tool does to the declared files: a write or a command may change one, or fail and change none.
Effects(tool) == {declared} \cup (IF tool \in {"write_file", "run_command"} /\ declared < MaxEdits THEN {declared + 1} ELSE {})

\* LocalToolRegistry.execute: a tool's error is a result too; a question, or what is not caught, ends the loop.
Executed(tool, ran) ==
    \/ /\ tool # "ask_user"
       /\ session' = [ran EXCEPT !.pc = IF ran.calls = 0 THEN "loop" ELSE "tools"] /\ transcript' = Appended(<<"result">>)
    \/ tool = "ask_user" /\ session' = [ran EXCEPT !.pc = "over"] /\ transcript' = Appended(<<"result">>)
    \/ session' = [ran EXCEPT !.pc = "over"] /\ transcript' \in {transcript, Appended(<<"result">>)}

\* A call counts before it runs.
ToolCall(tool) ==
    /\ Is("tools") /\ ~session.cancelled
    /\ Executed(tool, [session EXCEPT !.steps = @ + 1, !.ran = @ + 1, !.calls = @ - 1])
    /\ declared' \in Effects(tool)
    /\ UNCHANGED <<spend, request, workflow, saved>>

ToolCancelled ==
    /\ Is("tools") /\ session.cancelled /\ Raises
    /\ UNCHANGED <<spend, transcript, request, workflow, saved, declared>>

\* AgentLoopRuntime.cancel
CancelLoop ==
    /\ Up /\ ~session.cancelled /\ session' = [session EXCEPT !.cancelled = TRUE]
    /\ UNCHANGED <<spend, transcript, request, workflow, saved, declared>>

---------------------------------------------------------------------------
(* StagedWorkflowRunner and WorkflowController                             *)

\* transition
Transition(stage) == workflow' = [workflow EXCEPT !.stage = stage]

\* run: config.json, then the master.
RunMaster ==
    /\ Is("fresh") /\ workflow.stage = "created"
    /\ Transition("master_running")
    /\ Invoke("master")
    /\ UNCHANGED <<spend, request, saved, declared>>

\* record_usage: also when the plan is then refused.
MasterUsage ==
    /\ Is("planned")
    /\ IF UsageHolds(Usage(session.base))
       THEN workflow' = [workflow EXCEPT !.usage = Usage(session.base)] /\ session' = [session EXCEPT !.pc = "plan"]
       ELSE Raises /\ UNCHANGED workflow
    /\ UNCHANGED <<spend, transcript, request, saved, declared>>

\* write_master: the plan's record, then the state.
WriteMaster == Transition("master_ready") /\ session' = [session EXCEPT !.pc = "ready"]

\* _parse_master_response: only a plan with its paths is one.
MasterPlan ==
    /\ Is("plan") /\ (WriteMaster \/ (Raises /\ UNCHANGED workflow))
    /\ UNCHANGED <<spend, transcript, request, saved, declared>>

\* The build has a transcript of its own, with the original request and the plan.
RunBuild ==
    /\ Is("ready")
    /\ Transition("build_running")
    /\ session' = [session EXCEPT !.pc = "start"] /\ transcript' = << >>
    /\ UNCHANGED <<spend, request, saved, declared>>

StartBuild ==
    /\ Is("start") /\ Invoke(IF workflow.resumed THEN "resumed" ELSE "build")
    /\ UNCHANGED <<spend, request, workflow, saved, declared>>

BoundaryStage == IF Is("boundary") THEN "checkpointed" ELSE "build_ready"

\* Fault: the state names the checkpoint before it is written.
SaveStateFirst ==
    /\ session.pc \in {"boundary", "built"} /\ UsageHolds(Usage(session.base))
    /\ workflow' = [workflow EXCEPT !.stage = BoundaryStage, !.number = @ + 1, !.usage = Usage(session.base)]
    /\ session' = [session EXCEPT !.pc = "saved"]
    /\ UNCHANGED <<spend, transcript, request, saved, declared>>

\* _checkpoint: a copy of the transcript and the checkpoint's file; a finished build has its files.
SaveCheckpoint ==
    /\ session.pc \in {"boundary", "built"}
    /\ IF UsageHolds(Usage(session.base)) /\ (Is("built") => declared > 0)
       THEN /\ saved' = Append(saved, [stage |-> BoundaryStage, prior |-> workflow.stage, usage |-> Usage(session.base),
                                       messages |-> transcript, declared |-> declared, sent |-> session.sent])
            /\ session' = [session EXCEPT !.pc = "saved"]
       ELSE Raises /\ UNCHANGED saved
    /\ UNCHANGED <<spend, transcript, request, workflow, declared>>

Current == saved[Len(saved)]

\* _state_payload of a checkpoint
CheckpointState == [workflow EXCEPT !.stage = Current.stage, !.number = Len(saved), !.usage = Current.usage]

\* The state after a checkpoint: _write_replace.
SaveState ==
    /\ Is("saved") /\ workflow' = CheckpointState
    /\ session' = [session EXCEPT !.pc = IF Current.stage = "checkpointed" THEN "waiting" ELSE "over"]
    /\ UNCHANGED <<spend, transcript, request, saved, declared>>

\* load_checkpoint: the declared files are as the checkpoint has them.
CheckpointLoads == Current.declared = declared

\* And so are the live ledger and transcript.
ResumeHolds ==
    /\ ~workflow.resumed /\ workflow.stage = "checkpointed" /\ CheckpointLoads
    /\ Current.messages = transcript /\ Current.usage = Usage(session.base)
    /\ spend.tokens < MaxTokens /\ session.base < MaxSteps

\* resume: once, in the process that wrote the checkpoint.
ResumeAttempt ==
    /\ Is("waiting")
    /\ IF ResumeHolds
       THEN workflow' = [workflow EXCEPT !.stage = "resuming", !.resumed = TRUE] /\ session' = [session EXCEPT !.pc = "resuming"]
       ELSE Raises /\ UNCHANGED workflow
    /\ UNCHANGED <<spend, transcript, request, saved, declared>>

ResumeBuild ==
    /\ Is("resuming")
    /\ Transition("build_running") /\ session' = [session EXCEPT !.pc = "start"]
    /\ UNCHANGED <<spend, transcript, request, saved, declared>>

\* A process that a tool left behind, or a user, writes.
EditDeclared ==
    /\ declared < MaxEdits /\ declared' = declared + 1
    /\ UNCHANGED <<session, spend, transcript, request, workflow, saved>>

KillAttempt ==
    /\ Up /\ session.pc \notin {"fresh", "over"}
    /\ session' = [session EXCEPT !.pc = "down"]
    /\ UNCHANGED <<spend, transcript, request, workflow, saved, declared>>

\* Another process: WorkflowController completes a checkpoint whose state was not replaced, or refuses
\* to; StagedWorkflowRunner then refuses an attempt that was started.
Reopen ==
    /\ ~Up /\ session' = [session EXCEPT !.pc = "over"]
    /\ workflow' = IF Len(saved) = workflow.number + 1 /\ Current.prior = workflow.stage /\ CheckpointLoads
                      /\ Monotonic(Current.usage)
                   THEN CheckpointState ELSE workflow
    /\ UNCHANGED <<spend, transcript, request, saved, declared>>

---------------------------------------------------------------------------

SessionInit ==
    /\ session = SessionIdle /\ transcript = << >> /\ request = "none" /\ saved = << >> /\ declared = 0
    /\ spend = [tokens |-> 0, rounds |-> 0, complete |-> TRUE, exceeded |-> FALSE]
    /\ workflow = [stage |-> "created", number |-> 0, resumed |-> FALSE, usage |-> NoUsage]

SessionNext ==
    \/ Interrupted \/ Boundary \/ Send \/ WorkerAnswers \/ Guardian \/ RequestFails \/ ToolCancelled \/ CancelLoop
    \/ \E tokens \in TurnUsages, calls \in TurnCalls : Turn(tokens, calls)
    \/ \E tool \in {"write_file", "run_command", "read_file", "ask_user"} : ToolCall(tool)
    \/ RunMaster \/ MasterUsage \/ MasterPlan \/ RunBuild \/ StartBuild \/ SaveCheckpoint \/ SaveState
    \/ ResumeAttempt \/ ResumeBuild \/ EditDeclared \/ KillAttempt \/ Reopen

---------------------------------------------------------------------------

\* At most one request of an attempt is not accounted for: after a lost or unusable answer, or one
\* without usage, nothing more is spent.
SpendIsAccounted == session.sent <= spend.rounds + 1

\* A checkpoint that may be resumed has every call of its transcript paired with its result, although
\* the transcript drops its oldest messages, and its usage covers every request that was sent.
CheckpointIsWhole ==
    \A k \in DOMAIN saved : saved[k].stage = "checkpointed" => Paired(saved[k].messages) /\ saved[k].usage.rounds = saved[k].sent

\* The state never names a checkpoint that is not there, wherever the attempt is killed.
CheckpointIsThere == workflow.number <= Len(saved)

\* What a later invocation goes on from is whole, is there, and hides no request that was paid for.
CheckpointsHold == SpendIsAccounted /\ CheckpointIsWhole /\ CheckpointIsThere

\* No request outlives the attempt that sent it.
RequestsEnd == request # "none" ~> request = "none"
=============================================================================
