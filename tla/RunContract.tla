---------------------------- MODULE RunContract ----------------------------
(***************************************************************************)
(* What a run promises its owner, without attempts, processes or rows:      *)
(* tasks complete once, in dependency order, while the run is open; the run *)
(* closes once; and it closes as succeeded only when every task is done.    *)
(***************************************************************************)
CONSTANTS Work, Needs      \* the plan's tasks and what each of them needs

VARIABLES done, verdict

Verdicts == {"open", "succeeded", "failed", "cancelled"}

ContractInit == done = {} /\ verdict = "open"

CompleteTask(t) ==
    /\ verdict = "open"
    /\ t \notin done /\ Needs[t] \subseteq done
    /\ done' = done \cup {t}
    /\ UNCHANGED verdict

Close(v) ==
    /\ verdict = "open"
    /\ v = "succeeded" => done = Work
    /\ verdict' = v
    /\ UNCHANGED done

ContractNext ==
    \/ \E t \in Work : CompleteTask(t)
    \/ \E v \in Verdicts \ {"open"} : Close(v)

Contract == ContractInit /\ [][ContractNext]_<<done, verdict>>
=============================================================================
