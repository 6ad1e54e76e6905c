---------------------------- MODULE MCWorkerCases ----------------------------
(* Small cases of Workers, by the outside events that a behaviour meets, each with bounds of its own.   *)
EXTENDS Workers, TLC

Chain == [w \in Workers |-> w - 1]
Interchangeable == Permutations(Services)

\* One worker; both services may die. It is cancelled and resumed while processes survive a kill, or while
\* adapters fail, or resumed while both happen.
Survivors == {"cancel", "resume", "stubborn", "release"}
Failures == {"cancel", "resume", "fail"}
Retries == {"resume", "fail", "stubborn", "release", "register"}
Races == {Survivors, Failures, Retries}

\* One worker is resumed with a message sent to it; a service may die or be closed, binding may raise.
Messages == {"resume", "close", "bind"}
\* A worker and its child: cancellation of the tree races dispatch and resume of the child.
Tree == {"cancel", "resume"}

Cases == Races \cup {Messages, Tree}

\* A call begins only while an attempt is left, as the guards on Unused have it for NumAttempts.
Within(workers, attempts) ==
    /\ \A w \in Workers : w > workers => worker'[w].phase = "absent"
    /\ \A a \in Attempts : a > attempts => att'[a].status = "none"
    /\ \A s \in Services : Open(s) /\ ~ Open(s)' /\ call'[s].op # "none"
                             => \E a \in Unused : a <= attempts

CasesNext ==
    /\ Next
    /\ environment \in Races => Within(1, 2) /\ sent' = 0
    /\ environment = Messages => Within(1, 3) /\ crashes' <= 1
    /\ environment = Tree => Within(2, 2) /\ sent' = 0 /\ crashes' = 0

CasesSpec == Init /\ [][CasesNext]_<<vars, environment>>

LiveEnvironments == {Tree}
LiveSpec == Spec /\ Fairness
=============================================================================
