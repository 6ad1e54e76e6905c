----------------------------- MODULE MCServices -----------------------------
(* Calls that must end. Each behaviour follows one of three flows: an agent session with its requests and    *)
(* checkpoints, an automatic solve with its coordinator, or the delivery of the selected candidate's outputs. *)
EXTENDS Sessions, Materialization, AutomaticSolve

VARIABLE flow

serviceVars == <<flow, sessionVars, vars, solveVars>>

ServicesInit == flow \in {"session", "solve", "delivery"} /\ SessionInit /\ Init /\ SolveInit

ServicesNext ==
    /\ UNCHANGED flow
    /\ \/ flow = "session" /\ SessionNext /\ UNCHANGED <<vars, solveVars>>
       \/ flow = "solve" /\ SolveNext /\ UNCHANGED <<vars, sessionVars>>
       \/ flow = "delivery" /\ Next /\ UNCHANGED <<sessionVars, solveVars>>

GateSteps(c) == Gate(c) \/ Claim(c) \/ OpenGate(c) \/ LaunchFails(c)

\* In a flow that is followed, the steps of a process that lives, and for a delivery that somebody calls again.
ServicesFair ==
    /\ WF_serviceVars(flow = "session" /\ Guardian /\ UNCHANGED <<flow, vars, solveVars>>)
    /\ WF_serviceVars(flow = "session" /\ RequestFails /\ UNCHANGED <<flow, vars, solveVars>>)
    /\ \A c \in Invocations : WF_serviceVars(flow = "solve" /\ GateSteps(c) /\ UNCHANGED <<flow, vars, sessionVars>>)
    /\ \A c \in Callers : WF_serviceVars(flow = "delivery" /\ Step(c) /\ UNCHANGED <<flow, sessionVars, solveVars>>)
    /\ SF_serviceVars(flow = "delivery" /\ (\E c \in Callers : Materialize(c)) /\ UNCHANGED <<flow, sessionVars, solveVars>>)

ServicesSpec == ServicesInit /\ [][ServicesNext]_serviceVars /\ ServicesFair
=============================================================================
