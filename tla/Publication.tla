---------------------------- MODULE Publication ----------------------------
(***************************************************************************)
(* What the publication of a batch of outputs promises: the batch is        *)
(* decided once, as a whole, and nobody is told a decision that is not      *)
(* taken for good.                                                          *)
(***************************************************************************)
VARIABLES decision, told

Decisions == {"committed", "rolled_back"}

Init == decision = "none" /\ told = {}

Decide == decision = "none" /\ decision' \in Decisions /\ UNCHANGED told
Tell   == decision # "none" /\ told' = told \cup {decision} /\ UNCHANGED decision

\* The step that takes the decision may announce it too.
DecideAndTell == decision = "none" /\ decision' \in Decisions /\ told' = told \cup {decision'}

Next == Decide \/ Tell \/ DecideAndTell
Spec == Init /\ [][Next]_<<decision, told>>
=============================================================================
