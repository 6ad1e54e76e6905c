---------------------------- MODULE MCScheduler ----------------------------
(* Small instances of Scheduler: plans and revisions for TLC.               *)
EXTENDS Scheduler, TLC

\* One task.
Single == 1 :> {}

\* 2 needs 1.
Chain == 1 :> {} @@ 2 :> {1}

\* 1 and 2 are independent, 3 needs both.
Diamond == 1 :> {} @@ 2 :> {} @@ 3 :> {1, 2}

\* Keep the chain; drop the dependent task; replace it by task 3.
ChainRevisions == {Chain, Single, 1 :> {} @@ 3 :> {1}}
=============================================================================
