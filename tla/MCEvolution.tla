---------------------------- MODULE MCEvolution ----------------------------
(* Small instances of Evolution: sources, families, reports and seeds.      *)
EXTENDS Evolution

\* A weak source of a known family, a strong one of none, and one that fails its evaluation.
ThreeSources == {"weak", "strong", "broken"}
Families == [s \in ThreeSources |-> IF s = "weak" THEN "graph" ELSE NoFamily]
Reports == [s \in ThreeSources |->
              [valid |-> s # "broken",
               score |-> CASE s = "weak" -> 1 [] s = "strong" -> 2 [] OTHER -> 0]]

Seed(island, source) ==
    [iteration |-> 0, island |-> island, parent |-> 0, source |-> source, valid |-> TRUE,
     score |-> Reports[source].score, seed |-> TRUE, stale |-> FALSE]

\* No seeds, or two admitted ones on one island.
MaybeSeeds == {<<>>, <<Seed(0, "weak"), Seed(0, "weak")>>}
=============================================================================
