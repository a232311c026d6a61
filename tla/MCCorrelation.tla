--------------------------- MODULE MCCorrelation ---------------------------
(* Three signals that form a chain, whose ends are no pair themselves, and *)
(* two that are unrelated to them: one pass can form two clusters, and     *)
(* late arrivals split what would be one.  And a forest of N signals.  A   *)
(* behaviour is about the passes or about the forest.                      *)
EXTENDS Correlation, UnionFind

CONSTANTS a1, b1, a2, c1, c2, worker, job

MCSignals == {a1, b1, a2, c1, c2}
MCSourceOf == [s \in MCSignals |->
    IF s \in {a1, a2} THEN "rss" ELSE IF s \in {b1, c1} THEN "newsapi" ELSE "gdelt"]
MCScore == [p \in kSubset(2, MCSignals) |->
    IF p \in {{a1, b1}, {c1, c2}} THEN 80 ELSE IF p = {b1, a2} THEN 50 ELSE 20]

VARIABLE subject

MCVars == <<vars, forestVars, subject>>
MCInit ==
    /\ Init /\ ForestInit
    /\ subject \in {"passes", "forest"}
    /\ subject = "passes" => pending = {}
MCForest == subject = "forest" /\ ForestNext /\ UNCHANGED <<vars, subject>>
MCNext ==
    \/ subject = "passes" /\ Next /\ UNCHANGED <<forestVars, subject>>
    \/ MCForest
MCSpec == MCInit /\ [][MCNext]_MCVars /\ WF_MCVars(MCForest)

\* Uniting the pairs and collecting the clusters (_UnionFind) returns, whatever the
\* pairs and their order: halving shortens paths that the loop of find() walks.
ForestTerminates == subject = "forest" => Terminates
=============================================================================
