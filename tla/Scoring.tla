------------------------------ MODULE Scoring ------------------------------
(***************************************************************************)
(* Arithmetic the scorers share.  A score between 0.0 and 1.0 is an        *)
(* integer in 0..One; a quotient is rounded down, which no property is     *)
(* about.  An event row stands for n events that differ in nothing a       *)
(* scorer reads, as many copies of one report do.                          *)
(***************************************************************************)
EXTENDS Integers, FiniteSetsExt

CONSTANTS
    Contains,  \* the pairs <<text, part>> of which the second occurs in the first
    Limit      \* Limit[query]: how many rows it returns

One == 10000
Unknown == -1           \* a mood nobody determined; the others are percents

Capped(x) == Min({x, One})
Clip(x) == Max({0, Capped(x)})
Share(a, b) == (One * a) \div b
Part(a, b) == Capped(Share(a, b))
Top(S) == Max(S \cup {0})
Root(x) == CHOOSE k \in 0..x : k * k <= x /\ x < (k + 1) * (k + 1)

Occurs(part, text) == part = text \/ <<text, part>> \in Contains

\* The label of the first case that holds.
First(cases, default) ==
    LET hits == {i \in DOMAIN cases : cases[i][1]}
    IN  IF hits = {} THEN default ELSE cases[Min(hits)][2]

Copies(es) == MapThenSumSet(LAMBDA e : e.n, es)
Mean(f(_), es) == MapThenSumSet(LAMBDA e : e.n * f(e), es) \div Copies(es)

\* (current - expected) / sqrt(max(expected, 1)) / 5, where a window expects
\* one k-th of what the week before it held.
Surprise(current, week, k) ==
    Clip((One * (k * current - week)) \div (5 * Max({k, Root(k * week)})))

\* What a query with a limit returns: rows of the highest rank.  Which of those
\* with equal ranks is left open.
Cuts(query, rank) ==
    LET rows == DOMAIN rank
    IN  {S \in SUBSET rows : /\ Cardinality(S) = Min({Limit[query], Cardinality(rows)})
                             /\ \A r \in S, x \in rows \ S : rank[r] >= rank[x]}
Newest(query, rows) == Cuts(query, [r \in rows |-> r.at])
Oldest(query, rows) == Cuts(query, [r \in rows |-> -r.at])

-----------------------------------------------------------------------------

\* The risk score of one event (intelligence/risk_engine.py), and how the
\* pipeline worker reads an event for it.  A text is the number of keywords of
\* each list it contains.
KeywordMilitaryScore(e) ==
    Capped(2500 * e.high + 1200 * e.medium + 1500 * e.disaster + 1000 * e.infosec)

\* The worker passes on the mood of an event only if it is not zero: the
\* worst mood there is counts as unknown.
MoodRead(e) == IF e.mood = 0 THEN Unknown ELSE e.mood

SentimentRisk(mood) ==
    CASE mood = Unknown   -> 3000
      [] mood \in 0..30   -> One
      [] mood \in 31..50  -> 5000
      [] mood \in 51..70  -> 2000
      [] mood \in 71..100 -> 500

AnomalyFlag(e) ==
    First(<<<<"anomaly" \in e.tags, One>>, <<{"alert", "critical"} \cap e.tags # {}, 7000>>>>, 0)

NarrativeSignal(e) ==
    Top({IF e.trigger = "auto_social" THEN 5000 ELSE 0,
         IF e.signals >= 5 THEN 7000 ELSE 0, IF e.signals >= 2 THEN 4000 ELSE 0})

ComputeRiskScore(e) ==
    Clip((30 * KeywordMilitaryScore(e) + 25 * SentimentRisk(MoodRead(e))
          + 20 * NarrativeSignal(e) + 15 * AnomalyFlag(e) + 10 * e.influence) \div 100)
=============================================================================
