---------------------------- MODULE ActorScores ----------------------------
(***************************************************************************)
(* Two scores of an actor: how much it looks like a bot                    *)
(* (intelligence/bot_score.py), from a day of events that name it, and how *)
(* influential it is (intelligence/influence_scorer.py), from a month.     *)
(* Times are minutes; near-identical titles are equal ones.                *)
(***************************************************************************)
EXTENDS Scoring, Sequences

CONSTANTS
    SourceTiers,  \* <<key, tier>>, in the order of the table
    SourceType    \* SourceType[s]: the broad type of a source's key

ASSUME TiersAssumption ==
    DOMAIN SourceTiers \subseteq Nat /\ \A i \in DOMAIN SourceTiers : SourceTiers[i][2] \in 1..4

Naming(a, es) == {e \in es : a \in e.actors}

\* Pairs of events with the same title, of all pairs.
Pairs(n) == (n * (n - 1)) \div 2
RepetitionRate(es) ==
    LET same(t) == Pairs(Copies({e \in es : e.title = t}))
    IN  IF Copies(es) < 2 THEN 0
        ELSE Share(MapThenSumSet(same, {e.title : e \in es}), Pairs(Copies(es)))

Types(es) == {SourceType[e.source] : e \in es}

\* Three types of source within one hour of the clock.
CrossPlatformSync(es) ==
    IF \E e \in es : Cardinality(Types({x \in es : x.at \div 60 = e.at \div 60})) >= 3 THEN One ELSE 0

SourceDiversityLow(es) ==
    CASE Cardinality({e.source : e \in es}) <= 1 -> One
      [] Cardinality({e.source : e \in es}) = 2 -> 7500
      [] Cardinality({e.source : e \in es}) = 3 -> 4000
      [] OTHER -> 0

OffHoursRatio(es) == Share(Copies({e \in es : e.at \div 60 \in 2..4}), Copies(es))

\* From the first event to the first at which three types have been seen.
PropagationSpeed(es) ==
    LET reached == {e.at : e \in {x \in es : Cardinality(Types({y \in es : y.at <= x.at})) >= 3}}
        first == Min({e.at : e \in es})
    IN  IF reached = {} THEN 0 ELSE One - Part(Min(reached) - first, 60)

\* The day expects a seventh of the week before.
BotScore(a, day, week) ==
    LET es == Naming(a, day)
    IN  Clip((25 * Surprise(Copies(es), Copies(Naming(a, week)), 7) + 20 * RepetitionRate(es)
              + 20 * CrossPlatformSync(es) + 15 * SourceDiversityLow(es)
              + 10 * OffHoursRatio(es) + 10 * PropagationSpeed(es)) \div 100)

BotRisk(score) == First(<<<<score >= 7000, "HIGH">>, <<score >= 4000, "MEDIUM">>>>, "LOW")

MinEvents == 3
BotScores(day, week) ==
    LET named == {a \in UNION {e.actors : e \in day} : Copies(Naming(a, day)) >= MinEvents}
    IN  [a \in named |-> BotScore(a, day, week)]

-----------------------------------------------------------------------------
MinMentions == 3
Candidates(es) == {a \in UNION {e.actors : e \in es} : Copies(Naming(a, es)) >= MinMentions}
Reach(a, es) == Cardinality({e.source : e \in Naming(a, es)})
CoMentions(a, es) == MapThenSumSet(LAMBDA e : e.n * (Cardinality(e.actors) - 1), Naming(a, es))

\* Each part relative to the greatest among the candidates.
InfluenceScores(es) ==
    LET cs == Candidates(es)
        mentions == Top({Copies(Naming(a, es)) : a \in cs})
        reach == Top({Reach(a, es) : a \in cs})
        together == Max({1} \cup {CoMentions(a, es) : a \in cs})
    IN  [a \in cs |-> (40 * Share(Copies(Naming(a, es)), mentions) + 30 * Share(Reach(a, es), reach)
                       + 30 * Share(CoMentions(a, es), together)) \div 100]

\* Whom an actor influences: an edge of the graph, if the two were written
\* together often enough and the scores differ enough.  The graph counts the
\* writes of an event, not the events: one that three runs deliver counts three.
Together(p, writes) == MapThenSumSet(LAMBDA w : w.event.n, {w \in writes : {p[1], p[2]} \subseteq w.event.actors})
InfluenceEdges(score, writes) ==
    LET rising == {p \in (DOMAIN score) \X (DOMAIN score) :
                      Together(p, writes) >= 3 /\ score[p[1]] > score[p[2]]}
    IN  {{p \in S : score[p[1]] - score[p[2]] >= 500} :
            S \in Cuts("pairs", [p \in rising |-> Together(p, writes)])}

\* With the centrality of the graph, where the plugin for it is installed.
BlendPagerank(base, pagerank) ==
    [a \in DOMAIN base |-> (70 * base[a] + 30 * (IF a \in DOMAIN pagerank THEN pagerank[a] ELSE 0)) \div 100]

-----------------------------------------------------------------------------

\* The credibility of a source (intelligence/credibility.py): a baseline for its
\* tier and a boost for every event of the last day that two other sources
\* repeat within four hours.  Nothing in the program calls apply_penalty or
\* apply_boost, so the file of adjustments stays empty.  Even an entry of it
\* would not make a score decay: its timestamp ends in "+00:00Z", which does not
\* parse once the Z is replaced, and the score is computed as of today.
TierForSource(source) ==
    LET exact == [i \in DOMAIN SourceTiers |-> <<source = SourceTiers[i][1], SourceTiers[i][2]>>]
        inside == [i \in DOMAIN SourceTiers |->
                     <<Occurs(SourceTiers[i][1], source), SourceTiers[i][2]>>]
    IN  First(exact, First(inside, 4))

BaseScore(tier) == CASE tier = 1 -> 9500 [] tier = 2 -> 7500 [] tier = 3 -> 5500 [] tier = 4 -> 3500

\* Sources other than its own that repeat the event within four hours.
Repeating(e, es) ==
    {x.source : x \in {y \in es : y.title = e.title /\ y.at \in e.at..(e.at + 240)}} \ {e.source}

Corroborations(s, es) ==
    Copies({e \in es : e.source = s /\ Cardinality(Repeating(e, es)) >= 2})

DecayedScore(base, boosts) == Clip(base + 500 * boosts)

SourceScores(es) ==
    LET known == {SourceTiers[i][1] : i \in DOMAIN SourceTiers} \cup {e.source : e \in es}
    IN  [s \in known |-> DecayedScore(BaseScore(TierForSource(s)), Corroborations(s, es))]
=============================================================================
