---------------------------- MODULE UnrestWatch ----------------------------
(***************************************************************************)
(* The unrest watch (intelligence/unrest_engine.py): regions, narratives,  *)
(* actors and alerts of three days, each with a score, and an overview.    *)
(*                                                                         *)
(* A desk d holds the rows that were loaded: the events of the window      *)
(* (recent) and of the one before (previous), narratives, alerts, actors,  *)
(* and which events have a risk score (scored).  A list is in no order:    *)
(* what the overview takes from its head is the highest score, which the   *)
(* cuts to the top 12, 20 and 15 of the sorted lists leave in.  Labels are *)
(* written with underscores.                                               *)
(***************************************************************************)
EXTENDS Scoring

SeverityWeight(severity) ==
    CASE severity = "critical" -> One
      [] severity = "high"     -> 7500
      [] severity = "medium"   -> 4500
      [] severity = "low"      -> 2000

TrendLabel(current, previous) ==
    First(<<<<previous = 0, IF current > 0 THEN "rising" ELSE "stable">>,
            <<100 * current >= 135 * previous, "rising">>,
            <<100 * current <= 75 * previous, "falling">>>>, "stable")

RecommendedAction(score, default) ==
    First(<<<<score >= 7500, "escalate_to_operations">>, <<score >= 5500, "triage_now">>,
            <<score >= 3500, "investigate">>>>, default)

KeywordPressure(es) == Clip(Share(MapThenSumSet(LAMBDA e : e.n * e.protest, es), 8))

RiskOf(e, d) == IF e \in d.scored THEN ComputeRiskScore(e) ELSE 0
AverageRisk(es, d) == IF es = {} THEN 0 ELSE Mean(LAMBDA e : RiskOf(e, d), es)
WithMood(es) == {e \in es : e.mood # Unknown}
AverageMood(es) == IF WithMood(es) = {} THEN 5000 ELSE 100 * Mean(LAMBDA e : e.mood, WithMood(es))
NegativeRatio(es) ==
    IF WithMood(es) = {} THEN 0
    ELSE Share(Copies({e \in WithMood(es) : e.mood <= 40}), Copies(WithMood(es)))

Narratives(region, d) == Cardinality({n \in d.narratives : region \in DOMAIN n.spread})
Alerts(region, d) == Cardinality({a \in d.alerts : a.place = region})

RegionWatch(region, d) ==
    LET es == {e \in d.recent : e.place = region}
        score == Clip((35 * AverageRisk(es, d) + 20 * NegativeRatio(es)
                       + 15 * Part(Copies(es), 12) + 15 * Part(Narratives(region, d), 4)
                       + 10 * Part(Alerts(region, d), 3) + 5 * KeywordPressure(es)) \div 100)
        before == Copies({e \in d.previous : e.place = region})
        driver == First(<<<<NegativeRatio(es) >= 4500, "sentiment_deterioration">>,
                          <<Alerts(region, d) >= 2, "corroborated_alerts">>,
                          <<Narratives(region, d) >= 2, "narrative_acceleration">>,
                          <<Copies(es) >= 6, "incident_spike">>>>, "mixed_pressure")
    IN  [score |-> score, driver |-> driver, momentum |-> TrendLabel(Copies(es), before),
         action |-> RecommendedAction(score, "monitor")]

\* A region is listed when an event of the window happened there.
Regions(d) == {RegionWatch(e.place, d) : e \in d.recent}

About(n, es) == {e \in es : n.topic \in e.words \/ n.actors \cap e.actors # {}}

NarrativeWatch(n, d) ==
    LET matched == Copies(About(n, d.recent))
        events == IF n.events = 0 THEN matched ELSE n.events
        concentration == Top({n.spread[r] : r \in DOMAIN n.spread})
        pressure == Clip(Share(n.protest, 8))
        score == Clip((35 * n.strength + 20 * n.confidence + 15 * Part(events, 10)
                       + 10 * Part(n.sources, 5) + 10 * concentration + 10 * pressure) \div 100)
        driver == First(<<<<pressure >= 3500, "protest_language">>,
                          <<concentration >= 4500, "geographic_spread">>,
                          <<n.sources >= 4, "source_breadth">>>>, "narrative_acceleration")
    IN  [score |-> score, driver |-> driver,
         momentum |-> TrendLabel(matched, Copies(About(n, d.previous))),
         action |-> RecommendedAction(score, "watch_narrative")]

ActorWatch(a, d) ==
    LET es == {e \in d.recent : a.name \in e.actors}
        ns == Cardinality({n \in d.narratives : a.name \in n.actors})
        as == Cardinality({x \in d.alerts : x.entity = a.name})
        score == Clip((35 * a.influence + 20 * Part(Copies(es), 8) + 15 * Part(ns, 4)
                       + 10 * Part(as, 3) + 10 * AverageRisk(es, d)
                       + 5 * (One - AverageMood(es)) + 5 * KeywordPressure(es)) \div 100)
        driver == First(<<<<a.influence >= 5500, "actor_amplification">>,
                          <<Copies(es) >= 3, "event_recurrence">>,
                          <<ns >= 2, "narrative_attachment">>>>, "emerging_watch")
    IN  [score |-> score, driver |-> driver, listed |-> score >= 2000 \/ es # {} \/ ns > 0,
         momentum |-> IF Copies(es) >= 4 \/ ns >= 2 THEN "rising" ELSE "stable",
         action |-> RecommendedAction(score, "review_actor")]

Actors(d) == {w \in {ActorWatch(a, d) : a \in d.actors} : w.listed}

LinkedNarratives(a, d) ==
    {n \in d.narratives : Occurs(a.entity, n.topic) \/ a.entity \in n.actors \/ a.place \in DOMAIN n.spread}

AlertWatch(a, d) ==
    LET linked == Min({4, Cardinality(LinkedNarratives(a, d))})
        corroboration == Clip((35 * Part(a.sources, 4) + 25 * Part(a.events, 6)
                               + 25 * Part(a.z, 5) + 15 * Part(linked, 3)) \div 100)
        score == Clip((60 * corroboration + 40 * SeverityWeight(a.severity)) \div 100)
    IN  [score |-> score, corroboration |-> corroboration,
         momentum |-> IF corroboration >= 5500 THEN "rising" ELSE "stable",
         action |-> RecommendedAction(score, "review")]

Watched(d) == [regions |-> Regions(d), narratives |-> {NarrativeWatch(n, d) : n \in d.narratives},
               actors |-> Actors(d), alerts |-> {AlertWatch(a, d) : a \in d.alerts}]
TopScore(items) == Top({i.score : i \in items})

\* Mutant of Pressure: the mean of the lists that are not empty.
PressureOfSome(w) ==
    LET lists == {l \in {"regions", "narratives", "alerts"} : w[l] # {}}
    IN  IF lists = {} THEN 0
        ELSE MapThenSumSet(LAMBDA l : TopScore(w[l]), lists) \div Cardinality(lists)

\* Mutant of Pressure: the sum of the three instead of their mean.
PressureSummed(w) == Clip(TopScore(w.regions) + TopScore(w.narratives) + TopScore(w.alerts))

Pressure(w) == (TopScore(w.regions) + TopScore(w.narratives) + TopScore(w.alerts)) \div 3

UnrestLevel(pressure) ==
    First(<<<<pressure >= 7500, "critical">>, <<pressure >= 5500, "high">>,
            <<pressure >= 3500, "elevated">>>>, "low")
=============================================================================
