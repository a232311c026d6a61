----------------------------- MODULE Operations -----------------------------
(***************************************************************************)
(* The operations queue (ontology/operations.py) over the situations of    *)
(* ontology/views.py, which are events, and the overall threat level       *)
(* (intelligence/precompute.py).  Alerts and narratives are unresolved and *)
(* active.  Labels are written with underscores.                           *)
(***************************************************************************)
EXTENDS Scoring

SeverityRank(severity) ==
    CASE severity = "critical" -> 4 [] severity = "high" -> 3 [] severity = "medium" -> 2 [] severity = "low" -> 1

\* The mood counts by its distance from the worst, so a pleasant event
\* comes before an unpleasant one.
PriorityScore(e) ==
    (55 * (IF e.confidence = 0 THEN 2500 ELSE e.confidence)
     + 20 * Part(e.signals, 8) + 15 * Part(e.cited, 4)
     + 10 * (IF e.mood = Unknown THEN 0 ELSE 100 * e.mood)
     + (IF e.source = "composite" THEN 20 * One ELSE 0)) \div 100

MatchAlerts(e, alerts) ==
    {a \in alerts : \/ a.entity \in e.actors
                    \/ a.place # "none" /\ Occurs(a.place, e.place)
                    \/ Occurs(a.entity, e.title)}

MatchNarratives(e, narratives) ==
    {n \in narratives : \/ Occurs(n.topic, e.title)
                        \/ \E tag \in e.tags : Occurs(tag, n.topic) \/ Occurs(n.topic, tag)
                        \/ n.actors \cap e.actors # {}}

Highest(rows) == Top({SeverityRank(r.severity) : r \in rows})

RecommendPlaybook(e, as) ==
    [name |-> First(<<<<Highest(as) >= 3, "Escalation_Review">>,
                      <<e.type \in {"disaster", "health", "weather"}, "Crisis_Monitoring">>,
                      <<e.type \in {"market", "transport"}, "Market_and_Logistics_Response">>>>,
                    "Narrative_Surveillance"),
     approval |-> Highest(as) >= 3]

CoursesOfAction(e, as, ns) ==
    {"Escalate_to_analyst", "Issue_stakeholder_briefing"}
    \cup (IF e.actors # {} THEN {"Monitor_actor_network"} ELSE {})
    \cup (IF as # {} THEN {"Open_risk_review"} ELSE {})
    \* the list is cut to four
    \cup (IF ns # {} /\ (e.actors = {} \/ as = {}) THEN {"Track_narrative_evolution"} ELSE {})

QueueItem(e, alerts, narratives) ==
    LET as == MatchAlerts(e, alerts)
        ns == MatchNarratives(e, narratives)
        risk == Capped((65 * PriorityScore(e) + 25 * e.confidence) \div 100
                       + 800 * Highest(as) + 400 * Highest(ns))
    IN  [risk |-> risk, playbook |-> RecommendPlaybook(e, as), options |-> CoursesOfAction(e, as, ns),
         next |-> First(<<<<risk >= 7200, "Escalate_to_analyst">>, <<risk >= 5000, "Generate_briefing">>>>,
                        "Continue_monitoring")]

ThreatPosture(items) ==
    First(<<<<\E i \in items : i.risk >= 8200, "critical">>,
            <<\E i \in items : i.risk >= 6400, "elevated">>>>, "steady")

\* How many levels above LOW.
ThreatLevel(alerts, narratives) ==
    LET critical == Cardinality({a \in alerts : a.severity = "critical"})
        high == Cardinality({a \in alerts : a.severity = "high"})
        loud == Cardinality({n \in narratives : n.severity \in {"high", "critical"}})
    IN  First(<<<<critical >= 2 \/ (critical >= 1 /\ loud >= 2), 3>>,
                <<high >= 3 \/ critical >= 1, 2>>, <<high >= 1 \/ loud >= 1, 1>>>>, 0)
=============================================================================
