------------------------------- MODULE Views --------------------------------
(***************************************************************************)
(* The views that the precomputer keeps in Redis (intelligence/            *)
(* precompute.py) and the threat board, as they follow from the tables.    *)
(* A window of the views leaves out its first moment and the events        *)
(* without a time.                                                         *)
(***************************************************************************)
EXTENDS Workspace

Within24(table, now) == {r \in table : r.ts # None /\ r.ts > now - Day}
WithinWeek(table, now) == {r \in table : r.ts # None /\ r.ts > now - Week}

\* The sources are those of a day, the types and the total those of all time.
DashboardSummary(table, narratives, alerts, now) ==
    LET day == Within24(table, now)
    IN  [total |-> Cardinality(table), day |-> Cardinality(day),
         bySource |-> CountBy(day, LAMBDA r : r.source), byType |-> CountBy(table, LAMBDA r : r.type),
         narratives |-> Cardinality({n \in narratives : n.active}),
        alerts |-> Cardinality({a \in alerts : ~a.acknowledged})]

TrendLines(table, now) ==
    LET day == Within24(table, now)
        of(s) == {r \in day : r.source = s}
    IN  [s \in {r.source : r \in day} |-> CountBy(of(s), LAMBDA r : r.ts)]

SentimentSummary(table, now) ==
    LET felt == {r \in Within24(table, now) : r.mood # None}
        of(s) == {r \in felt : r.source = s}
    IN  [s \in {r.source : r \in felt} |-> [average |-> MeanMood(of(s)), count |-> Cardinality(of(s))]]

\* Countries as the rows name them, and by the official names they stand for.
\* Of the risk, which weighs by logarithms, only the mean is kept.
CountrySentiment(table, now) ==
    LET named(r) == NormalizeCountry(FirstOf(<<r.xcountry, r.sourcecountry, r.origin>>))
        felt == {r \in WithinWeek(table, now) : r.mood # None /\ named(r) # None}
        of(c) == {r \in felt : named(r) = c}
    IN  [c \in {named(r) : r \in felt} |->
            [average |-> MeanMood(of(c)), count |-> Cardinality(of(c)),
             negative |-> (One * Cardinality({r \in of(c) : r.label = "NEGATIVE"})) \div Cardinality(of(c))]]

\* The largest ten clusters of a day; the counts take in its first moment.
CorrelationSummary(signals, now) ==
    LET counted == {s \in signals : s.ts # None /\ s.ts >= now - Day}
        day == {s \in counted : s.ts > now - Day}
        of(c) == {s \in day : s.cluster = c}
        cluster(c) == [cluster |-> c, signals |-> Cardinality(of(c)), sources |-> {s.source : s \in of(c)},
                       score |-> Min({One, 350 + 80 * Cardinality(of(c))}),
                       span |-> Max({s.ts : s \in of(c)}) - Min({s.ts : s \in of(c)})]
        all == {cluster(c) : c \in {s.cluster : s \in day} \ {None}}
    IN  [total |-> Cardinality(counted), clustered |-> Cardinality({s \in counted : s.cluster # None}),
         clusters |-> Cardinality({s.cluster : s \in counted} \ {None}),
         sources |-> Cardinality({s.source : s \in counted}),
         top |-> Page(all, LAMBDA c : <<c.signals>>, 10, 0)]

\* Confidence is a constant of the row: [id -> thousandths], absent if unscored.
ConfidenceDistribution(table, confidence, now) ==
    LET day == Within24(table, now)
        scored == {r \in day : r.id \in DOMAIN confidence}
    IN  [high |-> Cardinality({r \in scored : confidence[r.id] >= 700}),
         medium |-> Cardinality({r \in scored : confidence[r.id] \in 300..699}),
         low |-> Cardinality({r \in scored : confidence[r.id] < 300}),
         unscored |-> Cardinality(day \ scored), total |-> Cardinality(day)]

-----------------------------------------------------------------------------
(* The threat board (api/routers/threatboard.py): one zone for every       *)
(* entity with an open alert and every topic of a narrative in the window. *)
(*                                                                         *)
(* An alert is [aid, entity, place, type, severity, z, at, resolved,       *)
(* acknowledged]; a narrative also has active.  z and the strength of a    *)
(* narrative are tenths, scores hundredths.                                *)

\* Of the thresholds of _threat_level, in hundredths.
ZoneLevel(score) ==
    CASE score >= 1500 -> "critical"
      [] score \in 800..1499 -> "high"
      [] score \in 300..799 -> "medium"
      [] score \in 100..299 -> "low"
      [] OTHER -> "monitoring"
OverallLevel(zones) ==
    LET at(level) == Cardinality({z \in zones : z.level = level})
    IN  CASE zones = {} -> "monitoring"
          [] at("critical") >= 1 -> "critical"
          [] at("critical") = 0 /\ at("high") >= 2 -> "high"
          [] at("critical") = 0 /\ (at("high") = 1 \/ (at("high") = 0 /\ at("medium") >= 3)) -> "elevated"
          [] OTHER -> "normal"

SeverityWeight(severity) ==
    CASE severity = "critical" -> 300 [] severity = "high" -> 200 [] severity = "medium" -> 100 [] OTHER -> 50

AlertWeight(a) == SeverityWeight(a.severity) + 3 * Max({0, a.z})
\* A strength of nought counts as one half.
NarrativeWeight(n) == ((IF n.strength = 0 THEN 5 ELSE n.strength) * SeverityWeight(n.severity) * 15) \div 100

ZoneOf(a) == FirstOf(<<a.entity, a.place>>)
Trend(now, before) ==
    CASE before = 0 -> IF now > 0 THEN "new" ELSE "stable"
      [] before > 0 /\ 10 * now > 13 * before -> "rising"
      [] before > 0 /\ 10 * now < 7 * before -> "falling"
      [] OTHER -> "stable"
\* The commonest severity, the graver of equals.
DominantSeverity(items) ==
    LET graver == <<"critical", "high", "medium", "low">>
        Count(i) == Cardinality({x \in items : x.severity = graver[i]})
        most == {i \in 1..4 : \A j \in 1..4 : Count(j) <= Count(i)}
    IN  IF items = {} THEN "medium" ELSE graver[Min(most)]

\* The zone k of its alerts, its narratives and its alerts of the window before.
Zone(k, in, on, past) ==
    LET score == SumOf([a \in in |-> AlertWeight(a)]) + SumOf([n \in on |-> NarrativeWeight(n)])
    IN  [name |-> k, score |-> score, level |-> ZoneLevel(score),
         alerts |-> Cardinality(in), narratives |-> Cardinality(on),
         trend |-> Trend(Cardinality(in), Cardinality(past)),
         severity |-> DominantSeverity(in \cup on),
         actors |-> UNION {Range(n.actors) : n \in on}]
AlertsRead == 500
NarrativesRead == 300

\* Alerts of the window that nobody resolved, and of the window before, resolved
\* or not; a query that fails shows an empty board, as calm as can be.
Zones(alerts, narratives, hours, now) ==
    LET open == Page({a \in alerts : a.at >= now - hours /\ ~a.resolved}, LAMBDA a : <<a.at, a.aid>>, AlertsRead, 0)
        past == {a \in alerts : a.at >= now - 2 * hours /\ a.at < now - hours}
        told == Page({n \in narratives : n.at >= now - hours}, LAMBDA n : <<n.at, n.nid>>, NarrativesRead, 0)
    IN  {Zone(k, {a \in open : ZoneOf(a) = k}, {n \in told : n.topic = k}, {a \in past : a.entity = k})
            : k \in ({ZoneOf(a) : a \in open} \cup {n.topic : n \in told}) \ {None}}
Board(zones) ==
    [zones |-> zones, overall |-> OverallLevel(zones),
     summary |-> [l \in {"critical", "high", "medium", "low", "monitoring"} |->
                    Cardinality({z \in zones : z.level = l})]]
\* Zones of equal scores at the limit are all shown.
ThreatboardOf(alerts, narratives, hours, limit, now) ==
    Board(Page(Zones(alerts, narratives, hours, now), LAMBDA z : <<z.score>>, limit, 0))
\* What /threatboard/summary shows: its cached copy is never written.
Counted(board) == [board EXCEPT !.zones = Cardinality(@)]
Summary(alerts, narratives, now) == Counted(ThreatboardOf(alerts, narratives, Day, 30, now))
=============================================================================
