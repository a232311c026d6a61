------------------------------ MODULE Serving -------------------------------
(***************************************************************************)
(* What the API serves, while the table it serves from is being written.   *)
(*                                                                         *)
(* A behaviour follows one subject: the jobs that callers ask for, the     *)
(* screen of one analyst, the views of the dashboard, a walker through a   *)
(* window of events that are stored and reported anew, or a reader to whom *)
(* also scores, cases, alerts, narratives, assets and signals come in, and *)
(* who opens workspaces.  What only reads is an operator of the modules   *)
(* below, taken here over the tables of every state.                       *)
(***************************************************************************)
EXTENDS LiveScreen

CONSTANTS
    Subjects,     \* the subjects that behaviours follow
    Evidence,     \* what may come in to a reader: [kind, value]
    MaxEvidence,  \* bound: how much of it comes in
    WalkLimit,    \* events of one page of the walk
    Questions,    \* what workspaces ask
    Videos,       \* what a live search finds
    Fetched,      \* posts that a reader's event attracts
    Links         \* pairs that the graph links

ASSUME ServingAssumption == MaxEvidence \in Nat /\ WalkLimit \in Nat \ {0} /\ Subjects # {}
ASSUME JobsAssumption == IsFiniteSet(Jobs)

\* The columns of the records, as the database types them.
IsReport(e) ==
    /\ IsEvent(e) /\ {"tags", "trigger", "echo"} \subseteq DOMAIN e
    /\ {e.risk, e.signals, e.supporting, e.influence} \subseteq Nat /\ e.mood \in Int \cup {None}
    /\ IsFiniteSet(e.words) /\ IsFiniteSet(e.tags)
IsScore(s) == {s.risk, s.signals} \subseteq Nat
IsSituation(s) == {s.sid, s.at} \subseteq Int /\ {s.risk, s.count} \subseteq Nat
IsAlert(a) == {a.aid, a.at, a.z} \subseteq Int
IsNarrative(n) == {n.nid, n.at} \subseteq Int /\ n.strength \in Nat
IsSignal(s) == s.ts \in Int \cup {None}
ASSUME EvidenceAssumption ==
    \A i \in Evidence :
        \/ i.kind = "event" /\ IsReport(i.value)
        \/ i.kind = "score" /\ IsScore(i.value)
        \/ i.kind = "situation" /\ IsSituation(i.value)
        \/ i.kind = "alert" /\ IsAlert(i.value)
        \/ i.kind = "narrative" /\ IsNarrative(i.value)
        \/ i.kind = "asset"
        \/ i.kind = "signal" /\ IsSignal(i.value)
\* What is found at once has every id once: Postgres refuses a batch that has not.
ASSUME FoundAssumption ==
    /\ IsFiniteSet(Videos) /\ \A v \in Videos : IsReport(v)
    /\ IsFiniteSet(Fetched) /\ \A p \in Fetched : p.id \in Int /\ IsFiniteSet(p.words)
    /\ \A v, w \in Videos : v.id = w.id => v = w
    /\ \A p, q \in Fetched : p.id = q.id => p = q
ASSUME LinksAssumption == \A p \in Links : Cardinality(p) = 2

\* FamilyOrder has the family of every source once.
Reported == {i.value : i \in {x \in Evidence : x.kind = "event"}} \cup Videos
ASSUME FamilyOrderAssumption ==
    /\ FamilyOrder \in Seq(Range(FamilyOrder)) /\ IsInjective(FamilyOrder)
    /\ \A e \in Reported : WorkspaceFamily(e.source) \in Range(FamilyOrder)

VARIABLES
    subject,      \* the subject of the behaviour
    situations,   \* the cases
    alerts, narratives, assets, signals,
    came,         \* the evidence that came in
    walk          \* the walker: [phase, offset, listed, got, owed, moved, cut]

evidenceVars == <<situations, alerts, narratives, assets, signals, came>>
vars == <<subject, table, jobVars, liveVars, evidenceVars, walk>>

Resting == [phase |-> "resting", offset |-> 0, listed |-> 0, got |-> {}, owed |-> {}, moved |-> FALSE, cut |-> FALSE]
Horizon == 48

Init ==
    /\ subject \in Subjects
    /\ table = {} /\ JobsInit /\ LiveInit
    /\ subject # "jobs" => bus
    /\ subject # "screen" => hub = "connected"
    /\ situations = {} /\ alerts = {} /\ narratives = {} /\ assets = {} /\ signals = {}
    /\ came = {} /\ walk = Resting

Serve(s) == subject = s /\ UNCHANGED subject
JobsServed ==
    /\ Serve("jobs")
    /\ \E j \in Jobs : Trigger(j) \/ Break(j) \/ JobStep(j)
    /\ UNCHANGED <<liveVars, evidenceVars, walk>>

Stored ==
    /\ subject \in {"screen", "views"} /\ UNCHANGED subject
    /\ \/ \E e \in Arrivals : Stamp(e) /\ UNCHANGED table
       \/ \E e \in inFlight : Commit(e)
    /\ UNCHANGED <<jobVars, evidenceVars, walk>>
Session(A) == Serve("screen") /\ A /\ UNCHANGED <<table, jobVars, evidenceVars, walk, now, inFlight, viewVars>>
ScreenServed ==
    \/ Session(SessionStep /\ UNCHANGED incidents)
    \/ Session(SessionIncident)
ViewsServed ==
    /\ Serve("views")
    /\ TakeMessage \/ Precompute \/ Die
    /\ UNCHANGED <<table, jobVars, evidenceVars, walk, now, inFlight, screenVars>>

-----------------------------------------------------------------------------
(* The reader's subject.                                                   *)

\* A record in place of the one it updates.
Put(records, record, Key(_)) == {r \in records : Key(r) # Key(record)} \cup {record}

\* Scores are written to the columns of a row.
Rescored(score) ==
    {IF r.id = score.id THEN [r EXCEPT !.risk = score.risk, !.signals = score.signals] ELSE r : r \in table}

\* Something comes in: an event is stored or reported anew, the pipeline scores
\* one, a situation, an alert, a narrative, an asset or a signal is stored.
Arrive ==
    \E i \in Evidence \ came :
        LET Of(k, records, Key(_)) == IF i.kind = k THEN Put(records, i.value, Key) ELSE records
        IN  /\ Cardinality(came) < MaxEvidence
            /\ subject = "walker" => i.kind = "event"
            /\ i.kind = "score" => \E r \in table : r.id = i.value.id
            /\ came' = came \cup {i}
            /\ table' = CASE i.kind = "event" -> UpsertMany(table, {i.value})
                          [] i.kind = "score" -> Rescored(i.value)
                          [] OTHER -> table
            /\ situations' = Of("situation", situations, LAMBDA s : s.sid)
            /\ alerts' = Of("alert", alerts, LAMBDA a : a.aid)
            /\ narratives' = Of("narrative", narratives, LAMBDA n : n.nid)
            /\ assets' = Of("asset", assets, LAMBDA a : a.aid)
            /\ signals' = Of("signal", signals, LAMBDA s : s.sid)
            /\ walk' = [walk EXCEPT !.moved = @ \/ \E r \in table : \E s \in table' : r.id = s.id /\ r.ts # s.ts]

\* A workspace asks for sentiment and stores the videos it finds.
AskSentiment ==
    /\ \E q \in Questions : table' = ResolveSentiment(table, q, Videos, Day).table
    /\ UNCHANGED <<evidenceVars, walk>>
\* An analyst adds a note to an event.
AddNote ==
    /\ \E r \in table : signals' = EnrichEvent(signals, r.id, "note")
    /\ UNCHANGED <<table, situations, alerts, narratives, assets, came, walk>>

\* GET /events/window, page by page: the rows first, then the count, which may
\* fail.  Where another statement fails, the page is of what the jobs of the
\* process have in memory, and it is the last.
Scope == [NoFilter EXCEPT !.from = 0, !.to = Day]
Matching == Selected(table, Scope)
WalkBegin ==
    /\ walk.phase = "resting"
    /\ walk' = [Resting EXCEPT !.phase = "reading", !.owed = Ids(Matching)]
    /\ UNCHANGED <<table, evidenceVars>>
WalkRead ==
    /\ walk.phase = "reading"
    /\ \E page \in ListPages(table, Scope, WalkLimit, walk.offset) :
         walk' = [walk EXCEPT !.phase = "counting", !.listed = Cardinality(page), !.got = @ \cup Ids(page)]
    /\ UNCHANGED <<table, evidenceVars>>
WalkCount ==
    /\ walk.phase = "counting"
    /\ \E ok \in BOOLEAN :
         LET next == walk.offset + walk.listed
             more == next < Total(table, Scope, walk.listed, walk.offset, ok)
         IN  walk' = [walk EXCEPT !.phase = IF more THEN "reading" ELSE "ended", !.offset = next, !.cut = ~ok]
    /\ UNCHANGED <<table, evidenceVars>>
WalkFallBack ==
    /\ walk.phase \in {"reading", "counting"}
    /\ \E page \in SUBSET Filter(MemoryEvents, Scope) :
         /\ Cardinality(page) <= WalkLimit
         /\ walk' = [walk EXCEPT !.phase = "ended", !.got = @ \cup Ids(page), !.cut = TRUE]
    /\ UNCHANGED <<table, evidenceVars>>

ReaderServed ==
    /\ Serve("reader")
    /\ Arrive \/ AskSentiment \/ AddNote
    /\ UNCHANGED <<jobVars, liveVars>>
WalkerServed ==
    /\ Serve("walker")
    /\ Arrive \/ WalkBegin \/ WalkRead \/ WalkCount \/ WalkFallBack
    /\ UNCHANGED <<jobVars, liveVars>>

Next == JobsServed \/ Stored \/ ScreenServed \/ ViewsServed \/ ReaderServed \/ WalkerServed

\* A background task leaves every step it comes to (weak fairness of JobStep,
\* which is enabled at each, said without ENABLED, which would run through the
\* whole of the pipeline); the timers of a session elapse, which takes a pause
\* in the ticks, and its requests come back, at the latest by their time-out; the
\* pipeline worker, while it lives, and what it waits for go on.  Nobody has to
\* ask, to extract or to read.
Fairness ==
    /\ \A j \in Jobs, p \in Running : []<>(phase[j] # p)
    /\ WF_vars(Session(Elapse /\ UNCHANGED incidents)) /\ WF_vars(Session(Drain /\ UNCHANGED incidents))
    /\ WF_vars(Session(PullStep("drain") /\ UNCHANGED incidents)) /\ WF_vars(Session(Receive("drain")))
    /\ WF_vars(ViewsServed /\ ~dead')
Spec == Init /\ [][Next]_vars /\ Fairness

-----------------------------------------------------------------------------
(* What a reader is shown adds up.                                         *)

Rows == {RowToEvent(r) : r \in table}

\* What a job shown as done has found is in the feed of this process, with a
\* place where one can be told, unless it is raw tracking; once stored it is in
\* the table and in a snapshot that covers its time: 50 events of either.
Everything == [f |-> NoFilter, sort |-> "latest", cases |-> FALSE, tracking |-> TRUE, limit |-> 50, offset |-> 0]
DoneIsRead ==
    \A j \in {x \in Jobs : Status(x) = "done"} :
        LET shown == {i.event : i \in MemoryFeed(MemoryEvents, Everything, Day).events}
            stored == Ids(Snapshot(table, Day, Day, 50))
        IN  \A e \in Range(batch[j]) :
                /\ Feedworthy(e, TRUE) /\ Cardinality(MemoryEvents) <= 50 =>
                     \E x \in shown : x.id = e.id /\ Placed(x)
                /\ asked[j].db /\ mirror[j].warnings = {} =>
                     \E r \in table : r.id = e.id /\ (r.ts \in 0..Day /\ Cardinality(table) <= 50 => e.id \in stored)

\* A walk through a window that ends, and not by a statement that failed, has
\* returned every event that was in the window when it began and has its times
\* for itself, however many are added meanwhile, unless an event was reported
\* anew with another time, which moves it on the pages.
Tied == {r.id : r \in {x \in Matching : \E y \in Matching : y.id # x.id /\ y.ts = x.ts /\ y.ingest = x.ingest}}
WalkComplete == walk.phase = "ended" /\ ~walk.moved /\ ~walk.cut => walk.owed \ Tied \subseteq walk.got

\* The facets, the points of the timeline and the groups of the feed partition
\* what they are made of; groups are the page's, or cases of two sources or
\* more; the map shows every located event, up to its cap; an actor under a
\* critical alert has a zone while the board has room for one of every alert and
\* narrative.
Asked == [f |-> NoFilter, sort |-> "priority", cases |-> TRUE, tracking |-> TRUE, limit |-> 3, offset |-> 0]
GroupsAddUp(plain) == SumOf([g \in plain.groups |-> Cardinality(g.events)]) = Cardinality(plain.events)
CasesAddUp(page) == \A g \in page.groups : g.sources >= 2 \/ g.events \subseteq page.events
LineAddsUp(line) == SumOf([d \in DOMAIN line |-> line[d].count]) = Cardinality({r \in table : r.mood # None})
BoardHasRoom == Cardinality(alerts) + Cardinality(narratives) <= 30
FeedAddsUp ==
    /\ GroupsAddUp(FeedPage(table, {}, Asked, Day)) /\ CasesAddUp(FeedPage(table, situations, Asked, Day))
    /\ LineAddsUp(SentimentTimeline(table, NoFilter, Day))
    /\ SumOf(SourceFacets(table, NoFilter)) = Cardinality(table)
    /\ Cardinality(table) <= TrackingCap =>
          {r.id : r \in {x \in table : x.at # None /\ x.at.lat # 0}} \subseteq Ids(EventsMap(table, NoFilter, 500))
    /\ \A a \in alerts : (/\ a.type = "entity_spike" /\ a.severity = "critical" /\ ~a.resolved
                         /\ a.entity # None /\ a.at >= Day - 1 /\ BoardHasRoom)
          => a.entity \in {z.name : z \in ThreatboardOf(alerts, narratives, Day, 30, Day).zones}

\* The dossier of an event has everything related on its timeline, and its
\* clusters hold all its clustered signals; what posts say of it is certain to
\* no more than 1.
ViewAddsUp(d) ==
    LET grouped == {s \in d.signals : s.cluster # None}
    IN  /\ Cardinality(d.timeline)
               = Cardinality(d.news) + Cardinality(d.posts) + Cardinality(d.physical) + Cardinality(d.narratives)
        /\ grouped # {} => SumOf([c \in d.clusters |-> c.signals]) = Cardinality(grouped)
        /\ d.divergence \in 0..One
ReactionsAddUp(social) == social.narrative.confidence \in 0..One /\ Cardinality(social.posts) <= 4
DossierAddsUp ==
    \A r \in table :
        /\ ViewAddsUp(BuildEventView(r.id, table, narratives, assets, signals, Horizon, Day))
        /\ ReactionsAddUp(EventSocial(RowToEvent(r), Fetched, narratives, 4))
        /\ Placed(GetEvent(r.id, table))

\* Of the events of a workspace no family is cut short while another has two
\* more; its counts, and the combined line of sentiment, add up; every name was
\* found in as many events as it says, or twice.
FamilyShare(events, f) == Cardinality({e \in events : WorkspaceFamily(e.source) = f})
Shared(chosen) ==
    \A e \in Rows \ chosen : \A f \in {WorkspaceFamily(x.source) : x \in chosen} :
        FamilyShare(chosen, f) <= FamilyShare(chosen, WorkspaceFamily(e.source)) + 1
FairShares == \A n \in 1..3 : Shared(BalancedEvents(Rows, n))
EventsAddUp(events, q) ==
    /\ SumOf(CountBy(events, LAMBDA e : e.source)) = Cardinality(events)
    /\ \A e \in events : InBbox(e.at, q.geo)
AssetsAddUp(found) == SumOf(found.counts) = Cardinality(found.assets) /\ found.anomalies \subseteq found.assets
MoodsAddUp(line) == \A d \in DOMAIN line : line[d].positive + line[d].neutral + line[d].negative <= line[d].count
SentimentAddsUp(sentiment) ==
    MoodsAddUp(Combined(sentiment.lines)) /\ Ids(sentiment.items) \subseteq Ids(sentiment.table)
NamesAddUp(found) == \A n \in DOMAIN found : found[n].count \in found[n].events..(2 * found[n].events)
WebAddsUp(web) == Links \subseteq web.links /\ \A p \in web.links : Cardinality(p) = 2
WorkspaceAddsUp ==
    \A q \in Questions :
        /\ EventsAddUp(ResolveEvents(table, q, Day), q)
        /\ AssetsAddUp(ResolveAssets(assets, q))
        /\ SentimentAddsUp(ResolveSentiment(table, q, Videos, Day))
        /\ NamesAddUp(ResolveEntities(table, q, Day))
        /\ WebAddsUp(ResolveCorrelation(table, q, Links, Day))
        /\ WorkspaceTerms(q) # {} => DevelopmentSourcePrefixes(q) # {}

\* The board counts every zone once and, while it has room for all zones, every
\* open alert and story of the day in one.
OpenAlerts == {a \in alerts : a.at >= 0 /\ ~a.resolved /\ ZoneOf(a) # None}
OpenStories == {n \in narratives : n.at >= 0 /\ n.topic # None}
ZonesAddUp(board) ==
    /\ SumOf(board.summary) = Cardinality(board.zones)
    /\ BoardHasRoom => /\ SumOf([z \in board.zones |-> z.alerts]) = Cardinality(OpenAlerts)
                       /\ SumOf([z \in board.zones |-> z.narratives]) = Cardinality(OpenStories)
    /\ Summary(alerts, narratives, Day).overall = board.overall
BoardAddsUp == ZonesAddUp(ThreatboardOf(alerts, narratives, Day, 30, Day))

\* The views that are made of the same rows agree; clusters do as far as they are
\* shown, and but for the signals of the first moment.
ViewsAddUp ==
    LET dash == DashboardSummary(table, narratives, alerts, Day)
        trends == TrendLines(table, Day)
        felt == SentimentSummary(table, Day)
        countries == CountrySentiment(table, Day)
        told == CorrelationSummary(signals, Day)
        shown == SumOf([c \in told.top |-> c.signals])
        sure == ConfidenceDistribution(table, <<>>, Day)
    IN  /\ SumOf(dash.byType) = dash.total /\ dash.day <= dash.total
        /\ \A s \in DOMAIN dash.bySource : SumOf(trends[s]) = dash.bySource[s]
        /\ SumOf([s \in DOMAIN felt |-> felt[s].count]) <= dash.day
        /\ SumOf([c \in DOMAIN countries |-> countries[c].count]) <= dash.total
        /\ shown <= told.clustered
        /\ told.clusters <= 10 /\ (\A s \in signals : s.ts # 0) => shown = told.clustered
        /\ sure.high + sure.medium + sure.low + sure.unscored = dash.day

\* What is done is shown, a walk through a window returns what it owes, and what
\* a reader is shown of one table adds up.
ReadsComplete ==
    /\ DoneIsRead /\ WalkComplete
    /\ subject = "reader" =>
         FeedAddsUp /\ DossierAddsUp /\ FairShares /\ WorkspaceAddsUp /\ BoardAddsUp /\ ViewsAddUp

\* No event sinks by evidence: its score in the feed is no lower, and its place
\* among those worth the analyst's time no worse, than it would be if one event,
\* one score or one situation had not come in, unless the situation took it from
\* another case, which may have more sources, or pushed that case off the
\* strongest; no dossier would hold more without one event, signal or narrative,
\* up to what it takes in; and no level of the threat board would be higher
\* without one alert or narrative, up to what the board reads.
Rises(rows, cases) ==
    \A r \in rows :
        LET before == Linked(r.id, rows, cases)
            linked == Linked(r.id, table, situations)
            old == RowToEvent(r)
            new == RowToEvent(CHOOSE x \in table : x.id = r.id)
        IN  before = None \/ (linked # None /\ before.sid = linked.sid) =>
              /\ FeedScore(old, before, Day) <= FeedScore(new, linked, Day)
              /\ PriorityEligible(old, before, Day) => PriorityEligible(new, linked, Day)
Unscored(row) == {IF r = row THEN [r EXCEPT !.risk = 0, !.signals = 0] ELSE r : r \in table}
HoldsMore(new, old) ==
    /\ \A part \in {"posts", "physical", "signals"} : old[part] \subseteq new[part]
    /\ old.news \subseteq new.news \/ Cardinality(new.news) = NewsShown
    /\ old.narratives \subseteq new.narratives \/ Cardinality(new.narratives) = NarrativesShown
    /\ old.amplification <= new.amplification
Fuller(rows, told, heard) ==
    \A r \in rows : HoldsMore(BuildEventView(r.id, table, narratives, assets, signals, Horizon, Day),
                             BuildEventView(r.id, rows, told, assets, heard, Horizon, Day))
Levels == <<"monitoring", "normal", "elevated", "high", "critical">>
Height(level) == CHOOSE n \in DOMAIN Levels : Levels[n] = level
Level(open, told) == Height(ThreatboardOf(open, told, Day, 30, Day).overall)
ScoresRise ==
    /\ \A s \in situations : Rises(table, situations \ {s})
    /\ \A r \in table : Rises(table \ {r}, situations) /\ Rises(Unscored(r), situations)
DossiersFill ==
    /\ \A r \in table : Fuller(table \ {r}, narratives, signals)
    /\ \A s \in signals : Fuller(table, narratives, signals \ {s})
    /\ \A n \in narratives : Fuller(table, narratives \ {n}, signals)
AlarmRises ==
    /\ \A a \in alerts : Level(alerts \ {a}, narratives) <= Level(alerts, narratives)
    /\ \A n \in narratives : Level(alerts, narratives \ {n}) <= Level(alerts, narratives)
ReadInFull ==
    Cardinality(table) <= CandidateLimit /\ Cardinality(narratives) <= NarrativeLimit /\ Cardinality(signals) <= SignalLimit
EvidenceNeverSinks ==
    subject = "reader" =>
        /\ ScoresRise
        /\ ReadInFull => DossiersFill
        /\ Cardinality(alerts) <= AlertsRead /\ Cardinality(narratives) <= NarrativesRead => AlarmRises

\* Ticks come to pulls, and the views catch up with the table.
RefreshesServed == /\ subject = "screen" => TickServed
                   /\ subject = "views" => ViewsCatchUp
=============================================================================
