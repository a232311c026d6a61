------------------------------- MODULE Scores -------------------------------
(***************************************************************************)
(* The scores of the system over one world of rows that are stored while   *)
(* the scoring jobs run: the risk of events, the unrest watch, the         *)
(* escalation of regions, bots and influence of actors, the credibility of *)
(* sources, the operations queue and the threat level.                     *)
(*                                                                         *)
(* What only reads the database is a function of what is stored.  Three    *)
(* jobs keep something: the pipeline worker stores the risk of events, the *)
(* escalation job goes from region to region in one session and publishes  *)
(* a board, the influence job writes to the graph.  A behaviour follows    *)
(* one of them.  Rows do not grow old: no window ends.  The queries return *)
(* what their limits let through; a row stands for several events, and a   *)
(* limit counts it as one.  That no more than 50 000 events and 200 000 of *)
(* the week before are scored for bots is left out.                        *)
(***************************************************************************)
EXTENDS UnrestWatch, EscalationScorer, ActorScores, Operations

CONSTANTS
    Jobs,        \* the jobs that behaviours follow
    Catalogue,   \* Catalogue[j]: the rows that may be stored
    Centrality,  \* of actors, where the graph's plugin computes it
    RiskBatch,   \* events the worker scores at a time
    MaxWrites,   \* bound: events written to the graph
    MaxFaults    \* bound: queries and writes that fail

\* What the columns hold.  An event row stands for one event at least.
EventShape(e) ==
    /\ e.n \in Nat \ {0} /\ e.mood \in {Unknown} \cup 0..100
    /\ e.at \in Nat /\ IsFiniteSet(e.actors)
    /\ {e.high, e.medium, e.disaster, e.infosec, e.protest, e.signals, e.cited} \subseteq Nat
    /\ {e.influence, e.confidence} \subseteq 0..One
SeverityNames == {"critical", "high", "medium", "low"}
NarrativeShape(n) ==
    /\ n.severity \in SeverityNames /\ {n.events, n.sources, n.protest} \subseteq Nat
    /\ {n.strength, n.confidence} \cup {n.spread[r] : r \in DOMAIN n.spread} \subseteq 0..One
AlertShape(a) == a.severity \in SeverityNames /\ {a.sources, a.events} \subseteq Nat /\ a.z \in Int

ASSUME CatalogueAssumption == \A j \in Jobs :
    /\ IsFiniteSet(Catalogue[j])
    /\ \A r \in Catalogue[j] : /\ r.kind = "event" => EventShape(r)
                               /\ r.kind = "narrative" => NarrativeShape(r)
                               /\ r.kind = "alert" => AlertShape(r)
\* A rank is divided by the highest.
ASSUME CentralityAssumption == \A a \in DOMAIN Centrality : Centrality[a] \in 0..One
Queries ==
    {"watch_events", "watch_narratives", "watch_alerts", "watch_actors", "situations", "queue",
     "queue_alerts", "queue_narratives", "region", "corroborated", "influence", "pairs"}
ASSUME ScoresAssumption ==
    /\ DOMAIN Catalogue = Jobs /\ Limit \in [Queries -> Nat \ {0}]
    /\ RiskBatch \in Nat \ {0} /\ {MaxWrites, MaxFaults} \subseteq Nat

VARIABLES
    job,     \* the job the behaviour follows
    seen,    \* the rows stored so far
    scored,  \* the events whose risk is stored
    pass,    \* the pass over the regions: which is next, what is known of it
    board,   \* the published escalation scores, and whether they are those of what is stored
    graph,   \* the writes of events, influence scores of actors and the edges between them
    faults   \* failures so far

vars == <<job, seen, scored, pass, board, graph, faults>>

\* What the queries of the scorers find in a set of rows.
Kind(k, rows) == {r \in rows : r.kind = k}
RecentOf(rows) == {e \in Kind("event", rows) : e.recent}
WeekOf(rows) == {e \in Kind("event", rows) : ~e.recent}
Recent == RecentOf(seen)

\* What the escalation scorer reads of events and narratives, if it can.
Reads(rows) ==
    {[recent |-> es, week |-> ws, narratives |-> Kind("narrative", rows), fault |-> "none"] :
        es \in Newest("region", RecentOf(rows)), ws \in Newest("region", WeekOf(rows))}

Idle == [at |-> 0, aborted |-> FALSE, undisturbed |-> TRUE, zeroed |-> {}, faults |-> 0, out |-> <<>>]

Init ==
    /\ job \in Jobs
    /\ seen = {} /\ scored = {}
    /\ pass = Idle /\ board = [scores |-> <<>>, current |-> FALSE]
    /\ graph = [writes |-> {}, score |-> <<>>, edges |-> {}]
    /\ faults = 0

\* Some row is stored: an event, a narrative, an alert, an actor.
Observe(r) ==
    /\ r \in Catalogue[job] \ seen
    /\ seen' = seen \cup {r}
    /\ pass' = [pass EXCEPT !.undisturbed = pass.at = 0]
    /\ board' = [board EXCEPT !.current = FALSE]
    /\ UNCHANGED <<job, scored, graph, faults>>

Unscored == Recent \ scored

\* A pass scores the last that were stored, which is left open.  Passes are
\* skipped, and the worker ends for good when its stream of messages does.
ScoreRisks ==
    /\ job = "risk" /\ Unscored # {}
    /\ \E es \in SUBSET Unscored :
          /\ Cardinality(es) = Min({RiskBatch, Cardinality(Unscored)})
          /\ scored' = scored \cup es
    /\ UNCHANGED <<job, seen, pass, board, graph, faults>>

-----------------------------------------------------------------------------
StartPass ==
    /\ job = "escalation" /\ pass.at = 0
    /\ pass' = [Idle EXCEPT !.at = 1]
    /\ UNCHANGED <<job, seen, scored, board, graph, faults>>

\* Mutant of After: the transaction is not rolled back.
AfterWithoutRollback(aborted, fault) == aborted \/ fault # "none"

\* Whether the session's transaction is aborted after a region.  Where the
\* events cannot be read it is rolled back; where the narratives cannot, the
\* signal counts 0 and the failure shows with the next region.
After(aborted, fault) == ~aborted /\ fault = "narratives"

\* The score of a region from what was read, if it could be.
Assessed(region, read) ==
    LET intensity == IF read.fault = "narratives" THEN 0 ELSE NarrativeIntensity(read.narratives)
    IN  IF read.fault = "events" THEN Zero
        ELSE ScoreRegion(region, read.recent, read.week, intensity)

\* What is kept of a region here is what it is scored from.
ScoreNext(fault) ==
    /\ pass.at \in 1..Len(AllRegions)
    /\ fault # "none" => faults < MaxFaults /\ ~pass.aborted
    /\ \E read \in Reads(seen) :
          LET fails == pass.aborted \/ fault = "events"
              failures == IF fault = "none" THEN 0 ELSE 1
          IN  /\ pass' = [at |-> pass.at + 1, aborted |-> After(pass.aborted, fault),
                          undisturbed |-> pass.undisturbed /\ fault = "none",
                          zeroed |-> IF fails THEN pass.zeroed \cup {AllRegions[pass.at]} ELSE pass.zeroed,
                          faults |-> pass.faults + failures,
                          out |-> Append(pass.out, [read EXCEPT !.fault = IF fails THEN "events" ELSE fault])]
              /\ faults' = faults + failures
    /\ UNCHANGED <<job, seen, scored, board, graph>>

\* The scores replace those of the pass before, unless Redis fails.
Publish ==
    /\ pass.at = Len(AllRegions) + 1
    /\ pass' = Idle
    /\ \/ board' = [scores |-> pass.out, current |-> pass.undisturbed] /\ UNCHANGED faults
       \/ faults < MaxFaults /\ faults' = faults + 1 /\ UNCHANGED board
    /\ UNCHANGED <<job, seen, scored, graph>>

-----------------------------------------------------------------------------
Over(new, old) == [a \in DOMAIN new \cup DOMAIN old |-> IF a \in DOMAIN new THEN new[a] ELSE old[a]]

\* An event that is stored is written to the graph, once for every run that
\* delivers it.
WriteEvent(e) ==
    /\ job = "influence" /\ e \in Kind("event", seen)
    /\ Cardinality(graph.writes) < MaxWrites
    /\ LET before == Cardinality({w \in graph.writes : w.event = e})
       IN  graph' = [graph EXCEPT !.writes = @ \cup {[event |-> e, number |-> before + 1]}]
    /\ UNCHANGED <<job, seen, scored, pass, board, faults>>

\* Scores of the actors the graph knows, then edges from them, then the scores
\* blended.  Who is no candidate keeps its score, and no edge is ever removed.
UpdateInfluence ==
    /\ job = "influence" /\ Candidates(Recent) # {}
    /\ \E top \in Cuts("influence", InfluenceScores(Recent)) :
          LET known == top \cap UNION {w.event.actors : w \in graph.writes}
              base == [a \in known |-> InfluenceScores(Recent)[a]]
          IN  \E final \in {base, BlendPagerank(base, Centrality)},
                 edges \in InfluenceEdges(Over(base, graph.score), graph.writes) :
                 graph' = [graph EXCEPT !.score = Over(final, graph.score), !.edges = @ \cup edges]
    /\ UNCHANGED <<job, seen, scored, pass, board, faults>>

Next ==
    \/ \E r \in Catalogue[job] : Observe(r) \/ WriteEvent(r)
    \/ ScoreRisks \/ StartPass \/ Publish \/ UpdateInfluence
    \/ \E fault \in {"none", "events", "narratives"} : ScoreNext(fault)

Spec == Init /\ [][Next]_vars

-----------------------------------------------------------------------------
\* What the unrest watch and the operations queue load, the situations of the
\* queue being those of the highest priority among the newest events.
Desk(rows, known) ==
    {[recent |-> {e \in es : e.recent}, previous |-> {e \in es : ~e.recent},
      narratives |-> ns, alerts |-> as, actors |-> ps, scored |-> known] :
        es \in Newest("watch_events", Kind("event", rows)),
        ns \in Newest("watch_narratives", Kind("narrative", rows)),
        as \in Newest("watch_alerts", Kind("alert", rows)),
        ps \in Cuts("watch_actors", [p \in Kind("actor", rows) |-> p.influence])}
Situations(rows) ==
    UNION {Cuts("queue", [e \in es |-> PriorityScore(e)]) : es \in Newest("situations", Kind("event", rows))}
Loads(rows) ==
    {[events |-> es, narratives |-> ns, alerts |-> as] :
        es \in Situations(rows),
        ns \in Newest("queue_narratives", Kind("narrative", rows)),
        as \in Newest("queue_alerts", Kind("alert", rows))}
Item(e, load) == QueueItem(e, load.alerts, load.narratives)
Queue(load) == {Item(e, load) : e \in load.events}
Published == {Assessed(AllRegions[i], board.scores[i]) : i \in DOMAIN board.scores}
Threat(rows) == ThreatLevel(Kind("alert", rows), Kind("narrative", rows))
Values(f) == {f[x] : x \in DOMAIN f}

\* Every score lies between 0 and 1, whatever is stored.
TypeOK ==
    /\ job \in Jobs /\ seen \subseteq Catalogue[job]
    /\ scored \subseteq Recent
    /\ pass.at \in 0..(Len(AllRegions) + 1) /\ pass.aborted \in BOOLEAN
    /\ Len(pass.out) = Max({0, pass.at - 1})
    /\ faults \in 0..MaxFaults
    /\ {b.score : b \in Published} \cup Values(graph.score)
         \cup Values(BotScores(Recent, WeekOf(seen))) \cup {ComputeRiskScore(e) : e \in scored}
         \cup (UNION {Values(SourceScores(es)) : es \in Oldest("corroborated", Recent)})
         \cup (UNION {{q.risk : q \in Queue(load)} : load \in Loads(seen)})
         \cup {Pressure(Watched(d)) : d \in Desk(seen, scored)} \subseteq 0..One

\* With one more row.
With(loaded, r) ==
    IF r.kind = "narrative" THEN [loaded EXCEPT !.narratives = @ \cup {r}]
    ELSE [loaded EXCEPT !.alerts = @ \cup {r}]

\* More evidence never calms the system, as long as it pushes nothing out of
\* what a query returns (beyond its limit one weak row replaces a strong one).
\* With one more narrative or alert, or with the risk of all events known,
\* neither the pressure nor the threat level nor an item of the queue nor the
\* escalation of a region is lower; with one more event no source has less
\* credibility.
EvidenceNeverCalms ==
    /\ \A r \in Kind("narrative", Catalogue[job]) \cup Kind("alert", Catalogue[job]) :
          LET more == seen \cup {r}
          IN  /\ \A d \in Desk(seen, scored) : With(d, r) \in Desk(more, scored) =>
                    Pressure(Watched(With(d, r))) >= Pressure(Watched(d))
              /\ \A load \in Loads(seen) : With(load, r) \in Loads(more) =>
                    \A e \in load.events : Item(e, With(load, r)).risk >= Item(e, load).risk
              /\ Threat(more) >= Threat(seen)
              /\ \A i \in DOMAIN AllRegions, read \in Reads(seen) : r.kind = "narrative" =>
                    Assessed(AllRegions[i], With(read, r)).score >= Assessed(AllRegions[i], read).score
    /\ \A d \in Desk(seen, scored) : Pressure(Watched([d EXCEPT !.scored = Recent])) >= Pressure(Watched(d))
    /\ \A e \in Kind("event", Catalogue[job]), es \in Oldest("corroborated", Recent) :
          es \cup {e} \in Oldest("corroborated", RecentOf(seen \cup {e})) =>
             \A s \in DOMAIN SourceScores(es) : SourceScores(es \cup {e})[s] >= SourceScores(es)[s]

\* An alarm rests on something an analyst can be shown: the level of the
\* overview on an item that advises as much, a posture on an item to escalate
\* or to brief, the level of a region on a driver, an edge of influence on
\* writes of events that name both.
AlarmsBacked ==
    /\ \A d \in Desk(seen, scored) :
          LET w == Watched(d)
              advised == {i.action : i \in w.regions \cup w.narratives \cup w.alerts}
              level == UnrestLevel(Pressure(w))
          IN  /\ level = "critical" => "escalate_to_operations" \in advised
              /\ level = "high" => advised \cap {"escalate_to_operations", "triage_now"} # {}
              /\ level = "elevated" => advised \cap {"escalate_to_operations", "triage_now", "investigate"} # {}
    /\ \A load \in Loads(seen) :
          /\ ThreatPosture(Queue(load)) = "critical" => \E q \in Queue(load) : q.next = "Escalate_to_analyst"
          /\ ThreatPosture(Queue(load)) = "elevated" => \E q \in Queue(load) : q.next # "Continue_monitoring"
    /\ \A b \in Published : b.level # "LOW" => b.drivers # {}
    /\ \A p \in graph.edges : Together(p, graph.writes) >= 3

\* A failed query costs at most one region of a pass its score, and a board
\* nothing went wrong with shows the escalation of what is stored.
FailureContained ==
    /\ Cardinality(pass.zeroed) <= pass.faults
    /\ board.current => \A i \in DOMAIN AllRegions : board.scores[i] \in Reads(seen)
=============================================================================
