----------------------------- MODULE LiveScreen -----------------------------
(***************************************************************************)
(* An analyst's screen and the dashboard's views follow the events table.  *)
(*                                                                         *)
(* Events get their ingest_time when they are extracted and reach the      *)
(* table later, by then out of order (scheduler, worker).  Each commit is  *)
(* announced: the pipeline worker recomputes the views, and the hub ticks  *)
(* the browser sessions (ViLiveSession.cs).  A session debounces the ticks *)
(* and pulls what was ingested after its cursor (GET /events/delta), one   *)
(* pull at a time; its first pull and those that a page asks for run       *)
(* beside.  What they bring goes to one list that all sessions of the      *)
(* server share and none locks (ViStateService.cs): this is one session,   *)
(* and the others are what they may do to the list.                        *)
(***************************************************************************)
EXTENDS IngestJobs, Views

CONSTANTS
    Arrivals,    \* the events that are extracted
    Scopes,      \* what pages ask for: [source, hours]
    FullLimit,   \* events of a full pull
    DeltaLimit,  \* events of a delta
    ListLimit,   \* events of the list
    MaxIncidents \* bound: hub connections, announcements, replies, views and workers lost,
                 \* and what pages, the recovery timer and other sessions begin

ASSUME LiveAssumption ==
    /\ FullLimit \in Nat \ {0} /\ DeltaLimit \in Nat \ {0} /\ ListLimit \in Nat \ {0}
    /\ MaxIncidents \in Nat
ASSUME ArrivalsAssumption == \A e \in Arrivals : IsEvent(e)

VARIABLES
    now,         \* the clock: ingest times
    inFlight,    \* extracted and not yet in the table
    list,        \* ViStateService.Events: the ids that are shown
    other,       \* the list as another session read it to merge into, or None
    cursor,      \* _eventCursor, or None
    scope,       \* _eventWindow and _eventSource
    timer,       \* the debounce: [pending, armed, draining, due]
    pulls,       \* the requests under way
    hub,         \* the connection to the hub
    lost,        \* ids that were passed by the cursor or displaced from the list
    messages,    \* announced batches the pipeline worker has not taken
    dead,        \* the pipeline worker has ended
    unheard,     \* the last commit was not announced
    stage,       \* the view the precomputer is at, 0 if it is idle
    views,       \* the views in Redis
    stale,       \* the views whose last computation failed
    incidents        \* how much of that there was

screenVars == <<list, other, cursor, scope, timer, pulls, hub, lost>>
viewVars == <<messages, dead, unheard, stage, views, stale>>
liveVars == <<now, inFlight, screenVars, viewVars, incidents>>

\* The drain's pull, the one a session starts with, and a page's.
Slots == {"drain", "warm", "page"}
Nothing == [phase |-> "idle", full |-> FALSE, scope |-> None, since |-> None, to |-> 0,
            rows |-> {}, missed |-> {}, base |-> {}]
ViewNames == <<"dashboard", "trends", "sentiment", "country_sentiment", "confidence">>
ViewOf(v, rows) ==
    CASE v = "dashboard" -> DashboardSummary(rows, {}, {}, now)
      [] v = "trends" -> TrendLines(rows, now)
      [] v = "sentiment" -> SentimentSummary(rows, now)
      [] v = "country_sentiment" -> CountrySentiment(rows, now)
      [] v = "confidence" -> ConfidenceDistribution(rows, <<>>, now)

\* A session whose first connection fails is without a hub for good.
LiveInit ==
    /\ now = 0 /\ inFlight = {}
    /\ list = {} /\ other = None
    /\ cursor = None /\ scope = [source |-> None, hours |-> Day]
    /\ timer = [pending |-> FALSE, armed |-> FALSE, draining |-> FALSE, due |-> FALSE]
    /\ pulls = [s \in Slots |-> [Nothing EXCEPT !.phase = IF s = "warm" THEN "new" ELSE "idle"]]
    /\ hub \in {"connected", "closed"}
    /\ lost = {}
    /\ messages = 0 /\ dead = FALSE /\ unheard = FALSE /\ stage = 0
    /\ views = [v \in Range(ViewNames) |-> ViewOf(v, {})]
    /\ stale = {}
    /\ incidents = 0

Incident == incidents < MaxIncidents /\ incidents' = incidents + 1
Ids(events) == {e.id : e \in events}
Coming == inFlight \cup table

\* The flag, and the debounce, which starts anew; due until a drain takes it up.
ScheduleRefresh == timer' = [timer EXCEPT !.pending = TRUE, !.armed = TRUE, !.due = TRUE]

\* An extractor stamps an event.
Stamp(e) ==
    /\ e.id \notin Ids(Coming)
    /\ now' = now + 1
    /\ inFlight' = inFlight \cup {[e EXCEPT !.ingest = now']}
    /\ UNCHANGED <<screenVars, viewVars, incidents>>

\* Its batch is committed and announced, if Redis takes the announcement.  A tick
\* that meets no connection is lost, and so is a message without a worker.
Commit(e) ==
    /\ e \in inFlight
    /\ inFlight' = inFlight \ {e}
    /\ table' = UpsertMany(table, {e})
    /\ \/ /\ messages' = messages + IF dead THEN 0 ELSE 1
          /\ unheard' = FALSE
          /\ IF hub = "connected" THEN ScheduleRefresh ELSE UNCHANGED timer
          /\ UNCHANGED incidents
       \/ Incident /\ unheard' = TRUE /\ UNCHANGED <<messages, timer>>
    /\ UNCHANGED <<now, list, other, cursor, scope, pulls, hub, lost, dead, stage, views, stale>>

-----------------------------------------------------------------------------
(* The list.  Of what is put in it the riskiest stay; of equals, any.       *)

Threat(id) == LET r == CHOOSE x \in table : x.id = id IN <<r.risk, r.influence, r.ts>>
OrderEvents(ids) ==
    {kept \in SUBSET ids :
        /\ Cardinality(kept) = Min({Cardinality(ids), ListLimit})
        /\ \A k \in kept, o \in ids \ kept : ~Before(Threat(o), Threat(k))}

SetEvents(ids, passes) ==
    \E kept \in OrderEvents(ids) : list' = kept /\ lost' = (lost \cup passes \cup list \cup ids) \ kept

\* Mutant of AppendEvents: the delta takes the place of the list.
AppendEventsAlone(delta, base) ==
    \E kept \in OrderEvents(delta) :
        list' = kept /\ lost' = (lost \cup delta \cup (list \ base)) \ kept

\* base is the list as it was read: what others put in it meanwhile is lost.
AppendEvents(delta, base) ==
    \E kept \in OrderEvents(delta \cup base) :
        list' = kept /\ lost' = (lost \cup delta \cup base \cup list) \ kept

\* Other sessions merge deltas and replace the list by full pulls of their own
\* windows and sources; an overview fills it if it is empty.
Others ==
    /\ \/ Incident
          /\ \/ other = None /\ other' = list /\ UNCHANGED <<list, lost>>
             \/ UNCHANGED other /\ \E ids \in SUBSET Ids(table) : SetEvents(ids, {})
       \/ other # None /\ other' = None /\ UNCHANGED incidents
          /\ \E delta \in SUBSET Ids(table) \ {{}} : AppendEvents(delta, other)
    /\ UNCHANGED <<cursor, scope, timer, pulls, hub>>

-----------------------------------------------------------------------------
(* The session's pulls.                                                    *)

\* GET /events for the window, or GET /events/delta.
Request(full, sc) ==
    [Nothing EXCEPT !.phase = "asked", !.full = full, !.scope = sc, !.to = now, !.since = IF full THEN None ELSE cursor]
FetchEventDelta == Request(cursor = None \/ scope.source # None, scope)

\* DrainRefreshAsync takes the flags, until there are none.
Drain ==
    /\ timer.draining /\ pulls["drain"].phase = "idle"
    /\ timer' = [timer EXCEPT !.pending = FALSE, !.draining = timer.pending, !.due = @ /\ ~timer.pending]
    /\ pulls' = IF timer.pending THEN [pulls EXCEPT !["drain"] = FetchEventDelta] ELSE pulls
    /\ UNCHANGED <<list, other, cursor, scope, hub, lost>>

\* WarmInitialStateAsync, once, and RefreshEventsAsync, which also sets the scope.
Warm ==
    /\ pulls["warm"].phase = "new"
    /\ pulls' = [pulls EXCEPT !["warm"] = FetchEventDelta]
    /\ UNCHANGED <<list, other, cursor, scope, timer, hub, lost>>
RefreshEvents ==
    /\ pulls["page"].phase = "idle" /\ Incident
    /\ \E sc \in Scopes : scope' = sc /\ pulls' = [pulls EXCEPT !["page"] = Request(TRUE, sc)]
    /\ UNCHANGED <<list, other, cursor, timer, hub, lost>>

\* The newest after the cursor, and the ingest time of the newest is the next one.
EventsDelta(since) ==
    LET rows == Page({r \in table : Later(r.ingest, since)}, LAMBDA r : <<r.ingest, r.id>>, DeltaLimit, 0)
    IN  [rows |-> Ids(rows), next |-> IF rows = {} THEN since ELSE Max({r.ingest : r \in rows})]
FullPull(sc, to) ==
    Ids(ListEvents(table, [NoFilter EXCEPT !.source = sc.source, !.from = to - sc.hours, !.to = to], "latest", FullLimit, 0))

\* The reply is made.  missed are the events that its cursor passes and it lacks.
Answer(s) ==
    /\ pulls[s].phase = "asked"
    /\ LET p == pulls[s]
           reply == IF p.full THEN [rows |-> FullPull(p.scope, p.to), next |-> p.to] ELSE EventsDelta(p.since)
           passes == {e \in Coming : e.ingest <= reply.next /\ (p.full \/ e.ingest > p.since)}
       IN  pulls' = [pulls EXCEPT ![s].phase = "answered", ![s].rows = reply.rows, ![s].to = reply.next,
                                  ![s].missed = Ids(passes) \ reply.rows]
    /\ UNCHANGED <<list, other, cursor, scope, timer, hub, lost>>

\* A full pull replaces the list, and then moves the cursor to the time it began
\* at.  One that brings nothing, or fails, shows what the live streams hold.
ReceiveAll(s, ok) ==
    LET p == pulls[s]
    IN  /\ p.phase = "answered" /\ p.full
        /\ \E ids \in IF ok /\ p.rows # {} THEN {p.rows} ELSE SUBSET Ids(table) :
             SetEvents(ids, IF ok THEN p.missed ELSE Ids({e \in Coming : e.ingest <= p.to}))
        /\ pulls' = [pulls EXCEPT ![s] = [Nothing EXCEPT !.phase = "moving", !.to = p.to]]
        /\ UNCHANGED cursor
MoveCursor(s) ==
    /\ pulls[s].phase = "moving"
    /\ cursor' = pulls[s].to
    /\ pulls' = [pulls EXCEPT ![s] = Nothing]
    /\ UNCHANGED <<list, other, scope, timer, hub, lost>>

\* A delta moves the cursor and reads the list to merge into; one that fails
\* changes nothing.
ReceiveDelta(s, ok) ==
    LET p == pulls[s]
        merging == [Nothing EXCEPT !.phase = "merging", !.rows = p.rows, !.base = list]
    IN  /\ p.phase = "answered" /\ ~p.full
        /\ cursor' = IF ok THEN p.to ELSE cursor
        /\ lost' = IF ok THEN (lost \cup (p.missed \ list)) \ p.rows ELSE lost
        /\ pulls' = [pulls EXCEPT ![s] = IF ok /\ p.rows # {} THEN merging ELSE Nothing]
        /\ UNCHANGED list

\* Mutant of Receive: the flags are reset when a pull is done.
ReceiveResetting(s) ==
    /\ \E ok \in BOOLEAN :
         /\ IF ok THEN UNCHANGED incidents ELSE Incident
         /\ ReceiveAll(s, ok) \/ ReceiveDelta(s, ok)
    /\ timer' = [timer EXCEPT !.pending = FALSE]
    /\ UNCHANGED <<other, scope, hub>>

Receive(s) ==
    /\ \E ok \in BOOLEAN :
         /\ IF ok THEN UNCHANGED incidents ELSE Incident
         /\ ReceiveAll(s, ok) \/ ReceiveDelta(s, ok)
    /\ UNCHANGED <<other, scope, timer, hub>>
Merge(s) ==
    /\ pulls[s].phase = "merging"
    /\ AppendEvents(pulls[s].rows, pulls[s].base)
    /\ pulls' = [pulls EXCEPT ![s] = Nothing]
    /\ UNCHANGED <<other, cursor, scope, timer, hub>>

-----------------------------------------------------------------------------
(* The session's timers and its hub.                                       *)

\* The debounce elapses; a drain that is running will see the flags itself.
Elapse ==
    /\ timer.armed
    /\ timer' = [timer EXCEPT !.armed = FALSE, !.draining = TRUE]
    /\ UNCHANGED <<list, other, cursor, scope, pulls, hub, lost>>
\* The recovery timer, if the hub is away or nobody updated the shared state for
\* two minutes, which is up to the other sessions.
Recovery ==
    /\ Incident
    /\ ScheduleRefresh
    /\ UNCHANGED <<list, other, cursor, scope, pulls, hub, lost>>

Disconnect ==
    /\ hub = "connected" /\ hub' = "reconnecting" /\ Incident
    /\ UNCHANGED <<list, other, cursor, scope, timer, pulls, lost>>
\* Three attempts, then no more.
Reconnect ==
    /\ hub = "reconnecting"
    /\ \/ hub' = "connected" /\ ScheduleRefresh
       \/ hub' = "closed" /\ UNCHANGED timer
    /\ UNCHANGED <<list, other, cursor, scope, pulls, lost>>

PullStep(s) == Answer(s) \/ MoveCursor(s) \/ Merge(s)
SessionStep == Drain \/ Warm \/ Elapse \/ Reconnect \/ \E s \in Slots : PullStep(s)
SessionIncident == RefreshEvents \/ Recovery \/ Disconnect \/ Others \/ \E s \in Slots : Receive(s)

-----------------------------------------------------------------------------
(* The pipeline worker and the precomputer: every batch ends in             *)
(* precompute_all, also the small live ones that skip the analyses.         *)

TakeMessage ==
    /\ messages > 0 /\ stage = 0
    /\ messages' = messages - 1 /\ stage' = 1
    /\ UNCHANGED <<dead, unheard, views, stale, incidents>>
\* An error of the subscription, between two messages, ends the worker for good.
Die ==
    /\ ~dead /\ stage = 0 /\ Incident
    /\ dead' = TRUE /\ messages' = 0
    /\ UNCHANGED <<unheard, stage, views, stale>>
\* A view that fails keeps its old value and the next one goes on.
Precompute ==
    /\ stage > 0
    /\ LET v == ViewNames[stage]
       IN  \/ /\ views' = [views EXCEPT ![v] = ViewOf(v, table)] /\ stale' = stale \ {v}
              /\ UNCHANGED incidents
           \/ Incident /\ stale' = stale \cup {v} /\ UNCHANGED views
    /\ stage' = (stage + 1) % (Len(ViewNames) + 1)
    /\ UNCHANGED <<messages, dead, unheard>>

-----------------------------------------------------------------------------
\* What the session has pulled and not yet put on the list.
Merging == UNION {pulls[s].rows : s \in {t \in Slots : pulls[t].phase = "merging"}}

\* An event in the table that the session will not pull any more, because its
\* cursor is past it, is on the list or about to be, unless one of two things
\* happened.  It was passed: when the reply was made that moved the cursor it was
\* in flight, outside of what was asked for or beyond the page, or a full pull
\* failed.  Or it was displaced from the list: by riskier events, by a full pull
\* of some session, or by a merge that had read the list before it came.
MissesExplained ==
    \A r \in table :
        cursor # None /\ r.ingest <= cursor /\ r.id \notin list \cup Merging => r.id \in lost

\* A tick that arrives while a drain is running, or at its end, is not lost: a
\* drain comes to ask for what is new, after the tick.
TickServed == [](timer.due => <>~timer.due)
\* Each view comes to count what is stored, unless it failed the last time, the
\* last commit was not announced or the worker is gone.
ViewsCatchUp == <>[](dead \/ unheard \/ \A v \in Range(ViewNames) : v \in stale \/ views[v] = ViewOf(v, table))
=============================================================================
