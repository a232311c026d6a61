---------------------------- MODULE Intelligence ----------------------------
(***************************************************************************)
(* The stores of alerts and narratives (storage/intelligence_repo.py), the *)
(* programs that fill them, the analysts that acknowledge alerts, and the  *)
(* summaries of both tables in Redis.                                      *)
(*                                                                         *)
(* The pipeline worker runs both detectors for every message of the ingest *)
(* jobs it hears; it hears none that was sent before it subscribed or      *)
(* after its loop died.  The scheduler has a job for each detector, which  *)
(* ends by counting the table into Redis.  A pass detects (Start, Take),   *)
(* upserts and commits (Commit); a job then counts (CountRows) and caches  *)
(* the counts (CacheCounts).                                               *)
(*                                                                         *)
(* The two tables have nothing in common: a behaviour follows one of them, *)
(* with its job and with the worker's work on it.  A table is a function   *)
(* from ids to rows; the id of an alert is made of its entity, type and    *)
(* hour, that of a narrative of its topic, type and hour.  The webhook,    *)
(* the graph nodes, the executive summary and the other stages of the      *)
(* worker are left out.                                                    *)
(***************************************************************************)
EXTENDS Integers, Sequences, FiniteSetsExt

CONSTANTS
    Worlds,      \* a sequence: what may happen, see Detectors
    MaxNow,      \* bound: half-hours
    MaxAcks,     \* bound: acknowledgements
    MaxFailures  \* bound: passes that fail

\* What happens is a finite number of events, and what did is counted.
ASSUME WorldsAssumption == \A w \in DOMAIN Worlds :
    /\ IsFiniteSet(DOMAIN Worlds[w].event)
    /\ \A k \in {"actor", "cell", "source"} : \A x \in DOMAIN Worlds[w].past[k] : Worlds[w].past[k][x] \in Nat
\* Six hours at most: every event of the behaviour is in the narrative window.
ASSUME MaxNowAssumption == MaxNow \in 0..12
ASSUME BoundsAssumption == MaxAcks \in Nat /\ MaxFailures \in Nat

VARIABLES
    world,      \* the table followed, the ingest, and what the detector finds
    now,        \* half-hours since the start
    rows,       \* the table: id -> [severity, count, place, acknowledged]
    summary,    \* Redis: precomputed:alerts_summary or narratives_summary
    doing,      \* doing[p]: what p is at
    inbox,      \* messages the worker has not taken yet
    listening,  \* the worker's loop: has it subscribed, is it over
    acks, failures

detectionVars == <<world, now, rows, summary, doing, inbox, listening, acks, failures>>
outside == <<world, now, acks, failures>>

Detector(number, time) == INSTANCE Detectors WITH world <- Worlds[number], now <- time
Severities == 1..4
Passes == {"job", "worker"}
NoRows == [s \in Severities |-> 0]
Nothing == [stage |-> "idle", found |-> {}, counts |-> NoRows]

\* Mutant of Merged: every alert makes a row.
MergedNot(found) == found

\* One row for an id.  The alerts come by falling z-score and a later one takes
\* the place of an earlier one if its count is larger: so the larger count wins,
\* of equal ones the larger z-score, that is the smaller past, and of those
\* equal in both one of them.  Only the clusters of an hour share an id, for
\* they have no entity.
Rivals(a, found) == {b \in found : b.entity = a.entity /\ b.kind = a.kind}
Best(rivals) == CHOOSE a \in rivals : \A b \in rivals :
    b.count < a.count \/ (b.count = a.count /\ b.past >= a.past)
Merged(found) == {a \in found : a = Best(Rivals(a, found))}

AlertRow(a, t) ==
    [id |-> <<a.entity, a.kind, t \div 2>>, severity |-> a.severity, count |-> a.count,
     place |-> a.place]
NarrativeRow(s, t) ==
    [id |-> <<s.topic, s.kind, t \div 2>>, severity |-> s.severity, count |-> s.count,
     place |-> "everywhere"]

\* The detectors look at nothing but the stored events and the clock, so what
\* they will find is part of the world, and so is whether the graph is there.
World(w, table, graphUsed) ==
    [number |-> w, table |-> table,
     batch |-> [t \in 0..MaxNow |->
        Cardinality({e \in DOMAIN Worlds[w].event : Worlds[w].event[e].stored = t})],
     found |-> [t \in 0..MaxNow |->
        IF table = "alerts" THEN {AlertRow(a, t) : a \in Merged(Detector(w, t)!Scan)}
        ELSE {NarrativeRow(s, t) : s \in Detector(w, t)!Detect(graphUsed)}]]

RowOf(found, id) == CHOOSE r \in found : r.id = id
Ids(found) == {r.id : r \in found}

TablesTypeOK ==
    /\ world.number \in DOMAIN Worlds
    /\ now \in 0..MaxNow
    /\ \A id \in DOMAIN rows :
          /\ rows[id].severity \in Severities
          /\ rows[id].count \in Nat
          /\ rows[id].acknowledged \in BOOLEAN
    /\ \A s \in Severities : summary[s] \in Nat
    /\ \A p \in Passes :
          /\ doing[p].stage \in {"idle", "between", "writing", "counting", "caching"}
          /\ Ids(doing[p].found) \subseteq UNION {Ids(world.found[t]) : t \in 0..now}
          /\ \A s \in Severities : doing[p].counts[s] \in Nat
    /\ inbox \in 0..MaxNow
    /\ listening \in {"no", "yes", "over"}
    /\ acks \in 0..MaxAcks /\ failures \in 0..MaxFailures

DetectionInit ==
    /\ \E w \in DOMAIN Worlds, t \in {"alerts", "narratives"}, g \in BOOLEAN :
          world = World(w, t, g)
    /\ now = 0
    /\ rows = <<>>
    /\ summary = NoRows
    /\ doing = [p \in Passes |-> Nothing]
    /\ inbox = 0
    /\ listening = "no"
    /\ acks = 0 /\ failures = 0

-----------------------------------------------------------------------------
\* Half an hour passes; events may be stored in it, and their ingest job says
\* so.  The worker ignores a batch of a live source with less than three.
Tick ==
    /\ now < MaxNow
    /\ now' = now + 1
    /\ LET batch == world.batch[now']
           ignored == IF batch = 0 \/ listening # "yes" THEN {TRUE}
                      ELSE IF batch < 3 THEN BOOLEAN ELSE {FALSE}
       IN  \E ignore \in ignored : inbox' = IF ignore THEN inbox ELSE inbox + 1
    /\ UNCHANGED <<world, rows, summary, doing, listening, acks, failures>>

\* Once, when the process starts
Subscribe ==
    /\ listening = "no"
    /\ listening' = "yes"
    /\ UNCHANGED <<outside, rows, summary, doing, inbox>>

Reading(p) == doing' = [doing EXCEPT ![p] =
    [Nothing EXCEPT !.stage = "writing", !.found = world.found[now]]]

\* The job starts when its interval is over, unless it still runs.
Start ==
    /\ doing["job"].stage = "idle"
    /\ Reading("job")
    /\ UNCHANGED <<outside, rows, summary, inbox, listening>>

\* The worker takes a message and begins with the narratives; when they are done
\* and other stages have run (between), come the alerts.
Take ==
    /\ listening = "yes"
    /\ inbox > 0
    /\ doing["worker"].stage = "idle"
    /\ inbox' = inbox - 1
    /\ IF world.table = "narratives" THEN Reading("worker")
       ELSE doing' = [doing EXCEPT !["worker"].stage = "between"]
    /\ UNCHANGED <<outside, rows, summary, listening>>

GoOn ==
    /\ doing["worker"].stage = "between"
    /\ Reading("worker")
    /\ UNCHANGED <<outside, rows, summary, inbox, listening>>

\* upsert_alerts: a row that is there already keeps its title, with the place in
\* it, and its acknowledgement.
UpsertAlerts(found) ==
    [id \in DOMAIN rows \cup Ids(found) |->
        LET row == RowOf(found, id)
        IN  IF id \notin Ids(found) THEN rows[id]
            ELSE IF id \in DOMAIN rows
                 THEN [rows[id] EXCEPT !.severity = row.severity, !.count = row.count]
            ELSE [severity |-> row.severity, count |-> row.count, place |-> row.place,
                  acknowledged |-> FALSE]]

\* upsert_signals: everything is replaced; the status is always active
UpsertSignals(found) ==
    [id \in DOMAIN rows \cup Ids(found) |->
        LET row == RowOf(found, id)
        IN  IF id \notin Ids(found) THEN rows[id]
            ELSE [severity |-> row.severity, count |-> row.count, place |-> row.place,
                  acknowledged |-> FALSE]]

\* Mutant of AfterCommit: the job counts only when its detector found something.
AfterCommitIfFound(p) ==
    IF p = "job" /\ doing[p].found # {} THEN "counting" ELSE "idle"

\* The job counts, whatever it found.
AfterCommit(p) == IF p = "job" THEN "counting" ELSE "idle"

Commit(p) ==
    /\ doing[p].stage = "writing"
    /\ rows' = IF world.table = "alerts" THEN UpsertAlerts(doing[p].found)
               ELSE UpsertSignals(doing[p].found)
    /\ doing' = [doing EXCEPT ![p] = [Nothing EXCEPT !.stage = AfterCommit(p)]]
    /\ UNCHANGED <<outside, summary, inbox, listening>>

\* The rows nobody has acknowledged, by severity
Counts ==
    [s \in Severities |->
        Quantify(DOMAIN rows, LAMBDA i : rows[i].severity = s /\ ~rows[i].acknowledged)]

CountRows ==
    /\ doing["job"].stage = "counting"
    /\ doing' = [doing EXCEPT !["job"].stage = "caching", !["job"].counts = Counts]
    /\ UNCHANGED <<outside, rows, summary, inbox, listening>>

CacheCounts ==
    /\ doing["job"].stage = "caching"
    /\ summary' = doing["job"].counts
    /\ doing' = [doing EXCEPT !["job"] = Nothing]
    /\ UNCHANGED <<outside, rows, inbox, listening>>

-----------------------------------------------------------------------------
\* acknowledge, escalate or dismiss; none of them touches the summary
Acknowledge(id) ==
    /\ world.table = "alerts"
    /\ ~rows[id].acknowledged
    /\ acks < MaxAcks
    /\ acks' = acks + 1
    /\ rows' = [rows EXCEPT ![id].acknowledged = TRUE]
    /\ UNCHANGED <<world, now, failures, summary, doing, inbox, listening>>

\* A pass fails: its transaction is undone.
Fail(p) ==
    /\ doing[p].stage # "idle"
    /\ failures < MaxFailures
    /\ failures' = failures + 1
    /\ doing' = [doing EXCEPT ![p] = Nothing]
    /\ UNCHANGED <<world, now, acks, rows, summary, inbox, listening>>

\* The subscription breaks: the loop ends, and nothing starts it again.
Die ==
    /\ listening = "yes"
    /\ failures < MaxFailures
    /\ failures' = failures + 1
    /\ listening' = "over"
    /\ inbox' = 0
    /\ doing' = [doing EXCEPT !["worker"] = Nothing]
    /\ UNCHANGED <<world, now, acks, rows, summary>>

JobStep == Start \/ Commit("job") \/ CountRows \/ CacheCounts

DetectionNext ==
    \/ Tick \/ Subscribe \/ Take \/ GoOn \/ Commit("worker") \/ Die
    \/ JobStep
    \/ \E p \in Passes : Fail(p)
    \/ \E id \in DOMAIN rows : Acknowledge(id)

DetectionSpec == DetectionInit /\ [][DetectionNext]_detectionVars /\ WF_detectionVars(JobStep)

-----------------------------------------------------------------------------
\* No batch names an id twice: PostgreSQL refuses a statement that would update
\* a row a second time, and the pass would lose everything it detected.
BatchAccepted ==
    \A p \in Passes : \A q, r \in doing[p].found : q.id = r.id => q = r

\* One event less in the hour never makes a spike or a cluster graver, nor the
\* silence of a source more harmless (thresholds of _detect_entity_spikes,
\* _detect_geographic_clusters and _detect_source_silence).
Monotone == [w \in DOMAIN Worlds |-> [t \in 0..MaxNow |-> Detector(w, t)!Monotone]]
DetectionGrows == Monotone[world.number][now]

\* When events and analysts have come to rest, the summary agrees with the table
\* for good, although only the job writes it and acknowledging does not.
SummaryCatchesUp == <>[](summary = Counts)
=============================================================================
