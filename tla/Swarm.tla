-------------------------------- MODULE Swarm --------------------------------
(***************************************************************************)
(* The agent swarm: the table of missions (agents/swarm.py), the pipeline  *)
(* of one mission (agents/coordinator_agent.py) and the six agents all     *)
(* missions share (agents/*_agent*.py), with the language-model client     *)
(* their calls go through.                                                 *)
(*                                                                         *)
(* A mission is a task of the event loop: between two awaits it runs       *)
(* alone, so an action is one stretch from an await to the next.  The      *)
(* status an agent shows is one field that every mission writes.           *)
(*                                                                         *)
(* Analysis and brief are prompts; what is kept of a result is whether     *)
(* events were found and whether they were reported as stored.             *)
(***************************************************************************)
EXTENDS LLMProvider, FiniteSets

CONSTANTS
    Missions,     \* mission ids, in the order they are given: 1, 2, ...
    Clients,      \* requests to the provider that no mission makes
    MaxMissions,  \* max_missions of SwarmManager
    MaxRunning,   \* bound: missions under way at a time
    Removable,    \* bound: agents that may be unregistered
    MaxChanges    \* bound: requests of Clients, and agents unregistered

ASSUME MissionsAssumption ==
    /\ MaxMissions \in Nat \ {0}
    /\ IsFiniteSet(Missions) /\ Missions = 1..Cardinality(Missions)
    /\ MaxRunning \in Nat \ {0} /\ MaxChanges \in Nat
    /\ Callers = Missions \cup Clients /\ Missions \cap Clients = {}

Agents == {"coordinator", "ingestion", "analysis", "graph", "narrative", "anomaly"}
Detectors == {"narrative", "anomaly"}

VARIABLES
    table,       \* the missions in the table
    mission,     \* mission[m]: its record, and at which await its task is
    working,     \* the agents that show the status working, not idle or error
    registered,  \* the agents registered with the swarm
    stored,      \* missions whose events are in the database
    changes      \* requests and changes so far

swarm == <<table, mission, working, registered, stored>>
client == <<config, call>>
vars == <<swarm, client, changes>>

Stages == {"starting", "ingesting", "analyzing", "persisting", "detecting", "complete", "failed"}
Record == [status : {"new", "running", "completed", "failed"}, stage : Stages,
           awaits : {"nothing", "task", "ingestion", "analysis", "insights", "database",
                     "graph", "detectors", "brief", "failure", "success"},
           helpers : SUBSET Agents, reported : BOOLEAN]
NewRecord == [status |-> "new", stage |-> "starting", awaits |-> "nothing",
              helpers |-> {}, reported |-> FALSE]

TypeOK ==
    /\ config \in Config
    /\ call \in [Callers -> Calls]
    /\ \A c \in Callers :
          call[c] # NoCall => call[c].tried \in 1..Chain[call[c].at.provider]
    /\ table \subseteq Missions
    /\ mission \in [Missions -> Record]
    /\ working \subseteq Agents
    /\ registered \subseteq Agents
    /\ stored \subseteq Missions
    /\ changes \in 0..MaxChanges

Init ==
    /\ config = FromEnvironment
    /\ call = [c \in Callers |-> NoCall]
    /\ table = {}
    /\ mission = [m \in Missions |-> NewRecord]
    /\ working = {}
    /\ registered = Agents
    /\ stored = {}
    /\ changes = 0

-----------------------------------------------------------------------------
\* Mutant of Finished: every mission of the table counts.
FinishedOrNot == table

Finished == {m \in table : mission[m].status \in {"completed", "failed"}}

\* The oldest finished missions, as many as must go for one more to fit: they
\* are sorted by the time they were started, which is the order of their ids.
Evicted ==
    LET surplus == Cardinality(table) - MaxMissions + 1
    IN  {m \in Finished : Cardinality({n \in Finished : n < m}) < surplus}

\* start_mission.  Without a coordinator the record stays in the table, failed.
Start(m) ==
    /\ \A n \in Missions : mission[n].status = "new" <=> n >= m
    /\ Cardinality({n \in Missions : mission[n].status = "running"}) < MaxRunning
    /\ table' = (table \ Evicted) \cup {m}
    /\ mission' = [mission EXCEPT ![m] =
          IF "coordinator" \in registered
          THEN [@ EXCEPT !.status = "running", !.awaits = "task"]
          ELSE [@ EXCEPT !.status = "failed"]]
    /\ UNCHANGED <<working, registered, stored, client, changes>>

\* Mission m goes on to stage s, in which it awaits w.
Goes(m, s, w) == mission' = [mission EXCEPT ![m].stage = s, ![m].awaits = w]

\* run_mission begins.  If an agent it needs is not registered it fails.
Ingest(m) ==
    /\ mission[m].awaits = "task"
    /\ IF "ingestion" \in registered
       THEN working' = working \cup {"coordinator", "ingestion"} /\ Goes(m, "ingesting", "ingestion")
       ELSE working' = working \ {"coordinator"} /\ Goes(m, "failed", "failure")
    /\ UNCHANGED <<table, registered, stored, client, changes>>

\* The ingestion agent returns what it collected; its errors are an empty list.
\* A mission without events is done.
NothingCollected(m) ==
    /\ mission[m].awaits = "ingestion"
    /\ working' = working \ {"coordinator", "ingestion"}
    /\ Goes(m, "complete", "success")
    /\ UNCHANGED <<table, registered, stored, client, changes>>

Analyse(m) ==
    /\ mission[m].awaits = "ingestion"
    /\ IF "analysis" \in registered
       THEN /\ working' = (working \ {"ingestion"}) \cup {"analysis"}
            /\ Goes(m, "analyzing", "analysis")
       ELSE /\ working' = working \ {"ingestion", "coordinator"}
            /\ Goes(m, "failed", "failure")
    /\ UNCHANGED <<table, registered, stored, client, changes>>

\* Enrichment and entity recognition are done: insights are asked for.
AskInsights(m) ==
    /\ mission[m].awaits = "analysis"
    /\ Complete(m)
    /\ Goes(m, "analyzing", "insights")
    /\ UNCHANGED <<table, working, registered, stored, changes>>

\* The analysis agent returns, with or without insights, or with an error and
\* the events as they are.
Persist(m) ==
    /\ \/ mission[m].awaits = "insights" /\ call[m] = NoCall
       \/ mission[m].awaits = "analysis"
    /\ working' = working \ {"analysis"}
    /\ Goes(m, "persisting", "database")
    /\ UNCHANGED <<table, registered, stored, client, changes>>

\* Mutant of Reported: the count is taken before the statement is sent.
ReportedEarly(written) == TRUE

\* db_persisted is the number of events if the commit went through, else 0.
Reported(written) == written

\* The events are stored, or the failure is logged; then the graph agent works,
\* if there is one.
StoreEvents(m) ==
    /\ mission[m].awaits = "database"
    /\ \E written \in BOOLEAN :
          /\ stored' = IF written THEN stored \cup {m} ELSE stored
          /\ mission' = [mission EXCEPT ![m].awaits = "graph", ![m].reported = Reported(written),
                ![m].helpers = {"graph"} \cap registered]
    /\ working' = working \cup ({"graph"} \cap registered)
    /\ UNCHANGED <<table, registered, client, changes>>

\* The graph agent returns, and both detectors are started.
StartDetectors(m) ==
    /\ mission[m].awaits = "graph"
    /\ working' = (working \ mission[m].helpers) \cup (Detectors \cap registered)
    /\ mission' = [mission EXCEPT ![m].stage = "detecting", ![m].awaits = "detectors",
          ![m].helpers = Detectors \cap registered]
    /\ UNCHANGED <<table, registered, stored, client, changes>>

\* A detector returns, in any order; it catches its own errors.
Detected(m, a) ==
    /\ mission[m].awaits = "detectors"
    /\ a \in mission[m].helpers
    /\ mission' = [mission EXCEPT ![m].helpers = @ \ {a}]
    /\ working' = working \ {a}
    /\ UNCHANGED <<table, registered, stored, client, changes>>

\* Both are back: the stage is complete, the brief is still to be written.
AskBrief(m) ==
    /\ mission[m].awaits = "detectors"
    /\ mission[m].helpers = {}
    /\ Complete(m)
    /\ Goes(m, "complete", "brief")
    /\ UNCHANGED <<table, working, registered, stored, changes>>

Brief(m) ==
    /\ mission[m].awaits = "brief"
    /\ call[m] = NoCall
    /\ working' = working \ {"coordinator"}
    /\ Goes(m, "complete", "success")
    /\ UNCHANGED <<table, registered, stored, client, changes>>

\* Mutant of Outcome: only the results are set.
OutcomeOfSuccess(awaits) == IF awaits = "success" THEN "completed" ELSE "running"

Outcome(awaits) == IF awaits = "success" THEN "completed" ELSE "failed"

\* _run_mission records how it went.
Finish(m) ==
    /\ mission[m].awaits \in {"success", "failure"}
    /\ mission' = [mission EXCEPT ![m].status = Outcome(mission[m].awaits), ![m].awaits = "nothing"]
    /\ UNCHANGED <<table, working, registered, stored, client, changes>>

Answer(m) == (Answered(m) \/ NextModel(m) \/ AllFailed(m)) /\ UNCHANGED <<swarm, changes>>

MissionStep(m) ==
    \/ Ingest(m) \/ NothingCollected(m) \/ Analyse(m) \/ AskInsights(m) \/ Persist(m)
    \/ StoreEvents(m) \/ StartDetectors(m) \/ (\E a \in Detectors : Detected(m, a))
    \/ AskBrief(m) \/ Brief(m) \/ Finish(m)

-----------------------------------------------------------------------------
Changes == changes < MaxChanges /\ changes' = changes + 1

Unregister(a) ==
    /\ Changes
    /\ registered' = registered \ {a}
    /\ a \in registered
    /\ UNCHANGED <<table, mission, working, stored, client>>

\* Requests that reconfigure the provider; one that only completes a prompt is
\* like a call of a mission.
Request(c) ==
    /\ Changes
    /\ SetRuntime(c) \/ Ask(c) \/ Test(c) \/ TestRefused(c)
    /\ UNCHANGED swarm

Done ==
    /\ \A m \in Missions : mission[m].status \in {"completed", "failed"}
    /\ \A c \in Callers : call[c] = NoCall
    /\ UNCHANGED vars

Next ==
    \/ \E m \in Missions : Start(m) \/ MissionStep(m)
    \/ \E c \in Callers : Answer(c)
    \/ \E c \in Clients : Request(c)
    \/ \E a \in Removable : Unregister(a)
    \/ Done

\* What a mission awaits ends: threads and statements return, and a request to
\* a provider has a timeout of 30 s.
Fairness == \A m \in Missions : WF_vars(MissionStep(m)) /\ WF_vars(Answer(m))

Spec == Init /\ [][Next]_vars /\ Fairness

-----------------------------------------------------------------------------
\* A mission under way is never evicted, so that _run_mission finds its record;
\* of the finished ones the oldest go first, and the table outgrows its limit by
\* missions under way alone (start_mission).
RecordsKept ==
    [][LET gone == table \ table' IN
       table' # table =>
          /\ \A m \in gone :
                /\ mission[m].status \in {"completed", "failed"}
                /\ \A n \in table : n < m => n \in gone \/ mission[n].status = "running"
          /\ Cardinality(table') > MaxMissions =>
                \A m \in table \ gone : mission[m].status = "running"]_vars

\* What a mission shows agrees: completed at the last stage, failed at the stage
\* that says so or while it was starting, nothing reported that is not stored.
\* And once all have finished no agent shows that it works, though they overwrite
\* each other's status while several run.
OutcomesAgree ==
    /\ \A m \in Missions :
          /\ mission[m].status = "completed" => mission[m].stage = "complete"
          /\ mission[m].status = "failed" => mission[m].stage \in {"starting", "failed"}
          /\ mission[m].reported => m \in stored
    /\ (\A m \in Missions : mission[m].status # "running") =>
          working = {}

\* Every mission that is started finishes, whatever fails and whoever
\* reconfigures the provider (_run_mission).
MissionsEnd ==
    \A m \in Missions :
        mission[m].status = "running" ~> mission[m].status \in {"completed", "failed"}
=============================================================================
