------------------------------- MODULE Startup -------------------------------
(***************************************************************************)
(* The start of the two Python processes (lifespan in api/main.py, main in *)
(* worker.py) while PostgreSQL, Neo4j and Redis come and go: what each     *)
(* process has for the rest of its life depends on what answered when it   *)
(* looked.  Both create the tables and repair older ones (init_db in       *)
(* storage/database.py); the API goes on looking for Neo4j and seeds the   *)
(* cache of live streams that the worker's live job writes; the worker     *)
(* refreshes the file of satellites and runs the warmer of SourcesWarmer.  *)
(*                                                                         *)
(* A behaviour is about one subject, whose actions touch only state of     *)
(* their own: the start of the processes, the streams, the satellites, or  *)
(* the warmer once the worker runs.  All services are configured, and the  *)
(* API runs neither scheduler nor pipeline (docker-compose.yml); that the  *)
(* worker waits there for the API is not assumed.                          *)
(***************************************************************************)
EXTENDS SourcesWarmer, FiniteSets

CONSTANTS
    Columns,      \* columns and indices that init_db adds to older tables
    MaxAttempts,  \* attempts of _neo4j_reconnect_loop (10)
    MaxStarts,    \* bound: starts of each process
    MaxOutages,   \* bound: services lost and statements that time out
    MaxStored     \* bound: batches of live events

ASSUME StartupAssumption ==
    /\ IsFiniteSet(Columns) /\ Columns # {}
    /\ MaxAttempts \in Nat \ {0} /\ MaxStarts \in Nat \ {0}
    /\ MaxOutages \in Nat /\ MaxStored \in Nat

Services == {"postgres", "neo4j", "redis", "celestrak"}
Processes == {"api", "worker"}

VARIABLES
    subject,    \* processes, streams, satellites or warmer
    up,         \* the services that answer
    outages,    \* services lost and statements timed out so far
    starts,     \* starts[p]: of each process, so far
    tables,     \* are there tables
    lacking,    \* what older tables lack
    process,    \* process[p]: how far p is, and what it has
    stored,     \* live batches in the table
    streams,    \* Redis: precomputed:live_streams, which batch (0: no key, or no event)
    seed,       \* the API's seeding of it: where it is, and what it read
    live,       \* the live job of the worker: where it is, and its latest batch
    file,       \* the file of satellites, whether it is older than its time to
                \* live, and whether it was ever fetched
    refresher   \* where the worker's refresher of that file is

serving == <<up, outages>>
schema == <<tables, lacking>>
streaming == <<stored, streams, seed, live>>
tracking == <<file, refresher>>
startVars == <<subject, serving, starts, schema, process, streaming, tracking>>
allVars == <<vars, startVars>>

\* saw: whether there were tables when create_all looked; unread, todo, skipped:
\* columns not looked up, to be added, and not added; excuse: why it has no
\* database; attempts: how often the API will still look for Neo4j.
NoProcess == [at |-> "off", saw |-> FALSE, unread |-> {}, todo |-> {}, skipped |-> {},
              excuse |-> "none", db |-> FALSE, graph |-> FALSE, attempts |-> 0, bus |-> "none"]
NoSeed == [at |-> "none", read |-> 0]
NoJob == [at |-> "idle", batch |-> 0]

StartInit ==
    /\ subject \in {"processes", "streams", "satellites", "warmer"}
    /\ \/ up = Services
       \/ up = {} /\ subject \in {"processes", "satellites"}
    /\ outages = 0
    /\ starts = [p \in Processes |-> 0]
    /\ tables \in BOOLEAN
    /\ \/ lacking = {}
       \/ lacking = Columns /\ tables /\ subject = "processes"
    /\ process = [p \in Processes |-> NoProcess]
    /\ stored = 0 /\ streams = 0 /\ seed = NoSeed /\ live = NoJob
    /\ file = [content |-> "none", old |-> FALSE, fetched |-> FALSE]
    /\ refresher = "off"

Outage == outages < MaxOutages /\ outages' = outages + 1
At(p, s) == process[p].at = s
Becomes(p, record) == process' = [process EXCEPT ![p] = record]

-----------------------------------------------------------------------------
(* init_db, in either process *)

Launch(p) ==
    /\ At(p, "off") /\ starts[p] < MaxStarts
    /\ starts' = [starts EXCEPT ![p] = @ + 1]
    /\ Becomes(p, [NoProcess EXCEPT !.at = "connecting"])
    /\ refresher' = IF p = "worker" THEN "looking" ELSE refresher
    /\ UNCHANGED <<serving, schema, streaming, file>>

MemoryOnly(p, why) == Becomes(p, [process[p] EXCEPT !.at = "graph", !.excuse = why])

\* PostgreSQL does not answer: no database for the life of the process.
InitFails(p) ==
    /\ process[p].at \in {"connecting", "creating", "reading"}
    /\ "postgres" \notin up
    /\ MemoryOnly(p, "outage")
    /\ UNCHANGED <<outages, schema>>

\* create_all looks which tables there are ...
BeginInit(p) ==
    /\ At(p, "connecting") /\ "postgres" \in up
    /\ Becomes(p, [process[p] EXCEPT !.at = "creating", !.saw = tables])
    /\ UNCHANGED <<outages, schema>>

\* ... and creates the others in the same transaction.  Of two that create them
\* the second waits for the first, and fails when that commits.
CreateAll(p) ==
    /\ At(p, "creating") /\ "postgres" \in up
    /\ IF tables /\ ~process[p].saw
       THEN MemoryOnly(p, "race") /\ UNCHANGED tables
       ELSE Becomes(p, [process[p] EXCEPT !.at = "reading", !.unread = Columns]) /\ tables' = TRUE
    /\ UNCHANGED <<outages, lacking>>

\* The catalog is asked for one column after the other.
ReadCatalog(p) ==
    /\ At(p, "reading") /\ "postgres" \in up
    /\ \E c \in process[p].unread :
         Becomes(p, [process[p] EXCEPT !.unread = @ \ {c}, !.todo = @ \cup ({c} \cap lacking),
                                       !.at = IF process[p].unread = {c} THEN "repairing" ELSE @])
    /\ UNCHANGED <<outages, schema>>

\* Mutant of Remaining: the repairs are one batch.
RemainingIfGood(todo, c, ok) == IF ok THEN todo \ {c} ELSE {}

\* What is left to repair after c, whether that went well or not.
Remaining(todo, c, ok) == todo \ {c}

\* A statement fails if another process has added the column in the meantime,
\* if it times out or finds no PostgreSQL; the next is tried.
Repair(p) ==
    /\ At(p, "repairing")
    /\ \E c \in process[p].todo, ok \in BOOLEAN :
         /\ ok => c \in lacking /\ "postgres" \in up
         /\ IF ok \/ c \notin lacking \/ "postgres" \notin up THEN UNCHANGED outages ELSE Outage
         /\ Becomes(p, [process[p] EXCEPT !.todo = Remaining(@, c, ok),
               !.skipped = IF ok \/ c \notin lacking THEN @ ELSE @ \cup {c}])
         /\ lacking' = IF ok THEN lacking \ {c} ELSE lacking
    /\ UNCHANGED tables

HasDatabase(p) ==
    /\ At(p, "repairing") /\ process[p].todo = {}
    /\ Becomes(p, [process[p] EXCEPT !.at = "graph", !.db = TRUE])
    /\ UNCHANGED <<outages, schema>>

InitDb(p) ==
    /\ InitFails(p) \/ BeginInit(p) \/ CreateAll(p) \/ ReadCatalog(p) \/ Repair(p) \/ HasDatabase(p)
    /\ UNCHANGED <<up, starts, streaming, tracking>>

-----------------------------------------------------------------------------
(* Neo4j and Redis *)

\* Only the API will look again.
ConnectGraph(p) ==
    /\ At(p, "graph")
    /\ LET there == "neo4j" \in up
       IN  Becomes(p, [process[p] EXCEPT !.at = "bus", !.graph = there,
              !.attempts = IF p = "api" /\ ~there THEN MaxAttempts ELSE 0])
    /\ UNCHANGED streaming

\* Mutant of MoreAttempts: the last attempt is not made.
MoreAttemptsButLast(n) == n > 1

MoreAttempts(n) == n > 0

\* Each attempt after a longer pause, until one is successful or none is left.
Reconnect(p) ==
    /\ MoreAttempts(process[p].attempts)
    /\ LET there == "neo4j" \in up
       IN  Becomes(p, [process[p] EXCEPT !.graph = there, !.attempts = IF there THEN 0 ELSE @ - 1])
    /\ UNCHANGED streaming

\* Without Redis the API has no bus for life.  The worker keeps the object it
\* made before it connected, which works once Redis does; its subscribers are dead.
ConnectBus(p) ==
    /\ At(p, "bus")
    /\ LET there == "redis" \in up
       IN  /\ Becomes(p, [process[p] EXCEPT !.at = "ready",
                 !.bus = IF there THEN "subscribed" ELSE IF p = "worker" THEN "deaf" ELSE "none"])
           /\ seed' = IF p = "api" /\ there /\ process[p].db THEN [at |-> "looking", read |-> 0] ELSE seed
    /\ UNCHANGED <<stored, streams, live>>

Connect(p) ==
    /\ ConnectGraph(p) \/ Reconnect(p) \/ ConnectBus(p)
    /\ UNCHANGED <<serving, starts, schema, tracking>>

-----------------------------------------------------------------------------
(* The cache of live streams *)

Publishes(p) == process[p].bus # "none" /\ "redis" \in up

\* _warm_stream_cache_from_db: if nothing is cached it reads the events of the last
\* hours, if there are any, and writes them, not knowing what was written
\* meanwhile.  Any error ends it.
Look ==
    /\ seed.at = "looking"
    /\ seed' = [seed EXCEPT !.at = IF streams = 0 /\ "redis" \in up THEN "reading" ELSE "none"]
    /\ UNCHANGED <<outages, stored, streams, live>>
ReadTable ==
    /\ seed.at = "reading"
    /\ \/ seed' = NoSeed
       \/ stored # 0 /\ "postgres" \in up /\ seed' = [at |-> "writing", read |-> stored]
    /\ UNCHANGED <<outages, stored, streams, live>>
WriteSeed ==
    /\ seed.at = "writing"
    /\ seed' = NoSeed
    /\ streams' = IF "redis" \in up THEN seed.read ELSE streams
    /\ UNCHANGED <<outages, stored, live>>

\* live_ingest_job: its batch is stored; it may bring new events, the ones of
\* the last time, or none ...
StoreLive ==
    /\ live.at = "idle" /\ At("worker", "ready") /\ process["worker"].db /\ "postgres" \in up
    /\ \E batch \in {0, stored, stored + 1} :
         /\ batch <= MaxStored
         /\ live' = [at |-> "stored", batch |-> batch]
         /\ stored' = IF batch > stored THEN batch ELSE stored
    /\ UNCHANGED <<outages, streams, seed>>

\* ... and, announced first, shown in place of what was shown before, whatever the
\* table has.  If the lineage cannot be written or the announcement fails, the
\* streams stay as they are.
PublishLive ==
    /\ live.at = "stored"
    /\ live' = [live EXCEPT !.at = "idle"]
    /\ LET well == Publishes("worker") /\ "postgres" \in up
       IN  \/ well /\ streams' = live.batch /\ UNCHANGED outages
           \/ well /\ Outage /\ UNCHANGED streams
           \/ ~well /\ UNCHANGED <<streams, outages>>
    /\ UNCHANGED <<stored, seed>>

ExpireStreams ==
    /\ streams # 0 /\ streams' = 0
    /\ UNCHANGED <<outages, stored, seed, live>>

Stream(A) == subject = "streams" /\ A /\ UNCHANGED <<up, starts, schema, process, tracking>>
LiveJob == Stream(StoreLive \/ PublishLive)

-----------------------------------------------------------------------------
(* The file of satellites *)

\* Missing, or older than its time to live, whatever is in it.
Stale == file.content = "none" \/ file.old

LookAtFile ==
    /\ refresher = "looking" /\ Stale
    /\ refresher' = "fetching"
    /\ UNCHANGED file

\* The file is replaced in one step.
Fetch ==
    /\ refresher = "fetching" /\ "celestrak" \in up
    /\ file' = [content |-> "fetched", old |-> FALSE, fetched |-> TRUE]
    /\ refresher' = "looking"

\* If there is no file at all the bundled one, if there is that, is copied, not
\* in one step.
FetchFails ==
    /\ refresher = "fetching" /\ "celestrak" \notin up
    /\ \/ /\ file.content = "none"
          /\ refresher' = "copying"
          /\ file' = [file EXCEPT !.content = "part", !.old = FALSE]
       \/ refresher' = "looking" /\ UNCHANGED file
Copy ==
    /\ refresher = "copying"
    /\ refresher' = "looking"
    /\ file' = [file EXCEPT !.content = "seed"]

Age ==
    /\ file.content # "none" /\ ~file.old
    /\ file' = [file EXCEPT !.old = TRUE]
    /\ UNCHANGED refresher

Satellites ==
    /\ subject = "satellites"
    /\ LookAtFile \/ Fetch \/ FetchFails \/ Copy \/ Age
    /\ UNCHANGED <<serving, starts, schema, process, streaming>>

-----------------------------------------------------------------------------
Lose(s) ==
    /\ s \in up /\ Outage
    /\ up' = up \ {s}
    /\ process' = [p \in Processes |->
          IF s = "redis" /\ process[p].bus = "subscribed" THEN [process[p] EXCEPT !.bus = "deaf"] ELSE process[p]]
    /\ UNCHANGED <<starts, schema, streaming, tracking>>
Recover(s) ==
    /\ s \notin up
    /\ up' = up \cup {s}
    /\ UNCHANGED <<outages, starts, schema, process, streaming, tracking>>

\* The process ends, at any point.
Stop(p) ==
    /\ ~At(p, "off")
    /\ Becomes(p, NoProcess)
    /\ seed' = IF p = "api" THEN NoSeed ELSE seed
    /\ IF p = "worker" THEN live' = NoJob /\ refresher' = "off" ELSE UNCHANGED <<live, refresher>>
    /\ UNCHANGED <<serving, starts, schema, stored, streams, file>>

\* All starts are used up.
Over ==
    /\ \A p \in Processes : At(p, "off") /\ starts[p] = MaxStarts
    /\ UNCHANGED allVars

\* The services that come and go in a behaviour about the subject.
Needed == [processes |-> {"postgres", "neo4j"}, streams |-> {"postgres", "redis"},
           satellites |-> {"celestrak"}, warmer |-> {}][subject]
Starting(p) == subject \in {"processes", "streams"} /\ (InitDb(p) \/ Connect(p))
Start ==
    \/ subject # "warmer" /\ \E p \in Processes : Launch(p) \/ Stop(p)
    \/ \E s \in Needed : Lose(s) \/ Recover(s)
    \/ \E p \in Processes : Starting(p)
    \/ LiveJob \/ Stream(Look \/ ReadTable \/ WriteSeed \/ ExpireStreams)
    \/ Satellites

AllInit == Init /\ StartInit
AllNext ==
    \/ subject = "warmer" /\ Next /\ UNCHANGED startVars
    \/ Start /\ UNCHANGED <<subject, vars>>
    \/ Over

\* The event loop of the worker runs every task that can go on; a slow thread
\* cannot hold one, because of wait_for.  Processes that start go on, the scheduler
\* repeats its job, the refresher sleeps a minute at a time, and files grow old.
AllFair ==
    /\ \A t \in Tasks : WF_allVars(subject = "warmer" /\ Task(t) /\ UNCHANGED startVars)
    /\ \A p \in Processes : WF_allVars(Starting(p) /\ UNCHANGED <<subject, vars>>)
    /\ WF_allVars((LiveJob \/ Satellites) /\ UNCHANGED <<subject, vars>>)
AllSpec == AllInit /\ [][AllNext]_allVars /\ AllFair

-----------------------------------------------------------------------------
\* What a process lacks is accounted for.  One with a database has all tables
\* and columns but those whose statement failed in its own start, however the
\* two starts interleave; one without it met an outage, or lost the race to create
\* the tables.  And once satellites were fetched a reader never finds the bundled
\* file, or part of it, again.
StartAccounted ==
    /\ \A p \in Processes :
         /\ process[p].db => tables /\ lacking \subseteq process[p].skipped
         /\ process[p].at \in {"graph", "bus", "ready"} /\ ~process[p].db =>
              process[p].excuse # "none"
         /\ process[p].excuse = "race" => tables
    /\ file.fetched => file.content = "fetched"

\* What was not there is waited for: Neo4j, if it comes to stay while the API has an
\* attempt left; the satellites, if their source comes to stay, even where a copy
\* of the bundled file looks like a new one; and, if the live job does not bring
\* empty batches for ever, the streams come to show the newest batch of the
\* table, although an older read or an empty batch may overwrite them.
WaitsEnd ==
    /\ subject = "processes"
         => []([]("neo4j" \in up) /\ process["api"].attempts > 0
                 => <>(process["api"].graph \/ At("api", "off")))
    /\ <>[](~At("worker", "off") /\ "celestrak" \in up)
         => []<>(subject = "satellites" => file.content = "fetched" /\ ~file.old)
    /\ <>[](process["worker"].db /\ {"redis", "postgres"} \subseteq up) /\ []<>(live.batch # 0)
         => []<>(subject = "streams" => streams = stored)
=============================================================================
