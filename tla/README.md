# Vision-I in TLA+

Vision-I ingests public sources (news, social media, aircraft, vessels, earthquakes, markets),
stores the events, correlates and scores them and serves the result to analysts. This directory holds
TLA+ models of the parts whose correctness depends on the order in which things happen or on
arithmetic at boundaries, the TLC configurations that check them and TLAPS proofs of what matters most
about them. Paths are relative to the root of the repository.

To run: `tlc -config Situations.cfg MCSituations`, `tlapm SwarmProofs.tla`.
`PROJECT.json` lists the components, the runs, for every property a mutation of the code model that
breaks it, for every definition the source lines it stands for, the hazards and the theorems.

## The system

A Python *worker process* (`python/worker.py`) runs the scheduler (live ingest, text ingest,
correlation, detection and scoring jobs), the event-driven intelligence pipeline and the
cache warmer. A Python *API process* (`python/api/main.py`) serves requests, runs ingest jobs on demand
and agent missions, and repeats the two scheduled ingest functions once when it starts. Redis carries
publish/subscribe messages, caches, job records and a dead-letter list. Postgres stores events,
signals, lineage, checkpoints, alerts, narratives and situations; Neo4j the graph. A *.NET gateway*
(`dotnet/VisionI.API`) authenticates, proxies and caches, triggers ingest on a timer and pushes Redis
messages to browsers over SignalR. A *Blazor client* (`dotnet/VisionI.Web`) shows the result. There are
no tests; what the code is meant to do is said by docstrings and comments.

### Inventory

| component | state | operations | shared with | what is hard | what makes it correct |
|---|---|---|---|---|---|
| Circuit breaker (`core/circuit_breaker.py`, `core/base.py`) | state, failure count, time of last failure | `can_execute`, `record_success`, `record_failure`; callers `run`, `health` | ingest threads and health checks of one extractor object | no lock: check-then-act on state and clock | the cooldown is served; it opens and recovers; with one caller, the contract of the file header |
| Scheduled ingest (`scheduler/jobs.py`, `storage/event_repo.py`, `storage/lineage.py`) | runs under way; tables signals, events, data_lineage, source_checkpoints | `live_ingest_job`, `text_ingest_job`, `_update_checkpoints`, `upsert_many` | Postgres, Redis; the start-up bootstrap of the API process | five transactions per run, each of which can fail; overlap; crashes; rows re-dated by an upsert; writers beside the jobs | durability order: what a job stored is traceable, a checkpoint backed, a batch announced only when complete |
| Ingest on demand and orchestrator (`api/routers/ingest.py`, `core/orchestrator.py`, `core/enricher.py`, `nlp/pipeline.py`) | job records in Redis, mirror in the process | `trigger_ingest`, `_run_job`, `job_status`, `run` | pollers; the feed that falls back to the mirror | Redis failures at every step, aliased mirror | a job ends; done means stored and readable |
| Correlation and composites (`intelligence/correlation_engine.py`, `composite_detector.py`, `storage/signal_repo.py`) | cluster_id of signals, clusters in memory, composite events | `correlate`, `update_cluster`, `detect` | pipeline worker and scheduled job | two passes over the same rows, failed UPDATEs, crashes | a signal is promoted once, and what qualifies stays clustered; clusters are components of the pair graph |
| Process start and warmer (`worker.py`, `api/main.py`, `storage/database.py`, `api/routers/sources.py`) | what each process found when it started; columns of older tables; file of satellites; loop variables, semaphore, tasks, cache keys | `lifespan`, `main`, `init_db`, reconnect loop, refresh, warm | API and worker through Postgres, Redis, files | two starts at once, outages, crashes between copy and fetch; closures over loop variables, timeouts that leave threads behind | what a process lacks is accounted for, what it waits for comes; a warm ends and warms what was asked |
| Pipeline worker, alerts and narratives (`intelligence/pipeline_worker.py`, `anomaly_detector.py`, `narrative_detector.py`, `storage/intelligence_repo.py`, `api/routers/alerts.py`) | subscription, both tables, cached summaries | both detectors, upserts, acknowledge | scheduler, pipeline, requests | lost messages, dying loop, thresholds, a cached summary nothing invalidates | batches Postgres accepts, detection follows the counts, the summary counts the table in the end |
| Situations (`intelligence/situation_detector.py`, `storage/situation_repo.py`, `api/routers/situations.py`) | situations, active or stale; graph nodes | detect and sync, upsert | API request, pipeline worker | passes over different windows; ids that follow the members | no event in two situations; active is what an undisturbed pass detected |
| Knowledge graph (`storage/graph.py`) | nodes, edges, counts, communities | writes of events, signals, narratives, situations; communities | jobs, API, missions, in two processes | up to five transactions per call; nodes created by others | counts cover edges; edges are complete; labels agree |
| Swarm and LLM client (`agents/`, `api/routers/admin.py`) | mission table, status of six agents, one client | `start_mission`, `_run_mission`, `call`, reconfigure, test | API requests in one event loop | eviction against running missions; client reconfigured under a call | a mission keeps its record and ends; a call goes with its own key |
| Scoring (`intelligence/risk_engine.py`, `unrest_engine.py`, `escalation_scorer.py`, `bot_score.py`, `influence_scorer.py`, `credibility.py`, `ontology/operations.py`) | risk of events, board, influence | a scorer per subject, three jobs | tables others write | cuts, means and thresholds; a failed query in a shared session | more evidence never calms; an alarm has grounds; a failure costs one region |
| Readers (`api/routers/events.py`, `workspace.py`, `threatboard.py`, `intelligence/event_intelligence.py`, `precompute.py`, `core/geo.py`) | none of their own; views in Redis | feed, window, map, snapshot, delta, dossier, workspace, board | tables under way | pages by offset, cursors by a time stamped early, balanced cuts | what is shown adds up and is complete; evidence does not sink |
| Client session (`VisionI.Web/Services/ViLiveSession.cs`, `ViStateService.cs`) | cursor, scope, flags, timers; one list of events for all sessions | pulls, drain, recovery, merge | delta endpoint, hub; the list with every other session, unlocked | lost ticks and replies, pulls beside each other, reads of the list before others write it, a list that is cut by risk | what a screen misses has a known reason; no tick is forgotten |
| Decisions, playbooks | decisions, risk weights of actors | record outcome, feedback | graph | detached tasks, repeated outcomes | an outcome counts once |
| Social enrichment | recent ids in Redis | `enrich_recent_events` | pipeline loop only | reads and writes of one loop | no event enriched twice within the cooldown |
| Dead letters (`core/event_bus.py`) | list in Redis | `send_to_dlq`, `retry_dlq_event` | nobody calls `send_to_dlq` | list indices that move | no failed event is lost or retried twice |
| .NET cache and ingest loop (`RedisCacheService`, `IntelligenceHostedService`, `RedisSubscriptionService`) | cached pages, polled job ids | `GetOrSetAsync`, `RemoveByPrefixesAsync`, trigger, wait, warm | Python API, Redis | stale fill against invalidation; deadline against slow jobs | after new data the cache serves it, at most one time to live later |
| .NET triage | triage records | find or create, save | analysts | two saves at once | no silent overwrite, one record per event |

## The modules

| module | models | proofs |
|---|---|---|
| `CircuitBreaker`, contract `BreakerContract` | one breaker and the threads that call `run()` and `health()` | `IngestProofs` |
| `IngestPipeline` | both scheduled ingest jobs, the bootstrap's copies of them, writers without lineage and the tables they write | `IngestProofs` |
| `Correlation` | the passes of pipeline worker and scheduled job over the signals table | `CorrelationProofs` |
| `UnionFind` | `_UnionFind`, the loop that feeds it and `clusters()` | `CorrelationProofs` |
| `SourcesWarmer`, within `Startup` | the warmer and its callers; the start of both processes, the seed of the streams, the satellites | `WorkerProofs` |
| `SituationDetector`, extended by `Situations` | the detector as a function of a window; table, passes and nodes | `SituationsProofs` |
| `Detectors`, instantiated by `Intelligence` | the two statistical detectors; both tables, the programs that fill them, summaries | `IntelligenceProofs` |
| `LLMProvider`, extended by `Swarm` | the shared client and its handlers; missions and agents | `SwarmProofs` |
| `KnowledgeGraph` | writers of the graph and passes over communities | `KnowledgeGraphProofs` |
| `Scoring`, `UnrestWatch`, `EscalationScorer`, `ActorScores`, `Operations`, extended by `Scores` | each scorer as a function of rows; the jobs that run them beside new rows and failing queries | `IntelligenceProofs` |
| `EventStore`, `Enrichment`, `IngestJobs` | where events are, their table, from sources to a batch, jobs on demand | `ServingProofs` |
| `Feed`, `EventDossier`, `Workspace`, `Views` | what the API makes of tables | `ServingProofs` |
| `LiveScreen`, extended with all of these by `Serving` | an analyst's screen and the views while the table is written; what is served meanwhile | `ServingProofs` |

The `MC*` modules give the constants values; `MCIngestPipeline` and `MCCorrelation` also put two parts
that have nothing to do with each other, a job and a breaker, a pass and a forest, into one run. Text,
embeddings, models and tables of names are constants (what they answer) or sets of words; scores are
integers, in the unit each header names.

**CircuitBreaker.** `state`, `failures`, `age` are `_state`, `_failure_count` and the time since
`_last_failure_time`. A thread can be preempted wherever CPython 3.11 checks for it, on entering a
Python function and after a call: one action per stretch between two such places. `ReadOpen` takes
the clock value, `GoHalfOpen` and `StayOpen` compare it later and write or re-read the state,
`AnswerAfterLog` reads it a third time; `CountFailure` and `StampFailure` are the two halves of
`record_failure`. `lag` is how old a clock value in hand is. Time is in ticks, `age` stops counting
where no comparison can change any more. *BreakerContract* is the three-state machine of the file
header, what one caller may rely on; the refinement maps its `streak` to the failure count less the
failures counted and not yet stamped.

**IngestPipeline.** A run is the sequence of `get_session` blocks of a job function, one action each:
`FetchLive`/`FetchText`, `WriteSignals`, `RecordRaw`, `Upsert`, `ReadCheckpoints` and `WriteCheckpoints` (the
SELECT and the writes of one transaction, between which another run can commit), `RecordEnriched`, `Publish`.
`UpsertRejected` is Postgres refusing a statement that names a row twice; `DatabaseFails` aborts a run at any
block, `Crash(p)` all runs of a process. `failure` keeps why the last run in a slot aborted. A batch gives
each of its events a time, and the upsert re-dates a row that is there: an aircraft is one id per callsign and
day, an article without a date is of now. `WriteDirectly` is any of the writers of the same table that keep no
lineage: jobs on demand, missions, documents, posts fetched for an event or a workspace. `upserted` and
`direct` say which batches were committed and by whom. What the validator rejects (`scheduler/jobs.py:179`,
`:336`) is never delivered.

**Correlation.** `Correlate` is SELECT and grouping in one step, since nothing is awaited between; each
`UPDATE` is a step that succeeds (`UpdateCluster`) or fails and is only logged (`UpdateFails`); then
`Announce` and `Detect`, or `PassFails`. `detected` holds the clusters that the detector found to qualify,
`composites` those whose event was stored; the time that goes into the row is a datetime
(`RepresentativeTime`) where `_parse_dt` takes text (`Parses`), so that nothing is `Written`. Pair scores are
a constant, groups the smallest closed sets of the pair relation: that union by rank computes those is the
business of `UnionFind`, and the theorem `ForestFindsGroups` joins the two. `missed` and `raced` record the
clusters whose UPDATE failed and the passes that read while another assigned.

**UnionFind.** `forest` (`parent`, `rank`) and `stage`, the place in the program; `Halve` is one round of the
loop of `find`, `Unite`, `FoundA`, `FoundB` a call of `union`, `StartClusters` and `FoundMember` `clusters()`.
Pairs come in any order.

**SourcesWarmer.** `cell` is the set of variables of `_loop` that the tasks read; `Take` is a turn of
the loop. `Construct` and `Call` are the two moments at which the thread reads them, `Store` the
moment the arguments of `cache_set` are evaluated, after the fetch or after `wait_for` gave up,
`Written` the answer of Redis. `Ask`, `ServeDirect` and `Expire` are the API process and the time to
live. `during[t]` records the messages read while task `t` was under way.

**Startup.** `InitDb(p)` is one stage of `init_db` (look for tables, create them, look for each column, add
it), `Connect(p)` the next service of `lifespan` or `main`; the API's attempts to reach Neo4j are counted, the
worker has none. `Look`, `ReadTable`, `WriteSeed` and `LiveJob` are the two writers of
`precomputed:live_streams`: the job writes the batch of its run, not what the table holds, and not if its
lineage or the announcement before it failed; `Satellites` is a turn of the refresher, whose copy may be cut
off. `subject` names what a behaviour is about; the warmer is one subject, so that its actions interleave with
nothing of the others, as in the code, where they share only the event loop.

**SituationDetector, Situations.** The detector is a function from a window to a set of sets of events:
pair weights, components, then the splits by anchor, family and meaning, the gates and the names. The
table is `active` and `stale`. A pass is `Read`, `Examine` (the SELECTs), `Commit`, `Draw` (graph
nodes) and, for errors, `Collide` (two inserts of one id) and `GiveUp`.

**Detectors, Intelligence.** `Detector(w, t)` is an instance for each world and time, whose `Found` is what
a pass would detect then. A pass is `Start` or `Take` (of a message), `GoOn` and `Commit`; a job then does
`CountRows` and `CacheCounts`. `Subscribe` and `Die` bound the time in which the worker hears messages.

**LLMProvider, Swarm.** A call is `Send`, then `Answer` for each request, with the headers read at each; a
request of the administrator applies a configuration or tests one, which installs it and puts back
what it read before. `Start(m)` is `start_mission` with its eviction; `MissionStep(m)` is one stretch of
`_run_mission` and the coordinator between awaits; `working` is the status six agents share.

**KnowledgeGraph.** A write is a list of transactions, `Transact` the next, `Fail` the end of the call, which
logs and goes on to the next call. `mentions`, `edge`, `about` are `mention_count` and the edges;
`Detect`, `Label`, `Snapshot` read the graph, write the labels and cache the count. `log` records what
the properties must know of the past: who was implicated before it had a node, which events were written
whole, whether a pass was overtaken.

**Scores.** `Observe` stores a row; `ScoreRisks` is the risk stage of the pipeline, `StartPass`, `ScoreNext`
and `Publish` the escalation job, one region to a step, with a query that fails and an aborted session
that costs the next region; `WriteEvent` is the graph's counter of joint mentions, which goes up once for
every run that delivers an event, and `UpdateInfluence` the influence job that reads it. All other scorers are
operators, compared over the rows of every state. `Limit` has the limit of each query: what a scorer loads is
any set of the newest (oldest, strongest) rows that fits it (`Cuts`). `Contains` says which strings occur
in which where the code matches by substring.

**Serving.** Five subjects. *jobs*: `Trigger`, `JobStep` and `Break` run a job on demand through gathering,
scraping, NLP, upsert and its records. A record that began as nothing because its first write was lost lacks
fields that `IngestStatus` requires, and polling it is a server error; `kept` says whether it holds the events
of the job, which is what memory serves. *screen*: events get their time (`Stamp`) before they are committed
(`Commit`). A session hears ticks, debounces (`Elapse`) and drains; its first pull (`Warm`) and those of a
page (`RefreshEvents`) run beside the drain. A pull is a request, the reply made of the table as it is then
(`Answer`), and its receipt: a full pull replaces the list and then moves the cursor (`ReceiveAll`,
`MoveCursor`), a delta moves the cursor, reads the list and writes the merger back (`ReceiveDelta`, `Merge`),
and the list keeps the riskiest up to its limit. The list belongs to all sessions: `Others` replace it and
merge into it as well. *views*: the pipeline worker takes a message, recomputes, or ends for good
(`TakeMessage`, `Precompute`, `Die`). *walker*: pages of `/events/window`, rows first and then the count,
which may fail and ends the walk; rows of equal times come in any order, anew for each page; a statement that
fails otherwise leaves the page to memory. *reader*: anything comes in (`Arrive`), and feed, map, dossier,
workspace, board and views are evaluated over the tables of every state.

## The runs

| run | question | bounds |
|---|---|---|
| `breaker_shared` | Is the cooldown served, does the breaker reopen and recover, when two ingest threads and a health probe share it? | `Threshold` 2, `Cooldown` 2 ticks, `MaxLag` 1 |
| `ingest_durability` | Is everything a later table or message says backed by an earlier table, though rows are re-dated? And does a breaker with one caller implement its contract? | text run, scheduled and bootstrap live run in two processes and a writer without lineage, `MaxBatches` 2, three events of two times; `Threshold` 3, `Cooldown` 3 |
| `ingest_lineage` (violated) | Can every stored event be traced to its source batch, as `storage/lineage.py:6-7` says? | the same |
| `correlation_safety` | When can a signal be promoted twice, does what qualifies stay clustered, and does `clusters()` return the connected components, and end? | five signals of three sources, two engines, `MaxPasses` 2, faults and crashes; `N` 4: every graph, every order of its pairs |
| `composites_promoted` (violated) | Is a cluster that qualifies promoted, as `composite_detector.py:6-7` says? | the same |
| `warmer` | What may a process lack after its start, does what it waits for come, does the warmer store the right thing under the right key, and end? | two processes, `MaxStarts` 2 each, `MaxOutages` 1, `MaxAttempts` 2, two columns; two requests, `MaxMessages` 3, `Slots` 2 |
| `situations` | Is a window split into disjoint situations, and is active what an undisturbed pass detected? | five worlds of five events, two requests beside the pipeline, `MaxPasses` 3, thresholds scaled to five events |
| `intelligence` | Can a batch be refused, does detection follow the counts, does the summary catch up? | three worlds of six or seven events, `MaxNow` 3, `MaxAcks` 1, `MaxFailures` 1 |
| `graph` | Do counts cover edges, are written events whole, do labels agree? | three events, four actors, two writers, two pipelines, `MaxWrites` 2, `MaxPasses` 2 |
| `swarm` | Do missions end, keep their record and report what is stored, and do calls go with their own key? | three missions, `MaxMissions` 1, `MaxRunning` 2, one client, `MaxChanges` 2, three removable agents |
| `scores` | Does evidence calm, has an alarm grounds, what does a failed query cost? | some rows near each threshold per job, limits of 1 to 3 rows a query, `RiskBatch` 1, `MaxWrites` 4, `MaxFaults` 1 |
| `serving` | Is done done, has what a screen misses a reason, is a tick served, do the views catch up, is a walk complete, does what is shown add up and never sink? | two jobs, `MaxFaults` 2; two arrivals, `FullLimit`, `DeltaLimit`, `ListLimit` 1, `MaxIncidents` 1; pages of 1; `MaxEvidence` 5 of 13 items |

*Why the bounds are enough to be interesting.* Two threads are the least that race, and the third of
`breaker_shared` is the health probe, which evaluates the state without recording an outcome. A threshold of 2
makes counting, reaching and passing the threshold different. In `IngestPipeline` two times of one event let
rows be re-dated and checkpoints move both ways; two queries are needed for a repeated id. The five signals of
`Correlation` form a chain whose ends are no pair themselves and a pair apart from it, so that one pass can
find two clusters and late arrivals split what would be one. Four nodes are the fewest for which path halving
and a tie of ranks above 0 both happen. The third message of the warmer makes a task wait for a slot; a second
start finds what the first left behind. The worlds of `Situations` make each split act on the result of the
one before, and with three passes one can commit between the SELECT and the commit of another. The worlds of
`Intelligence` lie one event short of, at and past thresholds, against histories with and without variance. A
table for one mission with two under way must outgrow its limit, and the third start then has to evict. In
`KnowledgeGraph` the third event joins two pairs of actors, so a pass computes two communities and writes them
to a graph with one. Limits of 1 make a page, a delta and a list too small for what waits, and those of
`scores` let a weak row displace a strong one. One incident is another session that writes the list, a full
pull of a page, a lost tick, a failed request or the end of the worker, each beside two events under way. The
evidence of a reader has a report, the same report later, a reaction, a flight, a post, two cases, two alerts,
and one of everything else; five of them suffice for two events, their score and a case with a stronger rival.

*Bounds that stop counters* are those named in the table; where one makes the system stop, `Exhausted`,
`Returned`, `Done` or `Over` stutters, so that deadlock is checked. `graph`, `scores` and `serving` do not
check it: their writers are used up, readers act only when asked, and the state in which nothing is left
to do is legitimate.

*Symmetry*: only the two requests of `situations`, whose run checks no liveness.

*Fairness.* Breaker: threads that have begun go on and call again, as the scheduler does, fetches end (each
extractor has a network timeout) and the clock runs; nothing is assumed of the source, and
`Recovers` speaks only of behaviours where it stays up. Union-find: it is a sequential program.
Warmer: the event loop runs every task that can go on, and a task cannot be held by its thread
because `wait_for` has a timeout of 12 s; threads, clients, messages and the loop get no fairness. Starts:
a process that has begun to start goes on, the scheduler repeats its job, the refresher wakes up; services
need not recover, and `WaitsEnd` speaks only of behaviours where the one waited for comes to stay.
Missions: threads and statements return and requests to a provider time out after 30 s. Intelligence: only
the scheduled job is fair, the worker may be dead. Scores: nothing is assumed, since passes are
skipped and the pipeline worker may end.
Serving: a task of the event loop leaves every step it comes to, written as `[]<>(phase[j] # p)` because
`ENABLED` of that step would evaluate the whole pipeline; the debounce elapses, which takes 600 ms without a
tick, and requests are answered or fail at their time-out; the pipeline worker goes on while it lives. Nobody
has to ask, to extract or to read, and nothing is assumed of the recovery timer.

## Where code and comments disagree, and other observations

Met while modelling; the models follow the code, and the properties are stated so that they hold of it,
with these cases as their exceptions. Two are findings of `PROJECT.json`, each with a run that shows it.

*Findings.* `ingest_lineage`: lineage is kept "so that every event can be traced back to its source batch"
(`storage/lineage.py:6-7`), but jobs on demand (`api/routers/ingest.py:167`), missions
(`agents/coordinator_agent.py:200`), documents, and posts fetched for events and workspaces upsert into the
same table and keep none. `composites_promoted`: qualifying clusters are promoted "into high-confidence
composite events" (`composite_detector.py:6-7`), but the timestamp of the representative signal is the
datetime that `find_unclustered` read; `_parse_dt` (`storage/event_repo.py:73-79`) calls `replace("Z", ...)`
on it, a TypeError that it does not catch and the callers only log. No composite event is ever stored.

1. `record_success` sets CLOSED whatever the state is, so a call admitted before the breaker tripped
   closes it during its cooldown (`core/circuit_breaker.py:77` against lines 9-11). The contract is
   therefore shown for one caller. Several threads may also hold a HALF_OPEN ticket at once, although the
   header speaks of one test request; `Recovers` shows that the breaker survives it.
2. `_update_checkpoints` overwrites a high-water mark with the newest event of the batch, also
   when that is older (`scheduler/jobs.py:107` against `storage/database.py:160`). And since rows are re-dated
   by later upserts, the row of a checkpoint may have another time: `CheckpointBacked` says when.
3. `text_ingest_job` concatenates the results of its queries; an id found twice makes Postgres refuse
   the whole upsert (`scheduler/jobs.py:331` against `storage/event_repo.py:163`).
4. Two overlapping passes re-cluster signals (`storage/signal_repo.py:199` against
   `intelligence/correlation_engine.py:121`), and clusters between UPDATE and detection live in memory only
   (`intelligence/pipeline_worker.py:175` against `composite_detector.py:5`). `OverlapExplained` names a
   failed UPDATE and a pass that read while another was assigning as the only reasons.
5. The warmer's tasks read variables the loop overwrites (`worker.py:240` against
   `api/routers/sources.py:237`); `RightWhenUndisturbed` says when that does no harm.

Start-up: of two processes that create the tables at once, one fails and stays without a database for
life. The worker connects to Neo4j once, while the API tries again, and a worker whose Redis did not
answer says it continues "without event bus" (`worker.py:302`) but has dead subscriptions for life.
Column repairs are best effort, one at a time. The copy of the bundled satellite file gets a new
modification time and keeps a fetch from being tried for a time to live, whole or torn. The API's seed of the
live streams may overwrite a newer list of the worker (`api/main.py:109`). The heartbeat says ok
whatever the loops do. After a session of Neo4j has failed, the graph still counts as available.

Reading: a feed in any order but priority applies its offset twice, in the query and to what it returned
(`api/routers/events.py:943`). Times of rows end in `+00:00Z`, which `_parse_iso` cannot read, so an event has
the age of a day (`storage/event_repo.py:131`). A sentiment of 0.0 counts as unknown, and a latitude of 0.0
drops the location. Without a database, `/events/map` calls `_filter` with an argument too few
(`events.py:1018`). `JSONResponse` is used at line 1363 without being imported. A total without a filter is an
estimate. The workspace never applies its filter of families (`api/routers/workspace.py:394`). The key from
which the threat board's summary is read is written by nobody (`threatboard.py:302`), and the credibility
endpoint reads another key than the job writes (`intelligence.py:200`, `jobs.py:778`). The parameters of `POST
/alerts/scan` are not read. Escalation looks for names of countries within place names, and finds "UK" in
"Ukraine" (`escalation_scorer.py:104`).

Scores: an event that the pipeline does not reach among the newest 200 of six hours is never scored
(`pipeline_worker.py:227-232`), a live batch of fewer than three events starts no pass (`:68-72`), and an
error of the subscription ends the loop for good (`:107`). Beyond the limit of a query one weak row displaces
a strong one and calms the score (`unrest_engine.py:169`, `:203`, `:214`; `operations.py:231`, `:239`):
`EvidenceNeverCalms` speaks of rows that push none out. An edge of influence may rest on one event that three
runs delivered.

Jobs: if the first write of a record to Redis was lost, the record lacks the fields of `IngestStatus` and
every poll of the job is a server error (`api/routers/ingest.py:134`, `:267`); `JobsEnd` excepts these jobs.

Client: all sessions of the server share one list of events and none locks it, while each has a cursor of its
own (`ViStateService.cs:7-9`). What one session merges can be overwritten by a merger that read the list
before, a full pull of one session's window or source replaces what all see, and the list keeps the 2000
riskiest. A reply under way may set the cursor back behind a full pull's. The recovery timer does nothing
while connected and anything at all was updated within two minutes, and every message re-arms the debounce; a
full pull that failed looks like an empty one. `MissesExplained` says which events a screen may miss.

## What is proved

All theorems hold for every value of the constants under the `ASSUME`s of their modules, which TLC evaluates
in the runs. Each module follows one line: an inductive invariant (with the lemmas on sets it needs), one
lemma per action, the theorem by PTL.

- *IngestProofs*, on the circuit breaker: `BreakerTypeCorrect`; `CooldownAlwaysServed`;
  `SerialBreakerImplementsContract`, the refinement step by step. `CooldownServed` is inductive together with
  `BreakerTypeOK`: only `GoHalfOpen` enters HALF_OPEN, after its thread has seen the cooldown pass, and only
  `StampFailure` makes the stamp younger and it never leaves HALF_OPEN behind. The refinement rests on
  `SerialInv`: which breaker states are possible while the caller stands at each point of `run()`, and that a
  closed breaker has counted fewer than `Threshold` failures. It assumes a single runner and no prober; with
  two runners a late success breaks it. On the scheduled jobs: `EveryEventTraceable` (each row is as a
  committed batch left it, which has its raw_ingest row or is of a writer that keeps none),
  `EveryCheckpointBacked` (the time of a checkpoint is one with which a job stored an event of the source,
  whose row has it still or was stored by another batch too) and `EveryAnnouncementDurable`. The invariant
  says what the position of a run in its sequence of blocks implies about the tables (`Progress`), that what a
  committed batch has is stored (`Kept`) and which event gave a checkpoint its time (`Named`). Events, their
  times and the writers without lineage are arbitrary.
- *CorrelationProofs*: `EveryOverlapExplained`, `DetectedSignalsClustered`, `GroupsDisjoint`. The invariant
  extends the explanation from the clusters that qualify to every cluster that exists in any pass: clusters
  that are assigned, unless missed, hold their signals' rows away from every later pass. For the forest:
  `ClustersCorrect`, `RanksOrdered`, since every tree lies inside one component, every component of the pairs
  joined so far has one root, and the collected groups are the members below `next`; and `ForestFindsGroups`,
  that what `clusters()` collects over the linked pairs of a pass are the groups `Correlate` makes of them. A
  component is the smallest closed set around a node, which needs no induction over paths.
- *WorkerProofs*: `TypeCorrect` (free and held slots add up, by counting), `UndisturbedWarmIsRight`,
  `LabelsMatch`: an unfinished task has seen the message `cell` comes from; if it has seen only its own,
  everything it carries is its own. `WarmerWithinStart` carries both over to the composition, whose other
  subjects leave the warmer alone. `StartIsAccounted` rests on `SInv`: what a process has looked up and not
  yet repaired or skipped covers what is lacking (`Honest`), tables once there stay, and the file is fetched
  from the first fetch on, since a copy is made only over no file.
- *SwarmProofs*: `OutcomesAlwaysAgree`, `RecordsAlwaysKept`, `CallsStayCalm` and `CallsStayInChain`. For the
  first, every agent that shows work is `Busy` for a mission that awaits something, so none is once all have
  finished, and `Coherent` ties status, stage and what a mission awaits. For the second, the first finished
  mission that is kept has only evicted ones before it, so if one is kept enough are gone. For the third,
  `CInv` says of an undisturbed call that the client still has the configuration the call started with, and
  `CallStep` that any step of another disturbs it or leaves it. The fourth (`TypeOK`): whoever reconfigures
  the client between two requests of a call, the call addresses a provider and asks at most as many models as
  the list of that provider has.
- *SituationsProofs*: `DetectSplits` (the detector splits a window into disjoint situations, whatever the
  weights: a component is the smallest closed set of the pair relation, a split keeps the parts of a group
  apart because its keys have distinct ranks), `SituationsDisjoint`, `CalmPassesHold` and `NodesBacked`, whose
  invariant says what a pass at each stage knows of the table it read. It assumes that the events of a window
  are `1..n` and that actors are integers in alphabetical order.
- *KnowledgeGraphProofs*: `CountsCover`, `EventsComplete`, `LabelsAgree`. A count is the number of mentions
  plus those still `Pending` in a plan, a set of pairs whose size one transaction changes by one; a plan's
  later transactions are `Ready` when their nodes are there; paths between actors only grow, so labels of an
  undisturbed pass still tell the components apart. Events, actors and writers are finite sets.
- *IntelligenceProofs*, on the scorers: `FailuresContained`, `EvidenceNeverCalmed`, `AlarmsAreBacked`. For the
  first, `PassInv` says what a pass under way has done: an aborted transaction and every region without a
  score have cost a failure each, and a pass nobody disturbed has scored the regions so far from what is
  stored; `BoardInv` carries it over to what is published. The second is a theorem on the scorers themselves,
  for any set of rows, any limits of the queries and one row more that pushes none out of them. It needs laws
  of sums over finite sets. They are proved without an operator as parameter: a collection that holds {} and
  every part of a finite set all of whose parts with one element less it holds has all its parts
  (`PartsInduction`, by a smallest part that it lacks), so the recursive function that `FoldSet` chooses
  exists and is unique (`RecursionSolved`, `SolutionsAgree`), and the order in which elements are added does
  not matter (`AnyOrder`). Then each share, mean, cap and maximum is shown to follow its argument, up to the
  priorities. For the third, a level above the lowest has a driver because a sum of weights without a driver
  stays below its threshold, and an edge of influence is drawn over three counted writes, which are never
  taken back. `ScoresInRange` says that each score of an event, region, actor, source, queue item and of the
  pressure lies between 0 and 1, whatever is stored: each is a share of a greatest count, a capped sum or a
  sum of weights that add up to one, whatever rows the limits let through, and `GraphInv` says it of the
  scores the graph keeps. Assumed are the shapes of the rows, with times and finitely many actors
  (`CatalogueAssumption`), the table of tiers (`TiersAssumption`), that regions have names
  (`RegionsAssumption`) and that a rank is divided by the highest (`CentralityAssumption`).
- *IntelligenceProofs*, on detection: `EveryBatchAccepted`, since `Merged` and `Strongest` keep one of the
  rivals for an id; `DetectionAlwaysGrows`, since the thresholds compare polynomials of the counts that grow
  with them. `WorldsAssumption`: a world has finitely many events, and its history consists of counts.
- *ServingProofs*: `EveryMissExplained`, for any number of events, any limits and scopes and any mergers and
  replacements by other sessions: everything the cursor is past, or will be past once a reply under way is
  taken, is on the list, in a merger under way, in that reply, or among the ids that the property names. A
  merger may write back an old reading of the list, so `lost` has whatever that leaves out; a session has
  three pulls that finish in any order, so each of them carries its own part of the invariant (`Accounted`);
  and no cursor is ahead of the clock by which events are stamped (`SessionInv`). `EveryDoneIsBacked`: a
  prepared batch is `Ready` (an id occurs once, an actor once in an event, every place is resolved), the row
  made of such an event is what its event says, an upsert loses no id, and a record says done only after
  `Store` has backed the job or left a warning. `EveryWalkComplete`: no event that is owed, was not returned
  and has its times for itself (`Alone`) ever stands before the offset of the next request (`Owing`), since
  however a page breaks its ties it holds every such event that stands within it, is no longer than its limit,
  and what is stored meanwhile only pushes rows back. Walks that a failed count or statement cut short are
  exempt, as are events tied with others, which a page may return twice and another never. Assumed of the
  data: what arrives are events, what the extraction of names answers are actors, and `RenamingAssumption`,
  that a name which is no place stays none when it is normalised again. The last leaves out names that
  unescaping HTML or repairing an encoding changes a second time, such as doubly escaped ones.
- *ServingProofs*, on what readers are served: `EvidenceSinksNothing`, that no piece of evidence lowers the
  score of an event (unless a stronger case takes the event over), empties a dossier or calms the board; and
  `EveryReadComplete`, that what is done is read, a walk that nothing cut short is complete and what is shown
  adds up. `ReaderInv` is the invariant of both: the tables are finite and typed, and each has one row to an
  id. From there on they are facts about operators, over any such tables. Evidence is compared once with and
  once without the row: each weight and share of a score follows what it counts, the case an event is linked
  to is the strongest by a total order, and a dossier or the board takes in rows one by one as long as its
  queries are not cut. For what adds up, a page by a total order is as long as its limit or holds everything
  (`WholePage`, `RowsWhole`), counts by a key partition what is counted (`CountedByKey`, `ColumnsAddUp`), and
  a balanced selection never gives a family a second turn before another has had its first, whatever it takes
  (`BalancedIsFair`). `RecordsInv` joins jobs and readers: a record of Redis that says done is the one the
  mirror has, and every row is the row of an event. A property speaks of what its reader takes in, and names
  the limit: memory and a snapshot of 50 events, 30 zones, the map's `TrackingCap`, the queries of a dossier
  (800 events, 200 narratives, 400 signals) and of the board (500 alerts, 300 narratives). Beyond these the
  code does cut. Assumed: columns have their types (`EvidenceAssumption`), what a search finds has every id
  once (`FoundAssumption`), linked are pairs (`LinksAssumption`), `FamilyOrder` is the order of the families
  that occur (`FamilyOrderAssumption`), engagement counts are integers (`EngagementAssumption`), and jobs are
  finitely many (`JobsAssumption`).

Every safety property that a passing run checks is stated by one of these theorems. *Only
model-checked* is liveness (`Reopens`, `Recovers`, `ForestTerminates`, `TasksEnd`, `WaitsEnd`, `MissionsEnd`,
`SummaryCatchesUp`, `JobsEnd`, and `RefreshesServed` with its parts `TickServed` and `ViewsCatchUp`), since
fairness and ENABLED are out of the prover's reach. No module here declares a RECURSIVE operator.

## Not modelled, and why

- *Dead letters*: nothing calls `send_to_dlq`, so the list is empty. *Social enrichment* is read and written
  by one loop. *Playbooks and decisions*: stubs that log, and one insert with one update. *Triage,
  authentication, controllers, cache and hosted loop of .NET*: the models concentrate on the Python processes,
  where the tables are written; towards the client the hub is modelled as lossy. `WaitForJobsAsync`
  (`IntelligenceHostedService.cs:181`) reports success at its deadline if one of several jobs was done.
- *Extractors, NLP models, embeddings, prompts, geometry, wording*: data without control of their own, or
  network clients behind the breaker.
- *Assets, audit, health and ontology tables, the remaining read routers*: single statements over rows of one
  writer.
- *Validator*: both scheduled jobs call it (`scheduler/jobs.py:179`, `:336`); it keeps no state and takes out
  items without an id, a title or a time, which the models leave out of what a feed delivers.
- Within modelled components: `run_social_signals` (no caller), `health` of the orchestrator, the heartbeat,
  resolve and workflow fields of alerts, the bus and log of the agents, reads of the graph and edges between
  clusters, the steps of `bot_score_job` and `credibility_job` (one reading and one cache key each; what they
  compute is in `ActorScores`), the metrics and views a job refreshes at its end, text search,
  constructors without services, the flag `is_anomaly` of listed events, which a process takes from a set of
  names it keeps for 60 s (`events.py:583-634`), the assets, alerts and overview that a session refreshes
  beside the events, its reset at logout, more than one pull of a page at a time, and new scores of an event
  between two pulls of a session. `PROJECT.json` says it per component.
