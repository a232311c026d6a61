----------------------------- MODULE IngestJobs -----------------------------
(***************************************************************************)
(* Ingest jobs on demand (api/routers/ingest.py): POST /ingest records a   *)
(* job in Redis and in a mirror of this process and starts a task; the     *)
(* task gathers, prepares and stores a batch and records how it ended;     *)
(* GET /ingest/{job} shows what Redis says, or else the mirror.            *)
(*                                                                         *)
(* Every call of Redis can fail, at every point where the task awaits one. *)
(* The mirror holds the very record the task works on: what the task writes *)
(* there shows before Redis has it.                                        *)
(***************************************************************************)
EXTENDS Enrichment

CONSTANTS
    Jobs,        \* jobs that may be asked for
    Requests,    \* what may be asked: [sources, enrich, db]
    Answers,     \* Answers[t]: the answers a source may give, [ok, events]
    MaxFaults    \* bound: calls of Redis that fail, and other steps that fail

ASSUME AnswersAssumption ==
    /\ \A r \in Requests : Unknown(r.sources) = {} => Allowed(r.sources) \subseteq DOMAIN Answers
    /\ \A t \in DOMAIN Answers : \A a \in Answers[t] :
         a.events \in Seq(Range(a.events)) /\ \A e \in Range(a.events) : IsEvent(e)

VARIABLES
    table,       \* the events table
    registry,    \* the names the entity resolver of the process knows
    bus,         \* is there a Redis at all
    phase,       \* where each job's task is
    asked,       \* what each job was asked
    redis,       \* the record of each job in Redis, or None
    mirror,      \* the record of each job in this process, or None
    batch,       \* the events of each job
    faults,      \* calls of Redis that failed
    breaks       \* other steps that failed

recordVars == <<redis, mirror, faults>>
jobVars == <<registry, bus, phase, asked, redis, mirror, batch, faults, breaks>>

\* started says whether the record has the fields that trigger_ingest gives it,
\* kept whether it holds the events of the job.
Record(status) == [status |-> status, started |-> TRUE, warnings |-> {}, kept |-> FALSE]

JobsInit ==
    /\ registry = <<>> /\ bus \in BOOLEAN
    /\ phase = [j \in Jobs |-> "idle"] /\ asked = [j \in Jobs |-> None]
    /\ redis = [j \in Jobs |-> None] /\ mirror = [j \in Jobs |-> None]
    /\ batch = [j \in Jobs |-> <<>>]
    /\ faults = 0 /\ breaks = 0

\* A write to Redis, which fails or not.
Called(ok) ==
    /\ ~ok => bus /\ faults < MaxFaults
    /\ faults' = IF ok THEN faults ELSE faults + 1
InRedis(j, record, ok) == redis' = IF bus /\ ok THEN [redis EXCEPT ![j] = record] ELSE redis
Moves(j, from, to) == phase[j] = from /\ phase' = [phase EXCEPT ![j] = to]
Breaking == breaks < MaxFaults /\ breaks' = breaks + 1

\* trigger_ingest: refused for sources nobody knows.  That Redis failed to take
\* the record is ignored.
Trigger(j) ==
    /\ Moves(j, "idle", "accepted")
    /\ \E r \in Requests :
         /\ Unknown(r.sources) = {}
         /\ asked' = [asked EXCEPT ![j] = r]
    /\ \E ok \in BOOLEAN : Called(ok) /\ InRedis(j, Record("pending"), ok)
    /\ mirror' = [mirror EXCEPT ![j] = Record("pending")]
    /\ UNCHANGED <<table, registry, bus, batch, breaks>>

\* The task reads its record and marks it running, outside of its try: an error
\* of Redis ends it.  If the first write was lost, the record starts from nothing.
Begin(j) ==
    /\ \E ok \in BOOLEAN :
         /\ Called(ok)
         /\ Moves(j, "accepted", IF ok THEN "begun" ELSE "killed")
         /\ LET found == IF bus THEN redis[j] ELSE mirror[j]
                record == IF found = None THEN [Record("running") EXCEPT !.started = FALSE]
                          ELSE [found EXCEPT !.status = "running"]
            IN  /\ InRedis(j, record, ok)
                /\ mirror' = IF ok THEN [mirror EXCEPT ![j] = record] ELSE mirror
    /\ UNCHANGED <<table, registry, bus, asked, batch, breaks>>

\* The query tasks end in any order, then the live ones; the first event of an
\* id is kept.
Gather(j) ==
    /\ Moves(j, "begun", "gathered")
    /\ LET allowed == Allowed(asked[j].sources)
       IN  \E a \in {f \in [allowed -> UNION {Answers[t] : t \in allowed}] : \A t \in allowed : f[t] \in Answers[t]} :
           \E q \in SetToAllKPermutations(Pool(QueryTasks, allowed)), l \in SetToAllKPermutations(Pool(LiveTasks, allowed)) :
             /\ Range(q \o l) = allowed
             /\ batch' = [batch EXCEPT ![j] = OrchestratorRun(a, q \o l).events]
    /\ UNCHANGED <<table, registry, bus, asked, recordVars, breaks>>

Prepare(j) ==
    /\ Moves(j, "gathered", "prepared")
    /\ LET full == IF asked[j].enrich THEN Enrich(batch[j]) ELSE batch[j]
           done == Process(registry, full)
       IN  batch' = [batch EXCEPT ![j] = done.events] /\ registry' = done.registry
    /\ UNCHANGED <<table, bus, asked, recordVars, breaks>>

\* Gathering or preparing raises.
Break(j) ==
    /\ Breaking
    /\ \/ Moves(j, "begun", "failing")
       \/ Moves(j, "gathered", "failing")
    /\ UNCHANGED <<table, registry, bus, asked, recordVars, batch>>

\* The events and the job's row are one transaction.  If it fails, or if the
\* record has no started_at, the job goes on with a warning.
Store(j) ==
    /\ Moves(j, "prepared", "stored")
    /\ IF ~asked[j].db \/ batch[j] = <<>> THEN UNCHANGED <<table, mirror, breaks>>
       ELSE \/ /\ mirror[j].started
               /\ table' = UpsertMany(table, Range(batch[j])) /\ UNCHANGED <<mirror, breaks>>
            \/ /\ mirror' = [mirror EXCEPT ![j].warnings = @ \cup {"DB persist"}]
               /\ IF mirror[j].started THEN Breaking ELSE UNCHANGED breaks
               /\ UNCHANGED table
    /\ UNCHANGED <<registry, bus, asked, redis, batch, faults>>

\* Mutant of MarkDone: the record is done before the events are stored.
MarkDoneEarly(j) ==
    /\ Moves(j, "prepared", "done")
    /\ mirror' = [mirror EXCEPT ![j].status = "done", ![j].kept = TRUE]
    /\ UNCHANGED <<table, registry, bus, asked, redis, batch, faults, breaks>>

\* The task changes its record, which the mirror shows at once ...
MarkDone(j) ==
    /\ Moves(j, "stored", "done")
    /\ mirror' = [mirror EXCEPT ![j].status = "done", ![j].kept = TRUE]
    /\ UNCHANGED <<table, registry, bus, asked, redis, batch, faults, breaks>>

\* ... and writes it to Redis.  An error there fails the job whose events are stored.
RecordDone(j) ==
    /\ \E ok \in BOOLEAN :
         /\ Called(ok)
         /\ Moves(j, "done", IF ok THEN "ended" ELSE "failing")
         /\ InRedis(j, mirror[j], ok)
    /\ UNCHANGED <<table, registry, bus, asked, mirror, batch, breaks>>

MarkFailed(j) ==
    /\ Moves(j, "failing", "failed")
    /\ mirror' = [mirror EXCEPT ![j].status = "failed"]
    /\ UNCHANGED <<table, registry, bus, asked, redis, batch, faults, breaks>>

\* Mutant of RecordFailed: a failure is kept to the mirror.
RecordFailedLocally(j) ==
    /\ Moves(j, "failed", "ended")
    /\ UNCHANGED <<table, registry, bus, asked, recordVars, batch, breaks>>

\* An error here is nobody's: Redis says running for a day.
RecordFailed(j) ==
    /\ \E ok \in BOOLEAN :
         /\ Called(ok)
         /\ Moves(j, "failed", IF ok THEN "ended" ELSE "killed")
         /\ InRedis(j, mirror[j], ok)
    /\ UNCHANGED <<table, registry, bus, asked, mirror, batch, breaks>>

Running == {"accepted", "begun", "gathered", "prepared", "stored", "done", "failing", "failed"}
JobStep(j) ==
    \/ Begin(j) \/ Gather(j) \/ Prepare(j) \/ Store(j)
    \/ MarkDone(j) \/ RecordDone(j) \/ MarkFailed(j) \/ RecordFailed(j)

-----------------------------------------------------------------------------
\* What GET /ingest/{job} finds, and what it answers: a record that began as
\* nothing lacks fields IngestStatus requires, which raises.  And what /events
\* finds in memory: the events a record holds, also of a job that failed when its
\* end was to be written to Redis.
Shown(j) == IF bus /\ redis[j] # None THEN redis[j] ELSE mirror[j]
Status(j) ==
    CASE Shown(j) = None -> "unknown"
      [] Shown(j) # None /\ ~Shown(j).started -> "server error"
      [] OTHER -> Shown(j).status
MemoryEvents == UNION {Range(batch[j]) : j \in {i \in Jobs : mirror[i] # None /\ mirror[i].kept}}

\* Whatever a job recorded as done, in Redis or in the process, gathered is in
\* the table, with the country and the coordinates that can be told of it, or
\* the job has a warning; in memory it is found in any case, once, and names no
\* actor twice.  A job that was asked to store nothing is not meant.
Placed(e) == e.at # None \/ ResolveEventCoords(e) = None
DoneIsBacked ==
    \A j \in Jobs : \A record \in {redis[j], mirror[j]} \ {None} :
        record.status = "done" =>
            /\ \/ ~asked[j].db \/ "DB persist" \in record.warnings
               \/ \A e \in Range(batch[j]) : \E r \in table : r.id = e.id /\ Placed(r)
            /\ Cardinality({e.id : e \in Range(batch[j])}) = Len(batch[j])
            /\ \A e \in Range(batch[j]) : Placed(e) /\ Cardinality({a.name : a \in Range(e.actors)}) = Len(e.actors)

\* A job whose first record reached Redis, or that has no Redis to reach, comes
\* to be shown as done or failed, although calls of Redis fail, unless its task was
\* killed: by an error before its try, or by a second one after its first failed
\* the job.  One whose first record was lost is answered with an error from then on.
Recorded(j) == bus => redis[j] # None
JobsEnd ==
    \A j \in Jobs :
        phase[j] = "accepted" /\ Recorded(j) ~> (phase[j] = "killed" \/ Status(j) \in {"done", "failed"})
=============================================================================
