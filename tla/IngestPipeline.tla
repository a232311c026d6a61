--------------------------- MODULE IngestPipeline ---------------------------
(***************************************************************************)
(* The scheduled ingest jobs (scheduler/jobs.py: live_ingest_job and       *)
(* text_ingest_job) and what they leave in Postgres and Redis.  The        *)
(* scheduler keeps one instance of each job, and the start-up bootstrap of *)
(* the API process (api/main.py) runs the same two functions beside it, so *)
(* two runs of one kind may overlap.                                       *)
(*                                                                         *)
(* Every get_session block is a transaction of its own; a run is the       *)
(* sequence of those blocks, and another run, a failing database or a      *)
(* crash can come between any two.  Texts, sentiment, the graph            *)
(* (write_events swallows its errors) and the metrics are data nothing     *)
(* here depends on, and are left out; so are the run_count of the tracked  *)
(* queries and the counters of a checkpoint row.                           *)
(*                                                                         *)
(* An id may be delivered again with another time (an aircraft is an id    *)
(* per callsign and day, an article without a date is of now), and the     *)
(* upsert re-dates its row.  Other writers of the table keep no lineage:   *)
(* the jobs on demand, missions, documents, and the posts fetched for an   *)
(* event or for a workspace.                                               *)
(***************************************************************************)
EXTENDS Integers, FiniteSets

CONSTANTS
    Runs,       \* concurrent executions of a job function
    KindOf,     \* KindOf[r]: "live" or "text"
    ProcessOf,  \* ProcessOf[r]: the process it runs in, worker or API
    Queries,    \* the active tracked queries
    Events,     \* event ids the sources can deliver
    Times,      \* the times they can deliver them with
    FeedOf,     \* FeedOf[e]: the kind of job that fetches e
    SourceOf,   \* SourceOf[e]: its source
    MaxBatches  \* bound: batches fetched in a behaviour

ASSUME KindAssumption == KindOf \in [Runs -> {"live", "text"}]
ASSUME FeedAssumption == FeedOf \in [Events -> {"live", "text"}]
ASSUME TimeAssumption == Times \subseteq Nat \ {0}
ASSUME BoundAssumption == MaxBatches \in Nat

Sources == {SourceOf[e] : e \in Events}
Processes == {ProcessOf[r] : r \in Runs}
Batches == 1..MaxBatches
None == 0       \* no batch, no checkpoint, no row

\* The time each event has in a batch or in the table, None where it is not in it.
Rows == [Events -> Times \cup {None}]
In(rows) == {e \in Events : rows[e] # None}
Empty == [e \in Events |-> None]

VARIABLES
    pc,         \* pc[r]: the block run r executes next
    current,    \* current[r]: the batch it carries
    snapshot,   \* snapshot[r]: the checkpoints it has read
    failure,    \* failure[r]: why the last run in slot r aborted
    fetched,    \* batches fetched so far
    content,    \* content[b]: the rows of batch b
    doubled,    \* doubled[b]: some event id stands in batch b twice
    upserted,   \* batches whose upsert committed
    direct,     \* batches of the writers without lineage
    signals,    \* source_event_id of the rows of signals
    rawStage,   \* batches with a raw_ingest lineage row
    stored,     \* the rows of events
    checkpoint, \* checkpoint[s]: last_event_ts of source s, None without a row
    enriched,   \* batches named as parent of an nlp_enriched lineage row
    announced   \* batches published on ingest_complete

run == <<pc, current, snapshot, failure>>
history == <<fetched, content, doubled, upserted, direct>>
tables == <<signals, rawStage, stored, checkpoint, enriched>>
vars == <<run, history, tables, announced>>

Stages == {"idle", "signals", "raw_ingest", "upsert", "read_checkpoints",
           "write_checkpoints", "nlp_enriched", "publish"}

TypeOK ==
    /\ pc \in [Runs -> Stages]
    /\ current \in [Runs -> Batches \cup {None}]
    /\ snapshot \in [Runs -> SUBSET Sources]
    /\ failure \in [Runs -> {"none", "database", "duplicate", "crash"}]
    /\ fetched \in 0..MaxBatches
    /\ content \in [Batches -> Rows]
    /\ doubled \in [Batches -> BOOLEAN]
    /\ upserted \in SUBSET Batches /\ direct \in SUBSET Batches
    /\ signals \in SUBSET Events
    /\ rawStage \in SUBSET Batches
    /\ stored \in Rows
    /\ checkpoint \in [Sources -> Nat]
    /\ enriched \in SUBSET Batches
    /\ announced \in SUBSET Batches

Init ==
    /\ pc = [r \in Runs |-> "idle"]
    /\ current = [r \in Runs |-> None]
    /\ snapshot = [r \in Runs |-> {}]
    /\ failure = [r \in Runs |-> "none"]
    /\ fetched = 0
    /\ content = [b \in Batches |-> Empty]
    /\ doubled = [b \in Batches |-> FALSE]
    /\ upserted = {} /\ direct = {}
    /\ signals = {}
    /\ rawStage = {}
    /\ stored = Empty
    /\ checkpoint = [s \in Sources |-> None]
    /\ enriched = {}
    /\ announced = {}

-----------------------------------------------------------------------------

Batch(r) == content[current[r]]

Advance(r, from, to) ==
    /\ pc[r] = from
    /\ pc' = [pc EXCEPT ![r] = to]

\* The outer except of the job: the run is over, what it committed stays.
Abort(r, why) ==
    /\ pc' = [pc EXCEPT ![r] = "idle"]
    /\ current' = [current EXCEPT ![r] = None]
    /\ snapshot' = [snapshot EXCEPT ![r] = {}]
    /\ failure' = [failure EXCEPT ![r] = why]

Numbered(rows) ==
    /\ fetched < MaxBatches
    /\ fetched' = fetched + 1
    /\ content' = [content EXCEPT ![fetched + 1] = rows]

NewBatch(r, rows, twice) ==
    /\ Numbered(rows)
    /\ doubled' = [doubled EXCEPT ![fetched + 1] = twice]
    /\ current' = [current EXCEPT ![r] = fetched + 1]
    /\ failure' = [failure EXCEPT ![r] = "none"]

\* What a feed can deliver: any of its events, of any time.
Delivery(feed) == {rows \in Rows : \A e \in In(rows) : FeedOf[e] = feed}

\* run_live_only(): one merged result, deduplicated by the orchestrator;
\* routine flights and vessels are taken out, invalid events rejected.
FetchLive(r) ==
    /\ KindOf[r] = "live"
    /\ Advance(r, "idle", "signals")
    /\ \E rows \in Delivery("live") : NewBatch(r, rows, FALSE)
    /\ UNCHANGED <<snapshot, upserted, direct, tables, announced>>

\* run_text_only() once per query: each result is deduplicated, their
\* concatenation is not, so an id that two queries find stands in it twice.
FetchText(r) ==
    /\ KindOf[r] = "text"
    /\ Advance(r, "idle", "signals")
    /\ \E rows \in Delivery("text"), twice \in BOOLEAN :
          /\ twice => In(rows) # {} /\ \E p, q \in Queries : p # q
          /\ NewBatch(r, rows, twice)
    /\ UNCHANGED <<snapshot, upserted, direct, tables, announced>>

\* Signals are inserted when embeddings are available; an error is swallowed.
WriteSignals(r) ==
    /\ Advance(r, "signals", "raw_ingest")
    /\ signals' \in {signals, signals \cup In(Batch(r))}
    /\ UNCHANGED <<current, snapshot, failure, history, rawStage, stored,
                   checkpoint, enriched, announced>>

\* Mutant of RecordRaw: a lineage row that cannot be written is skipped.
RecordRawIfPossible(r) ==
    /\ Advance(r, "raw_ingest", "upsert")
    /\ rawStage' \in {rawStage, rawStage \cup {current[r]}}
    /\ UNCHANGED <<current, snapshot, failure, history, signals, stored,
                   checkpoint, enriched, announced>>

\* LineageTracker.record_stage("raw_ingest") in a session of its own.
RecordRaw(r) ==
    /\ Advance(r, "raw_ingest", "upsert")
    /\ rawStage' = rawStage \cup {current[r]}
    /\ UNCHANGED <<current, snapshot, failure, history, signals, stored,
                   checkpoint, enriched, announced>>

\* INSERT ... ON CONFLICT DO UPDATE: a row there is gets the time delivered.
Merged(rows) == [e \in Events |-> IF e \in In(rows) THEN rows[e] ELSE stored[e]]

\* Mutant of Upsert: a failing upsert is swallowed like a failing signal write.
UpsertSwallowsErrors(r) ==
    /\ Advance(r, "upsert", "read_checkpoints")
    /\ ~doubled[current[r]]
    /\ \/ stored' = Merged(Batch(r)) /\ upserted' = upserted \cup {current[r]}
       \/ UNCHANGED <<stored, upserted>>
    /\ UNCHANGED <<current, snapshot, failure, fetched, content, doubled, direct,
                   signals, rawStage, checkpoint, enriched, announced>>

\* One statement for the whole batch.
Upsert(r) ==
    /\ Advance(r, "upsert", "read_checkpoints")
    /\ ~doubled[current[r]]
    /\ stored' = Merged(Batch(r))
    /\ upserted' = upserted \cup {current[r]}
    /\ UNCHANGED <<current, snapshot, failure, fetched, content, doubled, direct,
                   signals, rawStage, checkpoint, enriched, announced>>

\* upsert_many called by a job on demand, a mission or another of the writers
\* without lineage, whatever source its events are of.
WriteDirectly ==
    /\ \E rows \in Rows \ {Empty} : Numbered(rows) /\ stored' = Merged(rows)
    /\ upserted' = upserted \cup {fetched + 1}
    /\ direct' = direct \cup {fetched + 1}
    /\ UNCHANGED <<run, doubled, signals, rawStage, checkpoint, enriched, announced>>

\* Mutant of UpsertRejected: the job goes on without the refused batch.
UpsertRejectedGoesOn(r) ==
    /\ Advance(r, "upsert", "read_checkpoints")
    /\ doubled[current[r]]
    /\ UNCHANGED <<current, snapshot, failure, history, tables, announced>>

\* Postgres refuses a statement that would touch one row twice.
UpsertRejected(r) ==
    /\ pc[r] = "upsert"
    /\ doubled[current[r]]
    /\ Abort(r, "duplicate")
    /\ UNCHANGED <<history, tables, announced>>

\* _update_checkpoints selects the rows it is about to change; an empty batch
\* and an error in the block leave everything as it was.
ReadCheckpoints(r) ==
    /\ Advance(r, "read_checkpoints", "write_checkpoints")
    /\ snapshot' = [snapshot EXCEPT ![r] = {s \in Sources : checkpoint[s] # None}]
    /\ UNCHANGED <<current, failure, history, tables, announced>>

SeenSources(rows) == {SourceOf[e] : e \in In(rows)}

\* e is a newest event of source s in the batch; its time goes to the checkpoint.
IsNewest(e, s, rows) ==
    /\ e \in In(rows) /\ SourceOf[e] = s
    /\ \A x \in In(rows) : SourceOf[x] = s => rows[x] <= rows[e]

\* A row that was missing when it was selected and exists by now: the INSERT
\* violates the unique source and the block rolls back.
InsertConflicts(r) ==
    \E s \in SeenSources(Batch(r)) : s \notin snapshot[r] /\ checkpoint[s] # None

WriteCheckpoints(r) ==
    /\ Advance(r, "write_checkpoints", "nlp_enriched")
    /\ \/ UNCHANGED checkpoint
       \/ /\ ~InsertConflicts(r)
          /\ \E newest \in [SeenSources(Batch(r)) -> In(Batch(r))] :
                 /\ \A s \in SeenSources(Batch(r)) : IsNewest(newest[s], s, Batch(r))
                 /\ checkpoint' = [s \in Sources |->
                        IF s \in SeenSources(Batch(r)) THEN Batch(r)[newest[s]]
                                                       ELSE checkpoint[s]]
    /\ snapshot' = [snapshot EXCEPT ![r] = {}]
    /\ UNCHANGED <<current, failure, history, signals, rawStage, stored,
                   enriched, announced>>

\* LineageTracker.record_stage("nlp_enriched", parent_batch=...).
RecordEnriched(r) ==
    /\ Advance(r, "nlp_enriched", "publish")
    /\ enriched' = enriched \cup {current[r]}
    /\ UNCHANGED <<current, snapshot, failure, history, signals, rawStage,
                   stored, checkpoint, announced>>

\* The message goes to Redis; without an event bus, or when publishing fails,
\* the run ends all the same.
Publish(r) ==
    /\ Advance(r, "publish", "idle")
    /\ announced' \in {announced, announced \cup {current[r]}}
    /\ current' = [current EXCEPT ![r] = None]
    /\ UNCHANGED <<snapshot, failure, history, tables>>

\* A transaction the job does not guard fails: lineage or the upsert.
DatabaseFails(r) ==
    /\ pc[r] \in {"raw_ingest", "upsert", "nlp_enriched"}
    /\ Abort(r, "database")
    /\ UNCHANGED <<history, tables, announced>>

RunsIn(p) == {r \in Runs : ProcessOf[r] = p}

\* A process dies: its runs are lost where they stand, the others go on.
Crash(p) ==
    /\ \E r \in RunsIn(p) : pc[r] # "idle"
    /\ pc' = [r \in Runs |-> IF r \in RunsIn(p) THEN "idle" ELSE pc[r]]
    /\ current' = [r \in Runs |-> IF r \in RunsIn(p) THEN None ELSE current[r]]
    /\ snapshot' = [r \in Runs |-> IF r \in RunsIn(p) THEN {} ELSE snapshot[r]]
    /\ failure' = [r \in Runs |-> IF r \in RunsIn(p) /\ pc[r] # "idle"
                                     THEN "crash" ELSE failure[r]]
    /\ UNCHANGED <<history, tables, announced>>

\* Every batch the bound allows has been fetched and carried to its end.
Exhausted ==
    /\ fetched = MaxBatches
    /\ \A r \in Runs : pc[r] = "idle"
    /\ UNCHANGED vars

Step(r) ==
    \/ FetchLive(r) \/ FetchText(r) \/ WriteSignals(r) \/ RecordRaw(r)
    \/ Upsert(r) \/ UpsertRejected(r) \/ ReadCheckpoints(r)
    \/ WriteCheckpoints(r) \/ RecordEnriched(r) \/ Publish(r)
    \/ DatabaseFails(r)

Next ==
    \/ \E r \in Runs : Step(r)
    \/ \E p \in Processes : Crash(p)
    \/ WriteDirectly
    \/ Exhausted

Spec == Init /\ [][Next]_vars

-----------------------------------------------------------------------------

\* Every event can be traced to its source batch (storage/lineage.py:6-7): there is
\* a raw_ingest row of a batch with it.  The writers without lineage break this.
StoredTraceable ==
    \A e \in In(stored) : \E b \in rawStage : e \in In(content[b])

\* What the scheduled jobs keep of it, after any failure or crash: each row is as
\* some committed batch left it, which has its raw_ingest row or is of a writer
\* that keeps none.
JobsTraceable ==
    \A e \in In(stored) : \E b \in upserted :
        content[b][e] = stored[e] /\ (b \in rawStage \/ b \in direct)

\* A checkpoint never runs ahead of the events table: its time is one with which
\* a batch of the jobs stored an event of that source, and the row of the event
\* still has it unless another batch stored the event too.
CheckpointBacked ==
    \A s \in Sources : checkpoint[s] # None =>
        \E b \in upserted \ direct : \E e \in In(content[b]) :
            /\ SourceOf[e] = s /\ content[b][e] = checkpoint[s]
            /\ \/ stored[e] = checkpoint[s]
               \/ \E other \in upserted \ {b} :
                      e \in In(stored) /\ stored[e] = content[other][e]

\* What ingest_complete announces is complete: the consumers of the message
\* find every event of the batch and both lineage rows.
AnnouncedIsDurable ==
    \A b \in announced : In(content[b]) \subseteq In(stored) /\ b \in rawStage /\ b \in enriched
=============================================================================
