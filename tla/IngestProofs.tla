---------------------------- MODULE IngestProofs ----------------------------
(***************************************************************************)
(* The durability order of the scheduled ingest jobs, for every set of     *)
(* runs, queries and events and every number of batches; and of the        *)
(* circuit breaker through which an ingest thread fetches, what holds for  *)
(* every set of threads, threshold, cooldown and preemption bound.         *)
(***************************************************************************)
EXTENDS IngestPipeline, CircuitBreaker, FiniteSetTheorems, TLAPS

AfterRaw == {"upsert", "read_checkpoints", "write_checkpoints", "nlp_enriched", "publish"}
AfterUpsert == {"read_checkpoints", "write_checkpoints", "nlp_enriched", "publish"}

\* Where a run stands says what it has committed; a batch is recorded before it
\* is stored, stored before it is enriched, enriched before it is announced.
Progress ==
    /\ \A r \in Runs : pc[r] # "idle" => current[r] \in 1..fetched /\ current[r] \notin direct
    /\ \A r \in Runs : pc[r] \in AfterRaw => current[r] \in rawStage
    /\ \A r \in Runs : pc[r] \in AfterUpsert => current[r] \in upserted
    /\ \A r \in Runs : pc[r] = "publish" => current[r] \in enriched
    /\ rawStage \subseteq 1..fetched /\ upserted \subseteq 1..fetched /\ direct \subseteq 1..fetched
    /\ enriched \subseteq rawStage \cap upserted
    /\ announced \subseteq enriched

\* No row is lost: an upsert adds rows and gives rows other times.
Kept == \A b \in upserted : In(content[b]) \subseteq In(stored)

\* The checkpoint of s is the time of an event of s in a batch that the jobs stored.
Named(s) ==
    \E b \in upserted \ direct : \E e \in In(content[b]) :
        SourceOf[e] = s /\ content[b][e] = checkpoint[s]

IInv ==
    /\ TypeOK
    /\ Progress
    /\ JobsTraceable
    /\ Kept
    /\ \A s \in Sources : checkpoint[s] # None => Named(s)

\* What the invariant says of the tables alone.
Tables ==
    /\ JobsTraceable
    /\ Kept
    /\ \A s \in Sources : checkpoint[s] # None => Named(s)

LEMMA InIsSubset == ASSUME NEW rows PROVE In(rows) \subseteq Events
  BY DEF In

LEMMA MergedType == ASSUME TypeOK, NEW rows \in Rows PROVE Merged(rows) \in Rows
  BY DEF TypeOK, Rows, Merged, In

\* Nothing is stored, recorded or announced at the start.
LEMMA InitIInv == Init => IInv
  <1> SUFFICES ASSUME Init PROVE IInv
    OBVIOUS
  <1>1. Empty \in Rows /\ In(Empty) = {}
    BY DEF Empty, Rows, In
  <1>2. TypeOK
    BY <1>1, BoundAssumption DEF Init, TypeOK, Stages, Batches, None
  <1>3. Tables
    BY <1>1 DEF Init, Tables, JobsTraceable, Kept
  <1>4. Progress
    BY DEF Init, Progress, AfterRaw, AfterUpsert
  <1> QED
    BY <1>2, <1>3, <1>4 DEF IInv, Tables

\* Where nothing is stored and no checkpoint written, the tables keep what they
\* say: batches already numbered do not change.
LEMMA TablesStep ==
    ASSUME IInv, UNCHANGED <<upserted, direct, stored, checkpoint>>, rawStage \subseteq rawStage',
           \A b \in upserted : content'[b] = content[b]
    PROVE  Tables'
  <1>1. JobsTraceable'
    BY DEF IInv, JobsTraceable, In
  <1>2. Kept'
    BY DEF IInv, Kept, In
  <1>3. ASSUME NEW s \in Sources, checkpoint'[s] # None PROVE Named(s)'
    <2>1. PICK b \in upserted \ direct : \E e \in In(content[b]) :
             SourceOf[e] = s /\ content[b][e] = checkpoint[s]
      BY <1>3 DEF IInv, Named
    <2>2. content'[b] = content[b] /\ In(content'[b]) = In(content[b])
      BY <2>1 DEF In
    <2> QED
      BY <2>1, <2>2 DEF Named
  <1> QED
    BY <1>1, <1>2, <1>3 DEF Tables

\* An upsert of a batch b with those rows, recorded or of a writer that records none.
LEMMA StoreStep ==
    ASSUME IInv, NEW b \in Batches, NEW rows \in Rows,
           content'[b] = rows, \A x \in upserted : content'[x] = content[x],
           stored' = Merged(rows), upserted' = upserted \cup {b},
           UNCHANGED <<rawStage, checkpoint>>,
           \/ direct' = direct /\ b \in rawStage
           \/ direct' = direct \cup {b} /\ b \notin upserted
    PROVE  Tables'
  <1>1. /\ \A e \in Events : stored'[e] = IF e \in In(rows) THEN rows[e] ELSE stored[e]
        /\ In(stored') = In(stored) \cup In(rows)
    BY DEF Merged, In
  <1>2. JobsTraceable'
    <2> SUFFICES ASSUME NEW e \in In(stored')
                 PROVE  \E x \in upserted' : content'[x][e] = stored'[e] /\ (x \in rawStage' \/ x \in direct')
      BY DEF JobsTraceable
    <2>1. CASE e \in In(rows)
      BY <1>1, <2>1 DEF In
    <2>2. CASE e \notin In(rows)
      <3>1. e \in In(stored) /\ stored'[e] = stored[e]
        BY <1>1, <2>2, InIsSubset
      <3>2. PICK x \in upserted : content[x][e] = stored[e] /\ (x \in rawStage \/ x \in direct)
        BY <3>1 DEF IInv, JobsTraceable
      <3> QED
        BY <3>1, <3>2
    <2> QED
      BY <2>1, <2>2
  <1>3. Kept'
    <2> SUFFICES ASSUME NEW x \in upserted' PROVE In(content'[x]) \subseteq In(stored')
      BY DEF Kept
    <2>1. CASE x \in upserted
      BY <1>1, <2>1 DEF IInv, Kept
    <2>2. CASE x = b
      BY <1>1, <2>2
    <2> QED
      BY <2>1, <2>2
  <1>4. ASSUME NEW s \in Sources, checkpoint'[s] # None PROVE Named(s)'
    <2>1. PICK x \in upserted \ direct : \E e \in In(content[x]) :
             SourceOf[e] = s /\ content[x][e] = checkpoint[s]
      BY <1>4 DEF IInv, Named
    <2>2. content'[x] = content[x] /\ In(content'[x]) = In(content[x]) /\ x \in upserted' \ direct'
      BY <2>1 DEF In
    <2> QED
      BY <2>1, <2>2 DEF Named
  <1> QED
    BY <1>2, <1>3, <1>4 DEF Tables

\* A batch that gets a number gets one that no table names yet.
LEMMA NumberedStep ==
    ASSUME IInv, NEW rows \in Rows, Numbered(rows)
    PROVE  /\ fetched' = fetched + 1 /\ fetched + 1 \in Batches /\ fetched + 1 \notin 1..fetched
           /\ fetched' \in 0..MaxBatches /\ 1..fetched \subseteq 1..fetched'
           /\ content' \in [Batches -> Rows] /\ content'[fetched + 1] = rows
           /\ \A b \in 1..fetched : content'[b] = content[b]
  BY BoundAssumption DEF IInv, TypeOK, Numbered, Batches

\* A batch fetched by a job.
LEMMA NewBatchStep ==
    ASSUME IInv, NEW r \in Runs, NEW rows \in Rows, NEW twice \in BOOLEAN,
           pc[r] = "idle", Advance(r, "idle", "signals"), NewBatch(r, rows, twice),
           UNCHANGED <<snapshot, upserted, direct, tables, announced>>
    PROVE  IInv'
  <1>1. Numbered(rows)
    BY DEF NewBatch
  <1>2. TypeOK'
    BY <1>1, NumberedStep DEF IInv, TypeOK, Advance, NewBatch, tables, Stages
  <1>3. \A s \in Runs : s # r => pc'[s] = pc[s] /\ current'[s] = current[s]
    BY DEF IInv, TypeOK, Advance, NewBatch
  <1>4. pc'[r] = "signals" /\ current'[r] = fetched + 1
    BY DEF IInv, TypeOK, Advance, NewBatch
  <1>5. fetched + 1 \in 1..fetched' /\ fetched + 1 \notin direct
    BY <1>1, NumberedStep, BoundAssumption DEF IInv, TypeOK, Progress
  <1>6. Progress'
    BY <1>1, <1>3, <1>4, <1>5, NumberedStep DEF IInv, Progress, AfterRaw, AfterUpsert, tables
  <1>7. \A b \in upserted : content'[b] = content[b]
    BY <1>1, NumberedStep DEF IInv, Progress
  <1>8. Tables'
    BY <1>7, TablesStep DEF tables
  <1> QED
    BY <1>2, <1>6, <1>8 DEF IInv, Tables

\* A run that ends, by abort or crash, takes nothing back.
LEMMA EndStep ==
    ASSUME IInv, TypeOK', UNCHANGED <<history, tables, announced>>,
           \A r \in Runs : pc'[r] # "idle" => pc'[r] = pc[r] /\ current'[r] = current[r]
    PROVE  IInv'
  <1>1. Progress'
    BY DEF IInv, Progress, history, tables, AfterRaw, AfterUpsert
  <1>2. Tables'
    BY TablesStep DEF history, tables
  <1> QED
    BY <1>1, <1>2 DEF IInv, Tables

LEMMA WriteCheckpointsStep ==
    ASSUME IInv, NEW r \in Runs, WriteCheckpoints(r)
    PROVE  IInv'
  <1> DEFINE b == current[r]
  <1>1. /\ pc[r] = "write_checkpoints" /\ pc' = [pc EXCEPT ![r] = "nlp_enriched"]
        /\ UNCHANGED <<current, failure, fetched, content, doubled, upserted, direct,
                       signals, rawStage, stored, enriched, announced>>
        /\ snapshot' = [snapshot EXCEPT ![r] = {}]
    BY DEF WriteCheckpoints, Advance, history
  <1>2. b \in upserted \ direct /\ b \in Batches /\ content[b] \in Rows
    BY <1>1 DEF IInv, TypeOK, Progress, AfterUpsert
  <1>3. /\ checkpoint' \in [Sources -> Nat]
        /\ \A s \in Sources : checkpoint'[s] # None => Named(s)'
    <2>1. CASE UNCHANGED checkpoint
      <3>1. Tables'
        BY <1>1, <2>1, TablesStep
      <3> QED
        BY <2>1, <3>1 DEF Tables, IInv, TypeOK
    <2>2. CASE ~UNCHANGED checkpoint
      <3>1. PICK newest \in [SeenSources(Batch(r)) -> In(Batch(r))] :
               /\ \A s \in SeenSources(Batch(r)) : IsNewest(newest[s], s, Batch(r))
               /\ checkpoint' = [s \in Sources |->
                      IF s \in SeenSources(Batch(r)) THEN Batch(r)[newest[s]] ELSE checkpoint[s]]
        BY <2>2 DEF WriteCheckpoints
      <3>2. \A s \in SeenSources(Batch(r)) :
               /\ newest[s] \in In(content[b]) /\ newest[s] \in Events
               /\ SourceOf[newest[s]] = s /\ content[b][newest[s]] \in Nat
        BY <1>2, <3>1, TimeAssumption DEF IsNewest, Batch, In, Rows, None
      <3>3. checkpoint' \in [Sources -> Nat]
        BY <3>1, <3>2 DEF IInv, TypeOK, Batch
      <3>4. ASSUME NEW s \in Sources, checkpoint'[s] # None PROVE Named(s)'
        <4>1. CASE s \in SeenSources(Batch(r))
          <5>1. checkpoint'[s] = content[b][newest[s]]
            BY <3>1, <4>1 DEF Batch
          <5> QED
            BY <1>1, <1>2, <3>2, <4>1, <5>1 DEF Named
        <4>2. CASE s \notin SeenSources(Batch(r))
          <5>1. checkpoint'[s] = checkpoint[s] /\ Named(s)
            BY <3>1, <3>4, <4>2 DEF IInv
          <5> QED
            BY <1>1, <5>1 DEF Named
        <4> QED
          BY <4>1, <4>2
      <3> QED
        BY <3>3, <3>4
    <2> QED
      BY <2>1, <2>2
  <1>4. TypeOK'
    BY <1>1, <1>3 DEF IInv, TypeOK, Stages
  <1>5. Progress'
    BY <1>1 DEF IInv, TypeOK, Progress, AfterRaw, AfterUpsert
  <1>6. JobsTraceable' /\ Kept'
    BY <1>1 DEF IInv, JobsTraceable, Kept
  <1> QED
    BY <1>3, <1>4, <1>5, <1>6 DEF IInv

LEMMA UpsertStep ==
    ASSUME IInv, NEW r \in Runs, Upsert(r)
    PROVE  IInv'
  <1>1. /\ pc[r] = "upsert" /\ pc' = [pc EXCEPT ![r] = "read_checkpoints"]
        /\ stored' = Merged(Batch(r)) /\ upserted' = upserted \cup {current[r]}
        /\ UNCHANGED <<current, snapshot, failure, fetched, content, doubled, direct,
                       signals, rawStage, checkpoint, enriched, announced>>
    BY DEF Upsert, Advance
  <1>2. current[r] \in Batches /\ current[r] \in rawStage /\ current[r] \in 1..fetched
    BY <1>1 DEF IInv, TypeOK, Progress, AfterRaw
  <1>3. Batch(r) \in Rows /\ content'[current[r]] = Batch(r)
    BY <1>1, <1>2 DEF IInv, TypeOK, Batch
  <1>4. TypeOK'
    BY <1>1, <1>2, <1>3, MergedType DEF IInv, TypeOK, Stages
  <1>5. Progress'
    BY <1>1, <1>2 DEF IInv, TypeOK, Progress, AfterRaw, AfterUpsert
  <1>6. Tables'
    BY <1>1, <1>2, <1>3, StoreStep
  <1> QED
    BY <1>4, <1>5, <1>6 DEF IInv, Tables

\* One step of one run preserves IInv.
LEMMA RunStep ==
    ASSUME IInv, NEW r \in Runs, Step(r)
    PROVE  IInv'
  <1>1. CASE FetchLive(r)
    <2>1. PICK rows \in Rows : NewBatch(r, rows, FALSE)
      BY <1>1 DEF FetchLive, Delivery
    <2> QED
      BY <1>1, <2>1, NewBatchStep DEF FetchLive, Advance
  <1>2. CASE FetchText(r)
    <2>1. PICK rows \in Rows, twice \in BOOLEAN : NewBatch(r, rows, twice)
      BY <1>2 DEF FetchText, Delivery
    <2> QED
      BY <1>2, <2>1, NewBatchStep DEF FetchText, Advance
  <1>3. CASE WriteSignals(r)
    <2>1. TypeOK'
      BY <1>3, InIsSubset DEF IInv, TypeOK, WriteSignals, Advance, history, Stages
    <2>2. Tables'
      BY <1>3, TablesStep DEF WriteSignals, history
    <2> QED
      BY <1>3, <2>1, <2>2 DEF IInv, TypeOK, Progress, WriteSignals, Advance, history,
                              AfterRaw, AfterUpsert, Tables
  <1>4. CASE RecordRaw(r)
    <2>1. current[r] \in Batches /\ current[r] \in 1..fetched
      <3>1. current[r] \in 1..fetched
        BY <1>4 DEF IInv, Progress, RecordRaw, Advance
      <3> QED
        BY <3>1, BoundAssumption DEF IInv, TypeOK, Batches
    <2>2. TypeOK'
      BY <1>4, <2>1 DEF IInv, TypeOK, RecordRaw, Advance, history, Stages
    <2>3. Tables'
      BY <1>4, TablesStep DEF RecordRaw, history
    <2> QED
      BY <1>4, <2>1, <2>2, <2>3 DEF IInv, TypeOK, Progress, RecordRaw, Advance, history,
                                    AfterRaw, AfterUpsert, Tables
  <1>5. CASE Upsert(r)
    BY <1>5, UpsertStep
  <1>6. CASE UpsertRejected(r) \/ DatabaseFails(r)
    <2>1. TypeOK'
      BY <1>6 DEF IInv, TypeOK, UpsertRejected, DatabaseFails, Abort, history, tables,
                  Stages
    <2>2. \A s \in Runs : pc'[s] # "idle" => pc'[s] = pc[s] /\ current'[s] = current[s]
      BY <1>6 DEF IInv, TypeOK, UpsertRejected, DatabaseFails, Abort
    <2>3. UNCHANGED <<history, tables, announced>>
      BY <1>6 DEF UpsertRejected, DatabaseFails
    <2> QED
      BY <2>1, <2>2, <2>3, EndStep
  <1>7. CASE ReadCheckpoints(r)
    <2>1. TypeOK'
      BY <1>7 DEF IInv, TypeOK, ReadCheckpoints, Advance, history, tables, Stages
    <2>2. Tables'
      BY <1>7, TablesStep DEF ReadCheckpoints, history, tables
    <2> QED
      BY <1>7, <2>1, <2>2 DEF IInv, TypeOK, Progress, ReadCheckpoints, Advance, history, tables,
                              AfterRaw, AfterUpsert, Tables
  <1>8. CASE WriteCheckpoints(r)
    BY <1>8, WriteCheckpointsStep
  <1>9. CASE RecordEnriched(r)
    <2>1. current[r] \in Batches /\ current[r] \in rawStage /\ current[r] \in upserted
      BY <1>9 DEF IInv, TypeOK, Progress, RecordEnriched, Advance, AfterRaw, AfterUpsert
    <2>2. TypeOK'
      BY <1>9, <2>1 DEF IInv, TypeOK, RecordEnriched, Advance, history, Stages
    <2>3. Tables'
      BY <1>9, TablesStep DEF RecordEnriched, history
    <2> QED
      BY <1>9, <2>1, <2>2, <2>3 DEF IInv, TypeOK, Progress, RecordEnriched, Advance, history,
                                    AfterRaw, AfterUpsert, Tables
  <1>10. CASE Publish(r)
    <2>1. current[r] \in Batches /\ current[r] \in enriched
      BY <1>10 DEF IInv, TypeOK, Progress, Publish, Advance
    <2>2. TypeOK'
      BY <1>10, <2>1 DEF IInv, TypeOK, Publish, Advance, history, tables, Stages
    <2>3. Tables'
      BY <1>10, TablesStep DEF Publish, history, tables
    <2> QED
      BY <1>10, <2>1, <2>2, <2>3 DEF IInv, TypeOK, Progress, Publish, Advance, history, tables,
                                     AfterRaw, AfterUpsert, Tables
  <1> QED
    BY <1>1, <1>2, <1>3, <1>4, <1>5, <1>6, <1>7, <1>8, <1>9, <1>10 DEF Step

\* A writer without lineage.
LEMMA WriteDirectlyStep == ASSUME IInv, WriteDirectly PROVE IInv'
  <1> DEFINE b == fetched + 1
  <1>1. PICK rows \in Rows : Numbered(rows) /\ stored' = Merged(rows)
    BY DEF WriteDirectly
  <1>2. /\ upserted' = upserted \cup {b} /\ direct' = direct \cup {b}
        /\ UNCHANGED <<pc, current, snapshot, failure, doubled, signals, rawStage,
                       checkpoint, enriched, announced>>
    BY DEF WriteDirectly, run
  <1>3. /\ fetched' = fetched + 1 /\ b \in Batches /\ b \notin 1..fetched /\ b \in 1..fetched'
        /\ 1..fetched \subseteq 1..fetched'
    BY <1>1, NumberedStep, BoundAssumption DEF IInv, TypeOK
  <1>4. TypeOK'
    BY <1>1, <1>2, <1>3, NumberedStep, MergedType DEF IInv, TypeOK
  <1>5. Progress'
    BY <1>2, <1>3 DEF IInv, Progress
  <1>6. b \notin upserted /\ \A x \in upserted : content'[x] = content[x]
    BY <1>1, <1>3, NumberedStep DEF IInv, Progress
  <1>7. Tables'
    BY <1>1, <1>2, <1>3, <1>6, NumberedStep, StoreStep
  <1> QED
    BY <1>4, <1>5, <1>7 DEF IInv, Tables

\* IInv is inductive.
LEMMA IInvStep == IInv /\ [Next]_vars => IInv'
  <1> SUFFICES ASSUME IInv, [Next]_vars
               PROVE  IInv'
    OBVIOUS
  <1>1. ASSUME NEW p \in Processes, Crash(p)
        PROVE  IInv'
    <2>1. TypeOK'
      BY <1>1 DEF IInv, TypeOK, Crash, history, tables, Stages
    <2>2. \A r \in Runs : pc'[r] # "idle" => pc'[r] = pc[r] /\ current'[r] = current[r]
      BY <1>1 DEF Crash
    <2> QED
      BY <1>1, <2>1, <2>2, EndStep DEF Crash
  <1>2. CASE UNCHANGED vars
    <2>1. TypeOK'
      BY <1>2 DEF IInv, TypeOK, vars, run, history, tables
    <2> QED
      BY <1>2, <2>1, EndStep DEF vars, run
  <1> QED
    BY <1>1, <1>2, RunStep, WriteDirectlyStep DEF Next, Exhausted

\* The inductive invariant holds in every reachable state.
THEOREM Durable == Spec => []IInv
  BY InitIInv, IInvStep, PTL DEF Spec

\* Every row is as a batch left it that is recorded or of a writer without lineage.
THEOREM EveryEventTraceable == Spec => []JobsTraceable
  BY Durable, PTL DEF IInv

\* Every checkpoint has the time of an event that a job stored and that is still
\* there, with that time or with the one another batch gave it.
THEOREM EveryCheckpointBacked == Spec => []CheckpointBacked
  <1>1. ASSUME IInv, NEW s \in Sources, checkpoint[s] # None
        PROVE  \E b \in upserted \ direct : \E e \in In(content[b]) :
                  /\ SourceOf[e] = s /\ content[b][e] = checkpoint[s]
                  /\ \/ stored[e] = checkpoint[s]
                     \/ \E other \in upserted \ {b} :
                            e \in In(stored) /\ stored[e] = content[other][e]
    <2>1. PICK b \in upserted \ direct : \E e \in In(content[b]) :
             SourceOf[e] = s /\ content[b][e] = checkpoint[s]
      BY <1>1 DEF IInv, Named
    <2>2. PICK e \in In(content[b]) : SourceOf[e] = s /\ content[b][e] = checkpoint[s]
      BY <2>1
    <2>3. e \in In(stored)
      BY <1>1, <2>2 DEF IInv, Kept
    <2>4. PICK other \in upserted : content[other][e] = stored[e]
      BY <1>1, <2>3 DEF IInv, JobsTraceable
    <2>5. CASE other = b
      BY <2>2, <2>4, <2>5
    <2>6. CASE other # b
      BY <2>2, <2>3, <2>4, <2>6
    <2> QED
      BY <2>5, <2>6
  <1>2. IInv => CheckpointBacked
    BY <1>1 DEF CheckpointBacked
  <1> QED
    BY <1>2, Durable, PTL

\* An announced batch is stored and has both lineage rows.
THEOREM EveryAnnouncementDurable == Spec => []AnnouncedIsDurable
  <1>1. IInv => AnnouncedIsDurable
    BY DEF IInv, Progress, Kept, AnnouncedIsDurable
  <1> QED
    BY <1>1, Durable, PTL

-----------------------------------------------------------------------------
\* An evaluation of the state property moves only the asking thread.
LEMMA AnsweredType ==
    ASSUME BreakerTypeOK, NEW t \in Threads, NEW s \in States, Answered(t, s)
    PROVE  /\ at' \in [Threads -> {"idle", "check", "cool", "answer", "fetch", "stamp"}]
           /\ goal' \in [Threads -> {"run", "report", "probe"}]
           /\ ticket' \in [Threads -> States]
  BY DEF BreakerTypeOK, Answered

\* The type invariant is inductive on its own.
LEMMA BreakerTypeStep == BreakerTypeOK /\ [BreakerNext]_breakerVars => BreakerTypeOK'
  <1> SUFFICES ASSUME BreakerTypeOK, [BreakerNext]_breakerVars
               PROVE  BreakerTypeOK'
    OBVIOUS
  <1> USE ThresholdAssumption, CooldownAssumption, MaxLagAssumption
  <1>1. ASSUME NEW t \in Threads, Begin(t)
        PROVE  BreakerTypeOK'
    BY <1>1 DEF BreakerTypeOK, Begin, breaker
  <1>2. ASSUME NEW t \in Threads, ReadSettled(t)
        PROVE  BreakerTypeOK'
    <2>1. state \in States
      BY DEF BreakerTypeOK
    <2> QED
      BY <1>2, <2>1, AnsweredType DEF BreakerTypeOK, ReadSettled, breaker
  <1>3. ASSUME NEW t \in Threads, ReadOpen(t)
        PROVE  BreakerTypeOK'
    BY <1>3 DEF BreakerTypeOK, ReadOpen, breaker
  <1>4. ASSUME NEW t \in Threads, GoHalfOpen(t)
        PROVE  BreakerTypeOK'
    BY <1>4 DEF BreakerTypeOK, GoHalfOpen, States
  <1>5. ASSUME NEW t \in Threads, StayOpen(t)
        PROVE  BreakerTypeOK'
    <2>1. state \in States
      BY DEF BreakerTypeOK
    <2> QED
      BY <1>5, <2>1, AnsweredType DEF BreakerTypeOK, StayOpen, breaker
  <1>6. ASSUME NEW t \in Threads, AnswerAfterLog(t)
        PROVE  BreakerTypeOK'
    <2>1. state \in States
      BY DEF BreakerTypeOK
    <2> QED
      BY <1>6, <2>1, AnsweredType DEF BreakerTypeOK, AnswerAfterLog, breaker
  <1>7. ASSUME NEW t \in Threads, RecordSuccess(t)
        PROVE  BreakerTypeOK'
    BY <1>7 DEF BreakerTypeOK, RecordSuccess, ResetBreaker, States
  <1>8. ASSUME NEW t \in Threads, CountFailure(t)
        PROVE  BreakerTypeOK'
    BY <1>8 DEF BreakerTypeOK, CountFailure
  <1>9. ASSUME NEW t \in Threads, StampFailure(t)
        PROVE  BreakerTypeOK'
    <2>1. lag[t] \in 0..MaxAge
      BY DEF BreakerTypeOK, MaxAge
    <2> QED
      BY <1>9, <2>1 DEF BreakerTypeOK, StampFailure, States
  <1>10. CASE Tick
    <2>1. age' \in 0..MaxAge
      BY <1>10 DEF BreakerTypeOK, Tick, MaxAge
    <2>2. lag' \in [Threads -> 0..MaxLag]
      BY <1>10 DEF BreakerTypeOK, Tick
    <2> QED
      BY <1>10, <2>1, <2>2 DEF BreakerTypeOK, Tick
  <1>11. CASE SourceChanges
    BY <1>11 DEF BreakerTypeOK, SourceChanges, breaker
  <1>12. CASE UNCHANGED breakerVars
    BY <1>12 DEF BreakerTypeOK, breakerVars
  <1> QED
    BY <1>1, <1>2, <1>3, <1>4, <1>5, <1>6, <1>7, <1>8, <1>9, <1>10, <1>11, <1>12
       DEF BreakerNext, Evaluate, Fetched

\* The initial state has the types BreakerTypeOK names.
LEMMA BreakerTypeInit == BreakerInit => BreakerTypeOK
  BY ThresholdAssumption, CooldownAssumption, MaxLagAssumption
     DEF BreakerInit, BreakerTypeOK, States, MaxAge

\* The variables of a breaker and its threads keep their types.
THEOREM BreakerTypeCorrect == BreakerSpec => []BreakerTypeOK
  BY BreakerTypeInit, BreakerTypeStep, PTL DEF BreakerSpec

\* Only GoHalfOpen enters HALF_OPEN, and its thread has seen the cooldown pass;
\* only StampFailure lets age fall, and it never leaves HALF_OPEN behind.
LEMMA CooldownStep == BreakerTypeOK /\ CooldownServed /\ [BreakerNext]_breakerVars => CooldownServed'
  <1> SUFFICES ASSUME BreakerTypeOK, CooldownServed, [BreakerNext]_breakerVars
               PROVE  CooldownServed'
    OBVIOUS
  <1> USE ThresholdAssumption, CooldownAssumption, MaxLagAssumption
  <1>1. ASSUME NEW t \in Threads, GoHalfOpen(t)
        PROVE  CooldownServed'
    <2>1. age >= Cooldown
      BY <1>1 DEF GoHalfOpen, CooledDown, BreakerTypeOK, MaxAge
    <2> QED
      BY <1>1, <2>1 DEF GoHalfOpen, CooldownServed
  <1>2. ASSUME NEW t \in Threads, StampFailure(t)
        PROVE  CooldownServed'
    BY <1>2 DEF StampFailure, CooldownServed
  <1>3. ASSUME NEW t \in Threads, RecordSuccess(t)
        PROVE  CooldownServed'
    BY <1>3 DEF RecordSuccess, ResetBreaker, CooldownServed
  <1>4. CASE Tick
    BY <1>4 DEF Tick, CooldownServed, BreakerTypeOK, MaxAge
  <1>5. CASE UNCHANGED <<state, age>>
    BY <1>5 DEF CooldownServed
  <1>6. ASSUME NEW t \in Threads,
               Begin(t) \/ ReadSettled(t) \/ ReadOpen(t) \/ StayOpen(t)
                 \/ AnswerAfterLog(t) \/ CountFailure(t)
        PROVE  UNCHANGED <<state, age>>
    BY <1>6 DEF Begin, ReadSettled, ReadOpen, StayOpen, AnswerAfterLog,
                CountFailure, breaker
  <1>7. SourceChanges \/ UNCHANGED breakerVars => UNCHANGED <<state, age>>
    BY DEF SourceChanges, breakerVars, breaker
  <1> QED
    BY <1>1, <1>2, <1>3, <1>4, <1>5, <1>6, <1>7 DEF BreakerNext, Evaluate, Fetched

\* A breaker in HALF_OPEN has served its cooldown since the failure it was last
\* stamped with: no interleaving of record_failure, record_success and the state
\* property lets a test request through early.
THEOREM CooldownAlwaysServed == BreakerSpec => []CooldownServed
  <1>1. BreakerInit => CooldownServed
    BY DEF BreakerInit, CooldownServed
  <1> QED
    BY <1>1, CooldownStep, BreakerTypeCorrect, PTL DEF BreakerSpec

-----------------------------------------------------------------------------
(***************************************************************************)
(* One caller.  The breaker then implements BreakerContract.  The proof    *)
(* needs where the state can be while the caller stands at each point, and *)
(* that a closed breaker has counted fewer failures than Threshold.        *)
(***************************************************************************)

SerialInv(r) ==
    /\ goal[r] = "run"
    /\ at[r] = "cool" => state = "open"
    /\ at[r] = "answer" => state = "half_open"
    /\ at[r] \in {"fetch", "stamp"} => state # "open"
    /\ at[r] = "stamp" => failures > 0
    /\ state = "closed" /\ at[r] # "stamp" => failures < Threshold

\* The set of stamping callers is {r} or empty.
LEMMA StampingOfOne ==
    ASSUME NEW r, Runners = {r}
    PROVE  Stamping = IF at[r] = "stamp" THEN 1 ELSE 0
  <1> DEFINE S == {t \in Runners : at[t] = "stamp"}
  <1>1. CASE at[r] = "stamp"
    <2>1. S = {r}
      BY <1>1
    <2> QED
      BY <1>1, <2>1, FS_Singleton DEF Stamping
  <1>2. CASE at[r] # "stamp"
    <2>1. S = {}
      BY <1>2
    <2> QED
      BY <1>2, <2>1, FS_EmptySet DEF Stamping
  <1> QED
    BY <1>1, <1>2

\* The same, of the state a step leads to.
LEMMA StampingOfOnePrime ==
    ASSUME NEW r, Runners = {r}
    PROVE  Stamping' = IF at'[r] = "stamp" THEN 1 ELSE 0
  <1> DEFINE S == {t \in Runners : at'[t] = "stamp"}
  <1>1. CASE at'[r] = "stamp"
    <2>1. S = {r}
      BY <1>1
    <2> QED
      BY <1>1, <2>1, FS_Singleton DEF Stamping
  <1>2. CASE at'[r] # "stamp"
    <2>1. S = {}
      BY <1>2
    <2> QED
      BY <1>2, <2>1, FS_EmptySet DEF Stamping
  <1> QED
    BY <1>1, <1>2

\* SerialInv is inductive when r is the only thread.
LEMMA SerialStep ==
    ASSUME NEW r, Runners = {r}, Probers = {},
           BreakerTypeOK, SerialInv(r), [BreakerNext]_breakerVars
    PROVE  SerialInv(r)'
  <1> USE ThresholdAssumption, CooldownAssumption, MaxLagAssumption
  <1>1. Threads = {r}
    BY DEF Threads
  <1>2. CASE Begin(r)
    BY <1>1, <1>2 DEF BreakerTypeOK, SerialInv, Begin, breaker
  <1>3. CASE ReadSettled(r)
    BY <1>1, <1>3 DEF BreakerTypeOK, SerialInv, ReadSettled, Answered, breaker
  <1>4. CASE ReadOpen(r)
    BY <1>1, <1>4 DEF BreakerTypeOK, SerialInv, ReadOpen, breaker
  <1>5. CASE GoHalfOpen(r)
    BY <1>1, <1>5 DEF BreakerTypeOK, SerialInv, GoHalfOpen
  <1>6. CASE StayOpen(r)
    BY <1>1, <1>6 DEF BreakerTypeOK, SerialInv, StayOpen, Answered, breaker
  <1>7. CASE AnswerAfterLog(r)
    BY <1>1, <1>7 DEF BreakerTypeOK, SerialInv, AnswerAfterLog, Answered, breaker
  <1>8. CASE RecordSuccess(r)
    BY <1>1, <1>8 DEF BreakerTypeOK, SerialInv, RecordSuccess, ResetBreaker
  <1>9. CASE CountFailure(r)
    BY <1>1, <1>9 DEF BreakerTypeOK, SerialInv, CountFailure
  <1>10. CASE StampFailure(r)
    BY <1>1, <1>10 DEF BreakerTypeOK, SerialInv, StampFailure
  <1>11. CASE Tick
    BY <1>11 DEF SerialInv, Tick
  <1>12. CASE SourceChanges \/ UNCHANGED breakerVars
    BY <1>12 DEF SerialInv, SourceChanges, breakerVars, breaker
  <1> QED
    BY <1>1, <1>2, <1>3, <1>4, <1>5, <1>6, <1>7, <1>8, <1>9, <1>10, <1>11, <1>12
       DEF BreakerNext, Evaluate, Fetched

\* Each step of the only caller is a step of the contract or a stutter: a
\* failure happens for the contract when it is stamped, HALF_OPEN when the
\* cooldown is seen to be over, and the rest of the protocol is invisible.
LEMMA ContractStep ==
    ASSUME NEW r, Runners = {r}, Probers = {},
           BreakerTypeOK, SerialInv(r), [BreakerNext]_breakerVars
    PROVE  [Contract!Next]_(Contract!contractVars)
  <1> USE ThresholdAssumption, CooldownAssumption, MaxLagAssumption
  <1>1. Threads = {r}
    BY DEF Threads
  <1>2. Stamping = IF at[r] = "stamp" THEN 1 ELSE 0
    BY StampingOfOne
  <1>3. Stamping' = IF at'[r] = "stamp" THEN 1 ELSE 0
    BY StampingOfOnePrime
  <1>4. ASSUME UNCHANGED <<state, age, failures>>, at[r] # "stamp", at'[r] # "stamp"
        PROVE  UNCHANGED Contract!contractVars
    BY <1>2, <1>3, <1>4 DEF Contract!contractVars, Streak
  <1>5. CASE Begin(r) \/ ReadSettled(r) \/ ReadOpen(r) \/ StayOpen(r)
               \/ AnswerAfterLog(r)
    <2>1. UNCHANGED <<state, age, failures>> /\ at[r] # "stamp" /\ at'[r] # "stamp"
      BY <1>1, <1>5 DEF BreakerTypeOK, Begin, ReadSettled, ReadOpen, StayOpen,
                        AnswerAfterLog, Answered, breaker
    <2> QED
      BY <1>4, <2>1
  <1>6. CASE GoHalfOpen(r)
    <2>1. state = "open" /\ age >= Cooldown
      BY <1>1, <1>6 DEF SerialInv, GoHalfOpen, CooledDown, BreakerTypeOK, MaxAge
    <2>2. Streak' = Streak
      BY <1>6, <2>1 DEF GoHalfOpen, Streak
    <2> QED
      BY <1>6, <2>1, <2>2 DEF GoHalfOpen, Contract!Next, Contract!CooldownOver
  <1>7. CASE RecordSuccess(r)
    <2>1. state # "open" /\ state' = "closed" /\ failures' = 0 /\ age' = age
      BY <1>7 DEF SerialInv, RecordSuccess, ResetBreaker
    <2>2. Streak' = 0
      <3>1. at'[r] # "stamp"
        BY <1>1, <1>7 DEF RecordSuccess, BreakerTypeOK
      <3>2. Stamping' = 0
        BY <1>3, <3>1
      <3> QED
        BY <2>1, <3>2 DEF Streak
    <2> QED
      BY <2>1, <2>2 DEF Contract!Next, Contract!Success
  <1>8. CASE CountFailure(r)
    <2>1. state = "closed" => failures' = failures + 1
      BY <1>8 DEF SerialInv, CountFailure, BreakerTypeOK
    <2>2. at[r] # "stamp" /\ at'[r] = "stamp" /\ UNCHANGED <<state, age>>
      BY <1>1, <1>8 DEF SerialInv, CountFailure, BreakerTypeOK
    <2>3. Streak' = Streak
      BY <1>2, <1>3, <2>1, <2>2 DEF Streak, BreakerTypeOK
    <2> QED
      BY <2>2, <2>3 DEF Contract!contractVars
  <1>9. CASE StampFailure(r)
    <2>1. state # "open" /\ at[r] = "stamp" /\ failures' = failures
      BY <1>9 DEF SerialInv, StampFailure
    <2>2. at'[r] # "stamp"
      BY <1>1, <1>9 DEF StampFailure, BreakerTypeOK
    <2>3. age' \in 0..MaxLag
      BY <1>1, <1>9 DEF StampFailure, BreakerTypeOK
    <2>4. failures \in 0..Threshold
      BY DEF BreakerTypeOK
    <2>5. state = "closed" => Streak + 1 = failures
      BY <1>2, <2>1, <2>4 DEF Streak
    <2>6. CASE state = "half_open" \/ Streak + 1 = Threshold
      <3>1. state' = "open"
        BY <1>9, <2>1, <2>4, <2>5, <2>6 DEF StampFailure, BreakerTypeOK, States
      <3> QED
        BY <2>1, <2>3, <2>6, <3>1 DEF Contract!Next, Contract!Failure, Streak
    <2>7. CASE ~(state = "half_open" \/ Streak + 1 = Threshold)
      <3>1. state = "closed" /\ state' = "closed"
        BY <1>9, <2>1, <2>4, <2>5, <2>7 DEF StampFailure, BreakerTypeOK, States
      <3>2. Streak' = Streak + 1
        BY <1>3, <2>1, <2>2, <2>4, <2>5, <3>1 DEF Streak
      <3> QED
        BY <2>1, <2>3, <2>7, <3>1, <3>2 DEF Contract!Next, Contract!Failure
    <2> QED
      BY <2>6, <2>7
  <1>10. CASE Tick
    <2>1. Streak' = Streak
      BY <1>2, <1>3, <1>10 DEF Tick, Streak
    <2>2. CASE age < MaxAge
      BY <1>10, <2>1, <2>2 DEF Tick, Contract!Next, Contract!TimePasses,
                               MaxAge, Contract!MaxAge
    <2>3. CASE ~(age < MaxAge)
      BY <1>10, <2>1, <2>3 DEF Tick, Contract!contractVars
    <2> QED
      BY <2>2, <2>3
  <1>11. CASE SourceChanges \/ UNCHANGED breakerVars
    BY <1>2, <1>3, <1>11 DEF SourceChanges, breakerVars, breaker, Contract!contractVars, Streak
  <1> QED
    BY <1>1, <1>5, <1>6, <1>7, <1>8, <1>9, <1>10, <1>11 DEF BreakerNext, Evaluate, Fetched

\* A breaker used by one thread implements BreakerContract, for every
\* threshold, cooldown and preemption bound.
THEOREM SerialBreakerImplementsContract ==
    ASSUME NEW r, Runners = {r}, Probers = {}
    PROVE  BreakerSpec => ImplementsContract
  <1> USE ThresholdAssumption, CooldownAssumption, MaxLagAssumption
  <1>1. BreakerInit => SerialInv(r)
    BY DEF BreakerInit, SerialInv, Threads
  <1>2. BreakerInit => Contract!Init
    <2> SUFFICES ASSUME BreakerInit PROVE Contract!Init
      OBVIOUS
    <2>1. Stamping = 0
      BY StampingOfOne DEF BreakerInit, Threads
    <2> QED
      BY <2>1 DEF BreakerInit, Contract!Init, Streak, MaxAge, Contract!MaxAge
  <1>3. BreakerTypeOK /\ SerialInv(r) /\ [BreakerNext]_breakerVars => SerialInv(r)'
    BY SerialStep
  <1>4. BreakerTypeOK /\ SerialInv(r) /\ [BreakerNext]_breakerVars
          => [Contract!Next]_(Contract!contractVars)
    BY ContractStep
  <1> QED
    BY <1>1, <1>2, <1>3, <1>4, BreakerTypeCorrect, PTL
       DEF BreakerSpec, ImplementsContract, Contract!Spec
=============================================================================
