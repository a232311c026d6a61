---------------------------- MODULE Correlation ----------------------------
(***************************************************************************)
(* Signal correlation and the composite events made of it.  Two callers in *)
(* the worker process run the same pass over the signals table without a   *)
(* lock: the event-driven pipeline worker                                  *)
(* (intelligence/pipeline_worker.py) and the scheduled correlation_job     *)
(* (scheduler/jobs.py).  Every await of a pass lets the other one go on.   *)
(*                                                                         *)
(* A pass reads the unclustered signals, groups them in memory             *)
(* (UnionFind.tla is that algorithm), writes one UPDATE per cluster and    *)
(* hands the clusters to the composite detector.  Its cluster ids are      *)
(* fresh uuids: here the number of the pass and the members.  The graph    *)
(* edges of a cluster are written best-effort and left out; the texts and  *)
(* weights of a composite event are data, but not the type of its time, on *)
(* which its insertion depends.  A pass that finds no pair returns with    *)
(* nothing changed.                                                        *)
(***************************************************************************)
EXTENDS Integers, FiniteSets, FiniteSetsExt

CONSTANTS
    Signals,    \* signal ids with an embedding
    SourceOf,   \* SourceOf[s]
    Score,      \* Score[{s, t}]: composite pair score of two signals, percent
    Engines,    \* the concurrent callers
    Pipelines,  \* those that are the pipeline worker
    MinSignals, \* settings.correlation_min_signals
    MinSources, \* settings.correlation_min_sources
    Faults,     \* statements and messages may fail, the process may die
    MaxPasses   \* bound: passes that form clusters

PairThreshold == 50
MinScore == 60

ASSUME PassBound == MaxPasses \in Nat
ASSUME PipelinesAssumption == Pipelines \subseteq Engines

Passes == 1..MaxPasses
NoCluster == [pass |-> 0, members |-> {}]
Clusters == [pass : Passes, members : SUBSET Signals]

VARIABLES
    age,        \* age[s]: not in the table, in the time window, too old for it
    assigned,   \* assigned[s]: the cluster_id column
    passes,     \* passes that formed clusters so far
    pc,         \* pc[e]: where the pass of engine e stands
    found,      \* found[e]: the clusters of that pass
    todo,       \* todo[e]: those whose UPDATE is not executed yet
    composites, \* clusters with a composite event in the events table
    detected,   \* history: clusters that the detector found to qualify
    missed,     \* history: clusters whose UPDATE failed
    raced       \* history: <<p, q>>, pass q read while p was still assigning

engine == <<pc, found, todo>>
vars == <<age, assigned, passes, engine, composites, detected, missed, raced>>

TypeOK ==
    /\ age \in [Signals -> {"absent", "fresh", "old"}]
    /\ assigned \in [Signals -> Clusters \cup {NoCluster}]
    /\ passes \in 0..MaxPasses
    /\ pc \in [Engines -> {"idle", "assigning", "announcing", "detecting"}]
    /\ found \in [Engines -> SUBSET Clusters]
    /\ todo \in [Engines -> SUBSET Clusters]
    /\ composites \in SUBSET Clusters /\ detected \in SUBSET Clusters
    /\ missed \in SUBSET Clusters
    /\ raced \in SUBSET (Passes \X Passes)

Init ==
    /\ age = [s \in Signals |-> "absent"]
    /\ assigned = [s \in Signals |-> NoCluster]
    /\ passes = 0
    /\ pc = [e \in Engines |-> "idle"]
    /\ found = [e \in Engines |-> {}]
    /\ todo = [e \in Engines |-> {}]
    /\ composites = {} /\ detected = {}
    /\ missed = {}
    /\ raced = {}

-----------------------------------------------------------------------------

Linked(s, t) == s # t /\ Score[{s, t}] >= PairThreshold

\* No pair above the threshold leads out of C.
Closed(C, S) == \A s \in C, t \in S : Linked(s, t) => t \in C

\* The set that union-find builds around s: the smallest closed one.
GroupOf(s, S) == {t \in S : \A C \in SUBSET S : s \in C /\ Closed(C, S) => t \in C}

\* Groups of a single signal are skipped.
Groups(S) == {g \in {GroupOf(s, S) : s \in S} : \E s, t \in g : s # t}

\* Mutant of Unclustered: the cluster_id IS NULL condition is missing.
UnclusteredOrNot == {s \in Signals : age[s] = "fresh"}

\* SignalRepository.find_unclustered
Unclustered == {s \in Signals : age[s] = "fresh" /\ assigned[s] = NoCluster}

\* CompositeEventDetector._qualifies
PairsOf(c) == {p \in kSubset(2, c.members) : Score[p] >= PairThreshold}

Qualifies(c) ==
    /\ Cardinality(c.members) >= MinSignals
    /\ Cardinality({SourceOf[s] : s \in c.members}) >= MinSources
    /\ MapThenSumSet(LAMBDA p : Score[p], PairsOf(c))
           >= MinScore * Cardinality(PairsOf(c))

\* Ingest inserts a signal; on_conflict_do_nothing keeps the row it has.
Arrive(s) ==
    /\ age[s] = "absent"
    /\ age' = [age EXCEPT ![s] = "fresh"]
    /\ UNCHANGED <<assigned, passes, engine, composites, detected, missed, raced>>

\* A signal gets older than the correlation window.
Expire(s) ==
    /\ age[s] = "fresh"
    /\ age' = [age EXCEPT ![s] = "old"]
    /\ UNCHANGED <<assigned, passes, engine, composites, detected, missed, raced>>

AssigningPasses == {c.pass : c \in UNION {todo[e] : e \in Engines}}

\* Steps 1 to 5 of correlate(): nothing is awaited after the SELECT.
Correlate(e) ==
    /\ pc[e] = "idle"
    /\ passes < MaxPasses
    /\ Groups(Unclustered) # {}
    /\ passes' = passes + 1
    /\ pc' = [pc EXCEPT ![e] = "assigning"]
    /\ LET new == [pass : {passes + 1}, members : Groups(Unclustered)]
       IN  /\ found' = [found EXCEPT ![e] = new]
           /\ todo' = [todo EXCEPT ![e] = new]
    /\ raced' = raced \cup (AssigningPasses \X {passes + 1})
    /\ UNCHANGED <<age, assigned, composites, detected, missed>>

\* Mutant of AfterUpdate: the pass goes on after its first UPDATE.
AfterFirstUpdate(e, c) ==
    /\ todo' = [todo EXCEPT ![e] = @ \ {c}]
    /\ pc' = [pc EXCEPT ![e] = IF e \in Pipelines THEN "announcing" ELSE "detecting"]
    /\ UNCHANGED <<age, passes, found, composites, detected, raced>>

\* Step 6 is over with its last cluster; the pipeline worker publishes
\* correlation_complete before it goes on, the scheduled job after detection.
AfterUpdate(e, c) ==
    /\ todo' = [todo EXCEPT ![e] = @ \ {c}]
    /\ pc' = [pc EXCEPT ![e] =
                 IF todo[e] # {c} THEN "assigning"
                 ELSE IF e \in Pipelines THEN "announcing" ELSE "detecting"]
    /\ UNCHANGED <<age, passes, found, composites, detected, raced>>

\* SignalRepository.update_cluster: whatever cluster_id the rows hold by now.
UpdateCluster(e, c) ==
    /\ pc[e] = "assigning"
    /\ c \in todo[e]
    /\ assigned' = [s \in Signals |-> IF s \in c.members THEN c ELSE assigned[s]]
    /\ AfterUpdate(e, c)
    /\ UNCHANGED missed

\* The UPDATE fails: logged, and the cluster is returned all the same.
UpdateFails(e, c) ==
    /\ Faults
    /\ pc[e] = "assigning"
    /\ c \in todo[e]
    /\ missed' = missed \cup {c}
    /\ AfterUpdate(e, c)
    /\ UNCHANGED assigned

Announce(e) ==
    /\ pc[e] = "announcing"
    /\ pc' = [pc EXCEPT ![e] = "detecting"]
    /\ UNCHANGED <<age, assigned, passes, found, todo, composites, detected, missed, raced>>

\* correlate() and detect() have returned to the caller.
EndPass(e) ==
    /\ pc' = [pc EXCEPT ![e] = "idle"]
    /\ found' = [found EXCEPT ![e] = {}]
    /\ UNCHANGED <<age, assigned, passes, todo, missed, raced>>

\* The time of a composite event is that of its representative signal as
\* find_unclustered reads it, a datetime and not the text that _parse_dt expects.
RepresentativeTime(c) == "datetime"

Parses(time) == time = "text"

\* The rows of the upsert, one statement for all: _parse_dt raises where it is
\* given a datetime, and nothing is stored.
Written(clusters) == IF \A c \in clusters : Parses(RepresentativeTime(c)) THEN clusters ELSE {}

\* The callers catch what the detector raises.
Detect(e) ==
    /\ pc[e] = "detecting"
    /\ LET qualifying == {c \in found[e] : Qualifies(c)}
       IN  /\ detected' = detected \cup qualifying
           /\ composites' = composites \cup Written(qualifying)
    /\ EndPass(e)

\* Publishing raises, and _run_correlation answers with an empty list; or the
\* upsert of the composite events fails.
PassFails(e) ==
    /\ Faults
    /\ pc[e] \in {"announcing", "detecting"}
    /\ EndPass(e)
    /\ UNCHANGED <<composites, detected>>

\* The worker process dies with every pass under way.
Crash ==
    /\ Faults
    /\ \E e \in Engines : pc[e] # "idle"
    /\ pc' = [e \in Engines |-> "idle"]
    /\ found' = [e \in Engines |-> {}]
    /\ todo' = [e \in Engines |-> {}]
    /\ UNCHANGED <<age, assigned, passes, composites, detected, missed, raced>>

\* Nothing is left to correlate, or the bound on passes is reached.
Exhausted ==
    /\ \A e \in Engines : pc[e] = "idle"
    /\ UNCHANGED vars

Pass(e) ==
    \/ Correlate(e) \/ Announce(e) \/ Detect(e) \/ PassFails(e)
    \/ \E c \in todo[e] : UpdateCluster(e, c) \/ UpdateFails(e, c)

Next ==
    \/ \E e \in Engines : Pass(e)
    \/ \E s \in Signals : Arrive(s) \/ Expire(s)
    \/ Crash \/ Exhausted

Spec == Init /\ [][Next]_vars

-----------------------------------------------------------------------------

\* No signal is handed over for promotion twice, unless the UPDATE of one of
\* the two clusters failed or one pass read the table while the other was
\* assigning: a completed pass is never repeated on the same signals.
OverlapExplained ==
    \A c, d \in detected :
        c # d /\ c.members \cap d.members # {} =>
            \/ c \in missed \/ d \in missed
            \/ <<c.pass, d.pass>> \in raced \/ <<d.pass, c.pass>> \in raced

\* The signals of a cluster that qualifies never come back to a later pass,
\* unless their UPDATE failed.
DetectedAreClustered ==
    \A c \in detected \ missed : \A s \in c.members : assigned[s] # NoCluster

\* Qualifying clusters are promoted into composite events (the header of
\* composite_detector.py).  None is: the insertion raises.
QualifyingPromoted == detected \subseteq composites
=============================================================================
