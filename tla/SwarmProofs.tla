---------------------------- MODULE SwarmProofs ----------------------------
(***************************************************************************)
(* That the outcomes of missions agree (OutcomesAgree of Swarm), that the  *)
(* table keeps the records of missions under way (RecordsKept) and that    *)
(* undisturbed calls to the provider are right (CalmCalls of LLMProvider), *)
(* and that no call asks more models than its list has (TypeOK of Swarm),  *)
(* for any number of missions, clients, providers and models, of agents    *)
(* that leave, and of requests that reconfigure the provider.              *)
(*                                                                         *)
(* All missions share the six agents and overwrite their status, so which  *)
(* agents show "working" says little while several missions run.  What is  *)
(* inductive is one direction: an agent that shows it is busy for some     *)
(* mission, at the await where that mission stands.                        *)
(***************************************************************************)
EXTENDS Swarm, FiniteSetTheorems, WellFoundedInduction, TLAPS

\* The agents at work for a mission with record r.
Busy(r) ==
    IF r.awaits = "ingestion" THEN {"coordinator", "ingestion"}
    ELSE IF r.awaits \in {"analysis", "insights"} THEN {"coordinator", "analysis"}
    ELSE IF r.awaits \in {"graph", "detectors"} THEN {"coordinator"} \cup r.helpers
    ELSE IF r.awaits \in {"database", "brief"} THEN {"coordinator"}
    ELSE {}

\* A record whose fields fit each other, given whether its events are stored.
Coherent(r, inDatabase) ==
    /\ r \in Record
    /\ r.status = "running" <=> r.awaits # "nothing"
    /\ r.status = "new" => r.stage = "starting"
    /\ r.awaits = "success" \/ r.status = "completed" => r.stage = "complete"
    /\ r.awaits = "failure" => r.stage = "failed"
    /\ r.status = "failed" => r.stage \in {"starting", "failed"}
    /\ r.reported => inDatabase

IInv ==
    /\ mission \in [Missions -> Record]
    /\ \A m \in Missions : Coherent(mission[m], m \in stored)
    /\ \A a \in working : \E m \in Missions : a \in Busy(mission[m])

-----------------------------------------------------------------------------
\* The invariant implies the property: without a mission under way nobody is busy.
LEMMA InvariantSuffices == IInv => OutcomesAgree
BY DEF IInv, Coherent, Busy, OutcomesAgree

\* No mission has begun.
LEMMA InitEstablishes == Init => IInv
BY DEF Init, IInv, Coherent, Busy, NewRecord, Record, Stages

\* A step of one mission keeps the invariant if its new record is coherent and
\* only agents that are busy for it, or for others, go on showing that they work.
LEMMA StepOfOne ==
    ASSUME IInv, NEW m \in Missions, NEW r,
           mission' = [mission EXCEPT ![m] = r],
           Coherent(r, m \in stored'),
           stored \subseteq stored',
           working' \subseteq Busy(r) \cup (working \ Busy(mission[m]))
    PROVE  IInv'
<1>1. mission' \in [Missions -> Record] /\ mission'[m] = r
  BY DEF IInv, Coherent
<1>2. \A n \in Missions : n # m => mission'[n] = mission[n]
  BY DEF IInv
<1>3. ASSUME NEW n \in Missions PROVE Coherent(mission'[n], n \in stored')
  <2>1. CASE n = m
    BY <2>1, <1>1
  <2>2. CASE n # m
    <3>1. Coherent(mission[n], n \in stored) /\ mission'[n] = mission[n]
      BY <2>2, <1>2 DEF IInv
    <3> QED
      BY <3>1 DEF Coherent
  <2> QED
    BY <2>1, <2>2
<1>4. ASSUME NEW a \in working' PROVE \E n \in Missions : a \in Busy(mission'[n])
  <2>1. CASE a \in Busy(r)
    BY <2>1, <1>1
  <2>2. CASE a \in working /\ a \notin Busy(mission[m])
    <3>1. PICK n \in Missions : a \in Busy(mission[n])
      BY <2>2 DEF IInv
    <3>2. n # m
      BY <3>1, <2>2
    <3> QED
      BY <3>1, <3>2, <1>2
  <2> QED
    BY <2>1, <2>2
<1> QED
  BY <1>1, <1>3, <1>4 DEF IInv

-----------------------------------------------------------------------------
\* A mission is added to the table, running or, without a coordinator, failed.
LEMMA StartPreserves ==
    ASSUME IInv, NEW m \in Missions, Start(m) PROVE IInv'
<1> DEFINE r == IF "coordinator" \in registered
                THEN [mission[m] EXCEPT !.status = "running", !.awaits = "task"]
                ELSE [mission[m] EXCEPT !.status = "failed"]
<1>1. Coherent(mission[m], m \in stored) /\ mission[m].status = "new"
  <2>1. m >= m
    BY MissionsAssumption, FS_CardinalityType
  <2> QED
    BY <2>1 DEF IInv, Start
<1>2. mission' = [mission EXCEPT ![m] = r]
  BY DEF Start
<1>3. Coherent(r, m \in stored')
  BY <1>1 DEF Coherent, Record, Start
<1>4. working' \subseteq Busy(r) \cup (working \ Busy(mission[m])) /\ stored \subseteq stored'
  BY <1>1 DEF Coherent, Busy, Start, Record
<1> QED
  BY <1>2, <1>3, <1>4, StepOfOne

\* One case for each action of a mission: the record it leaves is coherent, and
\* it takes the status from the agents that mission is done with.
LEMMA MissionStepPreserves ==
    ASSUME IInv, NEW m \in Missions, MissionStep(m) PROVE IInv'
<1> DEFINE Suits(r) == /\ mission' = [mission EXCEPT ![m] = r]
                       /\ Coherent(r, m \in stored')
                       /\ stored \subseteq stored'
                       /\ working' \subseteq Busy(r) \cup (working \ Busy(mission[m]))
                At(s, w) == [mission[m] EXCEPT !.stage = s, !.awaits = w]
<1>1. Coherent(mission[m], m \in stored) /\ mission[m] \in Record
  BY DEF IInv, Coherent
<1>2. ASSUME NEW r, Suits(r) PROVE IInv'
  BY <1>2, StepOfOne
<1>3. ASSUME NEW s, NEW w, Goes(m, s, w) PROVE mission' = [mission EXCEPT ![m] = At(s, w)]
  BY <1>3, <1>1 DEF Goes, Record, IInv
<1>a. CASE Ingest(m)
  <2>1. CASE "ingestion" \in registered
    <3>1. Suits(At("ingesting", "ingestion"))
      BY <1>a, <2>1, <1>1, <1>3 DEF Ingest, Coherent, Busy, Record, Stages
    <3> QED
      BY <3>1, <1>2
  <2>2. CASE "ingestion" \notin registered
    <3>1. Suits(At("failed", "failure"))
      BY <1>a, <2>2, <1>1, <1>3 DEF Ingest, Coherent, Busy, Record, Stages
    <3> QED
      BY <3>1, <1>2
  <2> QED
    BY <2>1, <2>2
<1>b. CASE NothingCollected(m)
  <2>1. Suits(At("complete", "success"))
    BY <1>b, <1>1, <1>3 DEF NothingCollected, Coherent, Busy, Record, Stages
  <2> QED
    BY <2>1, <1>2
<1>c. CASE Analyse(m)
  <2>1. CASE "analysis" \in registered
    <3>1. Suits(At("analyzing", "analysis"))
      BY <1>c, <2>1, <1>1, <1>3 DEF Analyse, Coherent, Busy, Record, Stages
    <3> QED
      BY <3>1, <1>2
  <2>2. CASE "analysis" \notin registered
    <3>1. Suits(At("failed", "failure"))
      BY <1>c, <2>2, <1>1, <1>3 DEF Analyse, Coherent, Busy, Record, Stages
    <3> QED
      BY <3>1, <1>2
  <2> QED
    BY <2>1, <2>2
<1>d. CASE AskInsights(m)
  <2>1. Suits(At("analyzing", "insights"))
    BY <1>d, <1>1, <1>3 DEF AskInsights, Coherent, Busy, Record, Stages
  <2> QED
    BY <2>1, <1>2
<1>e. CASE Persist(m)
  <2>1. Suits(At("persisting", "database"))
    BY <1>e, <1>1, <1>3 DEF Persist, Coherent, Busy, Record, Stages
  <2> QED
    BY <2>1, <1>2
<1>f. CASE StoreEvents(m)
  <2>1. PICK written \in BOOLEAN :
           /\ stored' = IF written THEN stored \cup {m} ELSE stored
           /\ mission' = [mission EXCEPT ![m].awaits = "graph", ![m].reported = Reported(written),
                 ![m].helpers = {"graph"} \cap registered]
    BY <1>f DEF StoreEvents
  <2> DEFINE r == [mission[m] EXCEPT !.awaits = "graph", !.reported = Reported(written),
                       !.helpers = {"graph"} \cap registered]
  <2>2. mission' = [mission EXCEPT ![m] = r]
    BY <2>1, <1>1 DEF IInv, Record
  <2>3. Coherent(r, m \in stored')
    BY <1>f, <2>1, <1>1 DEF StoreEvents, Coherent, Reported, Record, Stages, Agents
  <2>4. working' \subseteq Busy(r) \cup (working \ Busy(mission[m]))
    BY <1>f, <1>1 DEF StoreEvents, Busy, Record
  <2> QED
    BY <2>1, <2>2, <2>3, <2>4, <1>2
<1>g. CASE StartDetectors(m)
  <2> DEFINE r == [mission[m] EXCEPT !.stage = "detecting", !.awaits = "detectors",
                       !.helpers = Detectors \cap registered]
  <2>1. mission' = [mission EXCEPT ![m] = r]
    BY <1>g, <1>1 DEF StartDetectors, IInv, Record
  <2>2. Coherent(r, m \in stored')
    BY <1>g, <1>1 DEF StartDetectors, Coherent, Record, Stages, Agents, Detectors
  <2>3. working' \subseteq Busy(r) \cup (working \ Busy(mission[m])) /\ stored \subseteq stored'
    BY <1>g, <1>1 DEF StartDetectors, Busy, Record
  <2> QED
    BY <2>1, <2>2, <2>3, <1>2
<1>h. ASSUME NEW a \in Detectors, Detected(m, a) PROVE IInv'
  <2> DEFINE r == [mission[m] EXCEPT !.helpers = @ \ {a}]
  <2>1. mission' = [mission EXCEPT ![m] = r]
    BY <1>h, <1>1 DEF Detected, IInv, Record
  <2>2. Coherent(r, m \in stored')
    BY <1>h, <1>1 DEF Detected, Coherent, Record
  <2>3. working' \subseteq Busy(r) \cup (working \ Busy(mission[m])) /\ stored \subseteq stored'
    BY <1>h, <1>1 DEF Detected, Busy, Record
  <2> QED
    BY <2>1, <2>2, <2>3, <1>2
<1>i. CASE AskBrief(m)
  <2>1. Suits(At("complete", "brief"))
    BY <1>i, <1>1, <1>3 DEF AskBrief, Coherent, Busy, Record, Stages
  <2> QED
    BY <2>1, <1>2
<1>j. CASE Brief(m)
  <2>1. Suits(At("complete", "success"))
    BY <1>j, <1>1, <1>3 DEF Brief, Coherent, Busy, Record, Stages
  <2> QED
    BY <2>1, <1>2
<1>k. CASE Finish(m)
  <2> DEFINE r == [mission[m] EXCEPT !.status = Outcome(mission[m].awaits), !.awaits = "nothing"]
  <2>1. mission' = [mission EXCEPT ![m] = r]
    BY <1>k, <1>1 DEF Finish, IInv, Record
  <2>2. Coherent(r, m \in stored')
    BY <1>k, <1>1 DEF Finish, Coherent, Outcome, Record
  <2>3. working' \subseteq Busy(r) \cup (working \ Busy(mission[m])) /\ stored \subseteq stored'
    BY <1>k, <1>1 DEF Finish, Busy, Record
  <2> QED
    BY <2>1, <2>2, <2>3, <1>2
<1> QED
  BY <1>a, <1>b, <1>c, <1>d, <1>e, <1>f, <1>g, <1>h, <1>i, <1>j, <1>k DEF MissionStep

\* What the invariant speaks of is left alone by everybody else.
LEMMA OthersPreserve ==
    ASSUME IInv, UNCHANGED <<mission, working, stored>> PROVE IInv'
BY DEF IInv, Coherent, Busy

LEMMA NextPreserves ==
    ASSUME IInv, [Next]_vars PROVE IInv'
<1>1. ASSUME NEW m \in Missions, Start(m) PROVE IInv'
  BY <1>1, StartPreserves
<1>2. ASSUME NEW m \in Missions, MissionStep(m) PROVE IInv'
  BY <1>2, MissionStepPreserves
<1>3. ASSUME NEW c \in Callers, Answer(c) PROVE IInv'
  BY <1>3, OthersPreserve DEF Answer, swarm
<1>4. ASSUME NEW c \in Clients, Request(c) PROVE IInv'
  BY <1>4, OthersPreserve DEF Request, swarm
<1>5. ASSUME NEW a \in Removable, Unregister(a) PROVE IInv'
  BY <1>5, OthersPreserve DEF Unregister
<1>6. CASE Done
  BY <1>6, OthersPreserve DEF Done, vars, swarm
<1>7. CASE UNCHANGED vars
  BY <1>7, OthersPreserve DEF vars, swarm
<1> QED
  BY <1>1, <1>2, <1>3, <1>4, <1>5, <1>6, <1>7 DEF Next

\* What a finished mission shows agrees, nothing is reported that is not stored,
\* and when all missions have finished no agent shows that it works, however
\* many missions share the agents (agents/swarm.py, agents/coordinator_agent.py).
THEOREM OutcomesAlwaysAgree == Spec => []OutcomesAgree
<1>1. Init => IInv
  BY InitEstablishes
<1>2. IInv /\ [Next]_vars => IInv'
  BY NextPreserves
<1>3. IInv => OutcomesAgree
  BY InvariantSuffices
<1> QED
  BY <1>1, <1>2, <1>3, PTL DEF Spec

-----------------------------------------------------------------------------
\* Nothing in the table is new: with IInv, what is there runs or is finished.
TableInv == IInv /\ table \subseteq {m \in Missions : mission[m].status # "new"}

LEMMA FirstMission ==
    ASSUME NEW T \in SUBSET Missions, T # {}
    PROVE  \E m \in T : \A n \in T : m <= n
<1>1. Missions \subseteq Nat
  BY MissionsAssumption, FS_CardinalityType
<1>2. IsWellFoundedOn(OpToRel(<, Nat), Nat)
  BY NatLessThanWellFounded
<1>3. PICK m \in T : \A n \in T : ~(<<n, m>> \in OpToRel(<, Nat))
  BY <1>1, <1>2, WFMin
<1>4. \A n \in T : ~(n < m)
  BY <1>1, <1>3 DEF OpToRel
<1> QED
  BY <1>1, <1>4

\* What is kept of the finished missions is younger than what is evicted, and
\* if one is kept, as many were evicted as had to go: the first one kept has
\* only evicted ones before it.
LEMMA OldestGo ==
    ASSUME table \subseteq Missions
    PROVE  /\ \A m \in Evicted, n \in Finished : n < m => n \in Evicted
           /\ Finished \ Evicted # {} =>
                 Cardinality(Evicted) >= Cardinality(table) - MaxMissions + 1
<1> DEFINE Before(m) == {n \in Finished : n < m}
           surplus == Cardinality(table) - MaxMissions + 1
<1>1. Missions \subseteq Nat /\ IsFiniteSet(Missions) /\ Finished \subseteq Missions
  BY MissionsAssumption, FS_CardinalityType DEF Finished
<1>2. IsFiniteSet(Finished) /\ IsFiniteSet(table)
  BY <1>1, FS_Subset
<1>3. Cardinality(table) \in Nat /\ surplus \in Int
  BY <1>2, FS_CardinalityType, MissionsAssumption
<1>4. \A m : m \in Evicted <=> m \in Finished /\ Cardinality(Before(m)) < surplus
  BY DEF Evicted
<1>5. \A m \in Missions : IsFiniteSet(Before(m)) /\ Cardinality(Before(m)) \in Nat
  BY <1>2, FS_Subset, FS_CardinalityType
<1>b. \A m, n : n \in Before(m) <=> n \in Finished /\ n < m
  OBVIOUS
<1> HIDE DEF Before, surplus
<1>6. ASSUME NEW m \in Evicted, NEW n \in Finished, n < m PROVE n \in Evicted
  <2>1. Before(n) \subseteq Before(m) /\ m \in Missions /\ n \in Missions
    <3>1. m \in Finished /\ m \in Nat /\ n \in Nat /\ \A k \in Finished : k \in Nat
      BY <1>1, <1>4, <1>6
    <3>2. ASSUME NEW k \in Before(n) PROVE k \in Before(m)
      <4>1. k \in Finished /\ k < n
        BY <1>b
      <4>2. k < m
        BY <4>1, <3>1, <1>6
      <4> QED
        BY <4>1, <4>2, <1>b
    <3> QED
      BY <3>1, <3>2, <1>1
  <2>2. Cardinality(Before(n)) <= Cardinality(Before(m))
    BY <2>1, <1>5, FS_Subset
  <2> QED
    BY <2>1, <2>2, <1>3, <1>4, <1>5
<1>7. ASSUME Finished \ Evicted # {} PROVE Cardinality(Evicted) >= surplus
  <2>1. PICK k \in Finished \ Evicted : \A n \in Finished \ Evicted : k <= n
    BY <1>1, <1>7, FirstMission
  <2>2. Before(k) \subseteq Evicted
    <3>1. \A n \in Finished : n \in Nat
      BY <1>1
    <3> QED
      BY <2>1, <1>b, <3>1
  <2>3. IsFiniteSet(Evicted) /\ Cardinality(Evicted) \in Nat /\ Cardinality(Before(k)) <= Cardinality(Evicted)
    BY <2>2, <1>2, <1>4, FS_Subset, FS_CardinalityType
  <2> QED
    BY <2>1, <2>3, <1>1, <1>3, <1>4, <1>5
<1> QED
  BY <1>6, <1>7 DEF surplus

\* A start evicts finished missions only, the oldest first, and goes beyond the
\* limit only if no finished one is left.
LEMMA StartKeeps ==
    ASSUME TableInv, NEW m \in Missions, Start(m)
    PROVE  /\ \A n \in table \ table' :
                 /\ mission[n].status \in {"completed", "failed"}
                 /\ \A k \in table : k < n => k \in table \ table' \/ mission[k].status = "running"
           /\ Cardinality(table') > MaxMissions =>
                 \A n \in table \cap table' : mission[n].status = "running"
<1>1. table \subseteq Missions /\ \A n \in table : mission[n].status \in {"running", "completed", "failed"}
  BY DEF TableInv, IInv, Record
<1>2. m \notin table
  <2>1. mission[m].status = "new"
    BY MissionsAssumption, FS_CardinalityType DEF Start
  <2> QED
    BY <2>1 DEF TableInv
<1>3. table' = (table \ Evicted) \cup {m} /\ Evicted \subseteq Finished /\ Finished \subseteq table
  BY DEF Start, Evicted, Finished
<1>4. table \ table' = Evicted /\ table \cap table' = table \ Evicted
  BY <1>2, <1>3
<1>5. ASSUME NEW n \in Evicted
      PROVE  /\ mission[n].status \in {"completed", "failed"}
             /\ \A k \in table : k < n => k \in Evicted \/ mission[k].status = "running"
  <2>1. \A k \in Finished : k < n => k \in Evicted
    BY <1>1, OldestGo
  <2>2. \A k \in table : k \notin Finished => mission[k].status = "running"
    BY <1>1 DEF Finished
  <2> QED
    BY <2>1, <2>2, <1>3 DEF Finished
<1>6. ASSUME Cardinality(table') > MaxMissions, NEW n \in table \ Evicted
      PROVE  mission[n].status = "running"
  <2>1. IsFiniteSet(table) /\ Cardinality(table) \in Nat /\ MaxMissions \in Nat
    BY <1>1, MissionsAssumption, FS_Subset, FS_CardinalityType
  <2>2. table \cap Evicted = Evicted
    BY <1>3
  <2>3. IsFiniteSet(Evicted) /\ Cardinality(Evicted) \in Nat
    BY <2>1, <1>3, FS_Subset, FS_CardinalityType
  <2>4. IsFiniteSet(table \ Evicted) /\ Cardinality(table \ Evicted) = Cardinality(table) - Cardinality(Evicted)
    BY <2>1, <2>2, FS_Difference
  <2>5. Cardinality(table') = Cardinality(table) - Cardinality(Evicted) + 1
    BY <2>4, <1>2, <1>3, FS_AddElement
  <2>6. ~(Cardinality(Evicted) >= Cardinality(table) - MaxMissions + 1)
    BY <1>6, <2>1, <2>3, <2>5
  <2>7. Finished \ Evicted = {}
    BY <2>6, <1>1, OldestGo
  <2> QED
    BY <2>7, <1>1 DEF Finished
<1> QED
  BY <1>4, <1>5, <1>6

\* Nobody else writes the table, and no record becomes new again.
LEMMA OthersKeepTable ==
    ASSUME TableInv, [Next]_vars, ~\E m \in Missions : Start(m)
    PROVE  table' = table /\ \A m \in Missions : mission[m].status # "new" => mission'[m].status # "new"
<1>0. mission \in [Missions -> Record]
  BY DEF TableInv, IInv
<1>2. ASSUME NEW m \in Missions, MissionStep(m)
      PROVE  /\ table' = table
             /\ \A n \in Missions : mission[n].status # "new" => mission'[n].status # "new"
  <2>1. \A n \in Missions \ {m} : mission'[n] = mission[n]
    BY <1>0, <1>2 DEF MissionStep, Goes, Ingest, NothingCollected, Analyse, AskInsights, Persist, StoreEvents,
        StartDetectors, Detected, AskBrief, Brief, Finish
  <2>2. table' = table
    BY <1>2 DEF MissionStep, Ingest, NothingCollected, Analyse, AskInsights, Persist, StoreEvents,
        StartDetectors, Detected, AskBrief, Brief, Finish
  <2> DEFINE Told == mission'[m].status \in {mission[m].status, "completed", "failed"}
  <2>a. ASSUME NEW t, NEW w, Goes(m, t, w) PROVE Told
    BY <1>0, <2>a DEF Goes, Record
  <2>e. ASSUME StoreEvents(m) PROVE Told
    BY <1>0, <2>e DEF StoreEvents, Record
  <2>f. ASSUME StartDetectors(m) PROVE Told
    BY <1>0, <2>f DEF StartDetectors, Record
  <2>b. ASSUME NEW a \in Detectors, Detected(m, a) PROVE Told
    BY <1>0, <2>b DEF Detected, Record
  <2>c. ASSUME Finish(m) PROVE Told
    BY <1>0, <2>c DEF Finish, Outcome, Record
  <2>d. \/ \E t, w : Goes(m, t, w)
        \/ StoreEvents(m) \/ StartDetectors(m) \/ (\E a \in Detectors : Detected(m, a)) \/ Finish(m)
    BY <1>2 DEF MissionStep, Ingest, NothingCollected, Analyse, AskInsights, Persist, AskBrief, Brief
  <2> HIDE DEF Told
  <2>3. Told
    BY <2>a, <2>b, <2>c, <2>d, <2>e, <2>f
  <2> QED
    BY <2>1, <2>2, <2>3 DEF Told
<1>3. CASE UNCHANGED <<table, mission>>
  BY <1>3
<1>4. ASSUME NEW c \in Callers, Answer(c) PROVE UNCHANGED <<table, mission>>
  BY <1>4 DEF Answer, swarm
<1>5. ASSUME NEW c \in Clients, Request(c) PROVE UNCHANGED <<table, mission>>
  BY <1>5 DEF Request, swarm
<1>6. ASSUME NEW a \in Removable, Unregister(a) PROVE UNCHANGED <<table, mission>>
  BY <1>6 DEF Unregister
<1> QED
  BY <1>2, <1>3, <1>4, <1>5, <1>6 DEF Next, Done, vars, swarm

LEMMA TablePreserved ==
    ASSUME TableInv, [Next]_vars PROVE TableInv'
<1>1. IInv'
  BY NextPreserves DEF TableInv
<1>2. ASSUME NEW m \in Missions, Start(m) PROVE table' \subseteq {n \in Missions : mission'[n].status # "new"}
  <2>1. table' \subseteq table \cup {m}
    BY <1>2 DEF Start
  <2>2. mission'[m].status # "new" /\ \A n \in Missions \ {m} : mission'[n] = mission[n]
    BY <1>2 DEF Start, TableInv, IInv, Record
  <2> QED
    BY <2>1, <2>2 DEF TableInv
<1>3. ASSUME ~\E m \in Missions : Start(m) PROVE table' \subseteq {n \in Missions : mission'[n].status # "new"}
  BY <1>3, OthersKeepTable DEF TableInv
<1> QED
  BY <1>1, <1>2, <1>3 DEF TableInv

\* A mission under way is never evicted, of the finished ones the oldest go
\* first, and the table outgrows its limit by missions under way alone, however
\* many are started (start_mission of agents/swarm.py).
THEOREM RecordsAlwaysKept == Spec => RecordsKept
<1>1. Init => TableInv
  BY InitEstablishes DEF Init, TableInv
<1>2. ASSUME TableInv, [Next]_vars PROVE TableInv'
  BY <1>2, TablePreserved
<1> DEFINE Kept == LET gone == table \ table' IN
               table' # table =>
                  /\ \A m \in gone :
                        /\ mission[m].status \in {"completed", "failed"}
                        /\ \A n \in table : n < m => n \in gone \/ mission[n].status = "running"
                  /\ Cardinality(table') > MaxMissions =>
                        \A m \in table \ gone : mission[m].status = "running"
<1>3. ASSUME TableInv, [Next]_vars PROVE [Kept]_vars
  <2>1. ASSUME NEW m \in Missions, Start(m) PROVE Kept
    <3>1. table \ (table \ table') = table \cap table'
      OBVIOUS
    <3> QED
      BY <1>3, <2>1, <3>1, StartKeeps
  <2>2. CASE ~\E m \in Missions : Start(m)
    BY <1>3, <2>2, OthersKeepTable
  <2> QED
    BY <2>1, <2>2
<1> QED
  BY <1>1, <1>2, <1>3, PTL DEF Spec, RecordsKept

-----------------------------------------------------------------------------
(* The calls to the provider *)

Settings == {FromEnvironment} \cup {AtRunTime(p) : p \in Providers}
AnyCall == [what : {"none", "complete", "test"}, at : Settings \cup {Nobody},
            headers : Settings \cup {Nobody}, tried : Nat, previous : Settings \cup {Nobody},
            calm : BOOLEAN]

\* A call nobody has disturbed addresses the configuration in force, and a test
\* remembers one that was in force.
Undisturbed(c) ==
    /\ call[c].what = "none" => call[c] = NoCall
    /\ call[c].what # "none" /\ call[c].calm => call[c].at = config /\ call[c].headers = config
    /\ call[c].what = "test" => call[c].previous \in Settings

CInv ==
    /\ config \in Settings
    /\ call \in [Callers -> AnyCall]
    /\ \A c \in Callers : Undisturbed(c)

\* What a step does to the calls.
CallStep ==
    \/ UNCHANGED <<config, call>>
    \/ \E c \in Callers :
         \/ Complete(c) \/ SetRuntime(c) \/ Ask(c) \/ Test(c) \/ TestRefused(c) \/ NextModel(c)
         \/ call[c].what # "none" /\ Returned(c)

LEMMA NextIsCallStep ==
    ASSUME [Next]_vars PROVE CallStep
<1>1. Missions \subseteq Callers /\ Clients \subseteq Callers
  BY MissionsAssumption
<1>2. ASSUME NEW m \in Missions, Start(m) \/ MissionStep(m) PROVE CallStep
  BY <1>1, <1>2 DEF CallStep, MissionStep, Start, Ingest, NothingCollected, Analyse, AskInsights,
       Persist, StoreEvents, StartDetectors, Detected, AskBrief, Brief, Finish, client
<1>3. ASSUME NEW c \in Callers, Answer(c) PROVE CallStep
  BY <1>3 DEF CallStep, Answer, Answered, AllFailed
<1>4. ASSUME NEW c \in Clients, Request(c) PROVE CallStep
  BY <1>1, <1>4 DEF CallStep, Request
<1>5. ASSUME NEW a \in Removable, Unregister(a) PROVE CallStep
  BY <1>5 DEF CallStep, Unregister, client
<1>6. CASE Done \/ UNCHANGED vars
  BY <1>6 DEF CallStep, Done, vars, client
<1> QED
  BY <1>2, <1>3, <1>4, <1>5, <1>6 DEF Next

\* A configuration restored is that of the environment, or one set at run time.
LEMMA RestoredIsSetting ==
    ASSUME NEW previous \in Settings
    PROVE  /\ Restored(previous) \in Settings
           /\ \/ Restored(previous) = previous
              \/ previous.runtime /\ previous.provider \in Keyless
<1>1. previous # FromEnvironment => previous.runtime = TRUE
  BY DEF Settings, AtRunTime
<1>2. CASE previous.runtime /\ previous.provider \notin Keyless
  BY <1>2 DEF Restored
<1>3. CASE ~(previous.runtime /\ previous.provider \notin Keyless)
  <2>1. Restored(previous) = FromEnvironment
    BY <1>3 DEF Restored
  <2>2. previous = FromEnvironment \/ (previous.runtime /\ previous.provider \in Keyless)
    BY <1>1, <1>3
  <2> QED
    BY <2>1, <2>2 DEF Settings
<1> QED
  BY <1>2, <1>3

\* Whoever reconfigures the client disturbs the calls of all others.
LEMMA ReconfiguredDisturbs ==
    ASSUME CInv, NEW c \in Callers, NEW to \in Settings, NEW d \in Callers, d # c
    PROVE  LET after == Reconfigured(c, to) IN
           /\ after \in [Callers -> AnyCall]
           /\ after[d].what = call[d].what /\ after[d].previous = call[d].previous
           /\ after[d].what = "none" => after[d] = NoCall
           /\ after[d].what # "none" /\ after[d].calm => after[d] = call[d] /\ to = config
<1>1. \A e \in Callers : call[e] \in AnyCall /\ (call[e].what = "none" => call[e] = NoCall)
  BY DEF CInv, Undisturbed
<1>2. \A e \in Callers : [call[e] EXCEPT !.calm = FALSE] \in AnyCall
  BY <1>1 DEF AnyCall
<1>3. Reconfigured(c, to) \in [Callers -> AnyCall]
  BY <1>1, <1>2 DEF Reconfigured
<1>4. CASE call[d] # NoCall /\ to # config
  <2>1. Reconfigured(c, to)[d] = [call[d] EXCEPT !.calm = FALSE]
    BY <1>4 DEF Reconfigured
  <2> QED
    BY <2>1, <1>1, <1>3, <1>4 DEF AnyCall
<1>5. CASE ~(call[d] # NoCall /\ to # config)
  <2>1. Reconfigured(c, to)[d] = call[d]
    BY <1>5 DEF Reconfigured
  <2>2. call[d].what # "none" => to = config
    BY <1>5 DEF NoCall
  <2> QED
    BY <2>1, <2>2, <1>1, <1>3
<1> QED
  BY <1>4, <1>5

\* A call just started under configuration s, with s in force.
LEMMA StartedFits ==
    ASSUME config \in Settings, NEW s \in Settings, NEW what \in {"complete", "test"}
    PROVE  LET x == Started(what, s) IN
           /\ x \in AnyCall /\ x.what = what /\ x.at = s /\ x.headers = s
           /\ x.what = "test" => x.previous = config
BY DEF Started, NoCall, AnyCall

\* A step of c preserves the invariant if it leaves others as Reconfigured does
\* and its own call fits the configuration then in force.
LEMMA StepOfCaller ==
    ASSUME CInv, NEW c \in Callers, config' \in Settings,
           call' \in [Callers -> AnyCall], Undisturbed(c)',
           \A d \in Callers : d # c => call'[d] = Reconfigured(c, config')[d]
    PROVE  CInv'
<1>1. ASSUME NEW d \in Callers, d # c PROVE Undisturbed(d)'
  <2>1. call'[d] = Reconfigured(c, config')[d]
    BY <1>1
  <2>2. /\ call'[d].what = call[d].what /\ call'[d].previous = call[d].previous
        /\ call'[d].what = "none" => call'[d] = NoCall
        /\ call'[d].what # "none" /\ call'[d].calm => call'[d] = call[d] /\ config' = config
    BY <1>1, <2>1, ReconfiguredDisturbs
  <2> QED
    BY <2>2 DEF CInv, Undisturbed
<1> QED
  BY <1>1 DEF CInv

LEMMA CallStepPreserves ==
    ASSUME CInv, CallStep PROVE CInv'
<1>1. CASE UNCHANGED <<config, call>>
  BY <1>1 DEF CInv, Undisturbed
<1>2. ASSUME NEW c \in Callers, Complete(c) PROVE CInv'
  <2>1. CASE available
    <3>1. call' = [call EXCEPT ![c] = Started("complete", config)] /\ config' = config
      BY <1>2, <2>1 DEF Complete
    <3> QED
      BY <3>1, StartedFits DEF CInv, Undisturbed
  <2>2. CASE ~available
    BY <1>2, <2>2 DEF Complete, CInv, Undisturbed
  <2> QED
    BY <2>1, <2>2
<1>3. ASSUME NEW c \in Callers, SetRuntime(c) \/ TestRefused(c) PROVE CInv'
  <2>1. config' \in Settings /\ call' = Reconfigured(c, config') /\ call[c] = NoCall
    BY <1>3, RestoredIsSetting DEF SetRuntime, TestRefused, Settings, CInv, Undisturbed
  <2>2. call' \in [Callers -> AnyCall] /\ call'[c] = NoCall
    BY <2>1 DEF Reconfigured, CInv, AnyCall
  <2>3. Undisturbed(c)'
    BY <2>2 DEF Undisturbed, NoCall
  <2> QED
    BY <2>1, <2>2, <2>3, StepOfCaller
<1>4. ASSUME NEW c \in Callers, Ask(c) \/ Test(c) PROVE CInv'
  <2>1. PICK what \in {"complete", "test"} :
           /\ config' \in Settings
           /\ call' = [Reconfigured(c, config') EXCEPT ![c] = Started(what, config')]
    BY <1>4 DEF Ask, Test, Settings, CInv
  <2>2. Reconfigured(c, config') \in [Callers -> AnyCall]
    BY <2>1 DEF Reconfigured, CInv, AnyCall
  <2>3. /\ call' \in [Callers -> AnyCall]
        /\ call'[c] = Started(what, config')
        /\ \A d \in Callers : d # c => call'[d] = Reconfigured(c, config')[d]
    BY <2>1, <2>2, StartedFits DEF CInv
  <2>4. Undisturbed(c)'
    BY <2>1, <2>3, StartedFits DEF Undisturbed, CInv
  <2> QED
    BY <2>1, <2>3, <2>4, StepOfCaller
<1>5. ASSUME NEW c \in Callers, NextModel(c) PROVE CInv'
  <2>1. call' = [call EXCEPT ![c].tried = @ + 1, ![c].headers = config] /\ config' = config
    BY <1>5 DEF NextModel
  <2>2. call[c] \in AnyCall /\ config \in Settings
    BY DEF CInv
  <2>3. call'[c] = [call[c] EXCEPT !.tried = @ + 1, !.headers = config]
    BY <2>1 DEF CInv, AnyCall
  <2>4. call'[c] \in AnyCall
    <3>1. call[c].tried + 1 \in Nat /\ config \in Settings \cup {Nobody}
      BY <2>2 DEF AnyCall
    <3> DEFINE n == call[c].tried + 1
               Configs == Settings \cup {Nobody}
    <3>2. call[c] \in [what : {"none", "complete", "test"}, at : Configs, headers : Configs,
                       tried : Nat, previous : Configs, calm : BOOLEAN]
      BY <2>2 DEF AnyCall
    <3>3. n \in Nat /\ config \in Configs /\ call'[c] = [call[c] EXCEPT !.tried = n, !.headers = config]
      BY <3>1, <2>3
    <3> HIDE DEF n, Configs
    <3>4. call'[c] \in [what : {"none", "complete", "test"}, at : Configs, headers : Configs,
                        tried : Nat, previous : Configs, calm : BOOLEAN]
      BY <3>2, <3>3
    <3> QED
      BY <3>4 DEF AnyCall, Configs
  <2>5. call' \in [Callers -> AnyCall]
    BY <2>1, <2>4 DEF CInv
  <2>6. Undisturbed(c)'
    BY <1>5, <2>1, <2>2, <2>3 DEF NextModel, Undisturbed, CInv, AnyCall
  <2>7. \A d \in Callers : d # c => call'[d] = call[d]
    BY <2>1 DEF CInv
  <2> QED
    BY <2>1, <2>5, <2>6, <2>7 DEF CInv, Undisturbed
<1>6. ASSUME NEW c \in Callers, call[c].what # "none", Returned(c) PROVE CInv'
  <2>1. config' \in Settings
    BY <1>6, RestoredIsSetting DEF Returned, CInv, Undisturbed
  <2>2. Reconfigured(c, config') \in [Callers -> AnyCall]
    BY <2>1 DEF Reconfigured, CInv, AnyCall
  <2>3. NoCall \in AnyCall /\ NoCall.what = "none"
    BY DEF NoCall, AnyCall
  <2>4. /\ call' \in [Callers -> AnyCall] /\ call'[c] = NoCall
        /\ \A d \in Callers : d # c => call'[d] = Reconfigured(c, config')[d]
    BY <1>6, <2>2, <2>3 DEF Returned
  <2>5. Undisturbed(c)'
    BY <2>3, <2>4 DEF Undisturbed
  <2> QED
    BY <2>1, <2>4, <2>5, StepOfCaller
<1> QED
  BY <1>1, <1>2, <1>3, <1>4, <1>5, <1>6 DEF CallStep

\* A test that ends returned, or was no test of the step: a caller's call ends
\* by a step of that caller alone.
LEMMA TestEndsByReturning ==
    ASSUME CInv, CallStep, NEW c \in Callers, call[c].what = "test", call'[c].what = "none"
    PROVE  Returned(c)
<1>1. call \in [Callers -> AnyCall]
  BY DEF CInv
<1>2. \A d \in Callers, s \in Settings : d # c => Reconfigured(d, s)[c].what = "test"
  BY ReconfiguredDisturbs
<1>3. ASSUME NEW d \in Callers, Complete(d) \/ NextModel(d) PROVE FALSE
  BY <1>1, <1>3 DEF Complete, NextModel, Started, AnyCall, NoCall
<1>4. ASSUME NEW d \in Callers, SetRuntime(d) \/ TestRefused(d) PROVE FALSE
  <2>1. config' \in Settings /\ call' = Reconfigured(d, config') /\ d # c
    BY <1>4, RestoredIsSetting DEF SetRuntime, TestRefused, Settings, CInv
  <2> QED
    BY <2>1, <1>2
<1>5. ASSUME NEW d \in Callers, Ask(d) \/ Test(d) PROVE FALSE
  <2>1. d # c /\ config' \in Settings
    BY <1>5 DEF Ask, Test, Settings, CInv
  <2>2. call'[c] = Reconfigured(d, config')[c]
    BY <1>5, <2>1 DEF Ask, Test, Reconfigured
  <2> QED
    BY <2>1, <2>2, <1>2
<1>6. ASSUME NEW d \in Callers, call[d].what # "none", Returned(d), d # c PROVE FALSE
  <2>1. config' \in Settings
    BY <1>6, RestoredIsSetting DEF Returned, CInv, Undisturbed
  <2>2. call'[c] = Reconfigured(d, config')[c]
    BY <1>6 DEF Returned, Reconfigured
  <2> QED
    BY <1>6, <2>1, <2>2, <1>2
<1> QED
  BY <1>3, <1>4, <1>5, <1>6 DEF CallStep

LEMMA CalmStep ==
    ASSUME CInv, CallStep, NEW c \in Callers
    PROVE  /\ call'[c].calm => call'[c].headers = call'[c].at
           /\ call[c].what = "test" /\ call'[c].what = "none" /\ call[c].calm =>
                 \/ config' = call[c].previous
                 \/ call[c].previous.runtime /\ call[c].previous.provider \in Keyless
<1>1. CInv'
  BY CallStepPreserves
<1>2. call'[c].calm => call'[c].headers = call'[c].at
  BY <1>1 DEF CInv, Undisturbed, NoCall
<1>3. ASSUME call[c].what = "test", call'[c].what = "none"
      PROVE  \/ config' = call[c].previous
             \/ call[c].previous.runtime /\ call[c].previous.provider \in Keyless
  <2>1. Returned(c) /\ call[c].previous \in Settings
    BY <1>3, TestEndsByReturning DEF CInv, Undisturbed
  <2>2. config' = Restored(call[c].previous)
    BY <1>3, <2>1 DEF Returned
  <2> QED
    BY <2>1, <2>2, RestoredIsSetting
<1> QED
  BY <1>2, <1>3

\* However many callers share the client: a call nobody disturbs sends every
\* request with the key of the provider it addresses, and a test puts back what
\* it found, save for a keyless runtime provider (agents/llm_provider.py,
\* test_runtime_llm in api/routers/admin.py).
THEOREM CallsStayCalm == Spec => CalmCalls
<1>1. Init => CInv
  BY DEF Init, CInv, Settings, AnyCall, NoCall, Undisturbed
<1>2. CInv /\ [Next]_vars => CInv'
  BY NextIsCallStep, CallStepPreserves
<1>3. CInv /\ [Next]_vars =>
        [\A c \in Callers :
          /\ call'[c].calm => call'[c].headers = call'[c].at
          /\ call[c].what = "test" /\ call'[c].what = "none" /\ call[c].calm =>
                \/ config' = call[c].previous
                \/ call[c].previous.runtime /\ call[c].previous.provider \in Keyless
        ]_<<config, call>>
  BY NextIsCallStep, CalmStep
<1> QED
  BY <1>1, <1>2, <1>3, PTL DEF Spec, CalmCalls

-----------------------------------------------------------------------------
(* Types, and with them how far a call may go *)

\* What the environment names is a provider, the first of the list.
LEMMA EnvironmentNamesProvider ==
    /\ FromEnvironment \in Config
    /\ FromEnvironment.provider # NoProvider => FromEnvironment.provider \in Providers
<1> DEFINE named == {i \in DOMAIN Order : Order[i] \in Environment}
<1>1. CASE named = {}
  BY <1>1 DEF FromEnvironment, Nobody, Config
<1>2. CASE named # {}
  <2>1. named \subseteq Nat
    BY ProvidersAssumption
  <2>2. IsWellFoundedOn(OpToRel(<, Nat), Nat)
    BY NatLessThanWellFounded
  <2>3. PICK i \in named : \A j \in named : ~(<<j, i>> \in OpToRel(<, Nat))
    BY <1>2, <2>1, <2>2, WFMin
  <2> HIDE DEF named
  <2>4. \A j \in named : ~(j < i)
    BY <2>1, <2>3 DEF OpToRel
  <2>5. \A j \in named : i <= j
    BY <2>1, <2>4
  <2>6. Min(named) \in named
    BY <2>5 DEF Min
  <2>7. Order[Min(named)] \in Providers
    BY <2>6 DEF Providers, Range, named
  <2> QED
    BY <1>2, <2>7 DEF FromEnvironment, Config, named
<1> QED
  BY <1>1, <1>2

LEMMA SettingsAreConfigurations ==
    ASSUME NEW s \in Settings
    PROVE  s \in Config /\ (s.provider # NoProvider => s.provider \in Providers)
<1>1. CASE s = FromEnvironment
  BY <1>1, EnvironmentNamesProvider
<1>2. ASSUME NEW p \in Providers, s = AtRunTime(p) PROVE s \in Config /\ s.provider \in Providers
  BY <1>2 DEF AtRunTime, Config
<1> QED
  BY <1>1, <1>2 DEF Settings

\* A call under way addresses a provider and asks a model of its list.
Bounded(r) ==
    r.what # "none" => r.at.provider \in Providers /\ r.tried \in 1..Chain[r.at.provider]

TypeInv ==
    /\ IInv /\ CInv
    /\ \A c \in Callers : Bounded(call[c])
    /\ table \subseteq Missions
    /\ registered \subseteq Agents
    /\ stored \subseteq Missions
    /\ changes \in 0..MaxChanges

LEMMA TypeInvSuffices == TypeInv => TypeOK
<1> SUFFICES ASSUME TypeInv PROVE TypeOK
  OBVIOUS
<1>1. Settings \cup {Nobody} \subseteq Config
  <2>1. Nobody \in Config
    BY DEF Nobody, Config
  <2>2. \A s \in Settings : s \in Config
    BY SettingsAreConfigurations
  <2> QED
    BY <2>1, <2>2
<1>2. config \in Config
  BY <1>1 DEF TypeInv, CInv
<1>3. AnyCall \subseteq Calls
  BY <1>1 DEF AnyCall, Calls
<1>4. call \in [Callers -> Calls]
  BY <1>3 DEF TypeInv, CInv
<1>5. ASSUME NEW c \in Callers, call[c] # NoCall PROVE call[c].tried \in 1..Chain[call[c].at.provider]
  BY <1>5 DEF TypeInv, CInv, Undisturbed, Bounded
<1>6. \A m \in Missions : Busy(mission[m]) \subseteq Agents
  BY DEF TypeInv, IInv, Record, Busy, Agents
<1>7. working \subseteq Agents
  BY <1>6 DEF TypeInv, IInv
<1> QED
  BY <1>2, <1>4, <1>5, <1>7 DEF TypeInv, TypeOK, IInv

\* Disturbing a call leaves it where it is.
LEMMA ReconfiguredBounded ==
    ASSUME CInv, \A d \in Callers : Bounded(call[d]), NEW c \in Callers, NEW to
    PROVE  \A d \in Callers : Bounded(Reconfigured(c, to)[d])
<1>1. SUFFICES ASSUME NEW d \in Callers PROVE Bounded(Reconfigured(c, to)[d])
  OBVIOUS
<1>2. call[d] \in AnyCall
  BY DEF CInv
<1>3. Bounded([call[d] EXCEPT !.calm = FALSE])
  BY <1>2 DEF Bounded, AnyCall
<1> QED
  BY <1>3 DEF Reconfigured

\* A call goes on to the next model only if there is one.
LEMMA CallsStayBounded ==
    ASSUME CInv, CallStep, \A c \in Callers : Bounded(call[c])
    PROVE  \A c \in Callers : Bounded(call'[c])
<1>1. call \in [Callers -> AnyCall] /\ config \in Settings
  BY DEF CInv
<1>2. ASSUME NEW what, what \in {"complete", "test"}, NEW s, s.provider \in Providers
      PROVE  Bounded(Started(what, s))
  BY <1>2, ProvidersAssumption DEF Started, NoCall, Bounded, Providers
<1>3. Bounded(NoCall)
  BY DEF Bounded, NoCall
<1>4. CASE UNCHANGED <<config, call>>
  BY <1>4
<1>5. ASSUME NEW c \in Callers, Complete(c) PROVE \A d \in Callers : Bounded(call'[d])
  <2>1. CASE available
    <3>1. Bounded(Started("complete", config))
      BY <1>1, <1>2, <2>1, SettingsAreConfigurations DEF available
    <3>2. call' = [call EXCEPT ![c] = Started("complete", config)]
      BY <1>5, <2>1 DEF Complete
    <3> QED
      BY <1>1, <3>1, <3>2
  <2> QED
    BY <1>5, <2>1 DEF Complete
<1>6. ASSUME NEW c \in Callers, SetRuntime(c) \/ TestRefused(c) PROVE \A d \in Callers : Bounded(call'[d])
  BY <1>6, ReconfiguredBounded DEF SetRuntime, TestRefused
<1>7. ASSUME NEW c \in Callers, Ask(c) \/ Test(c) PROVE \A d \in Callers : Bounded(call'[d])
  <2>1. PICK what \in {"complete", "test"} :
           /\ config'.provider \in Providers
           /\ call' = [Reconfigured(c, config') EXCEPT ![c] = Started(what, config')]
    BY <1>1, <1>7, SettingsAreConfigurations DEF Ask, Test, AtRunTime
  <2>2. Bounded(Started(what, config'))
    BY <1>2, <2>1
  <2>3. DOMAIN Reconfigured(c, config') = Callers
    BY DEF Reconfigured
  <2> QED
    BY <2>1, <2>2, <2>3, ReconfiguredBounded
<1>8. ASSUME NEW c \in Callers, NextModel(c) PROVE \A d \in Callers : Bounded(call'[d])
  <2>1. Bounded(call[c]) /\ call[c] \in AnyCall
    BY <1>1
  <2>2. call'[c] = [call[c] EXCEPT !.tried = @ + 1, !.headers = config]
    BY <1>1, <1>8 DEF NextModel
  <2>3. /\ call'[c].what = call[c].what /\ call'[c].at = call[c].at
        /\ call'[c].tried = call[c].tried + 1
    BY <2>1, <2>2 DEF AnyCall
  <2>4. Chain[call[c].at.provider] \in Nat /\ call[c].tried < Chain[call[c].at.provider]
    BY <1>8, <2>1, ProvidersAssumption DEF NextModel, MoreModels, Bounded, Providers
  <2>5. Bounded(call'[c])
    BY <1>8, <2>1, <2>3, <2>4 DEF Bounded, NextModel
  <2>6. \A d \in Callers : d # c => call'[d] = call[d]
    BY <1>1, <1>8 DEF NextModel
  <2> QED
    BY <2>5, <2>6
<1>9. ASSUME NEW c \in Callers, Returned(c) PROVE \A d \in Callers : Bounded(call'[d])
  <2>1. call' = [Reconfigured(c, config') EXCEPT ![c] = NoCall]
    BY <1>9 DEF Returned
  <2>2. DOMAIN Reconfigured(c, config') = Callers
    BY DEF Reconfigured
  <2> QED
    BY <1>3, <2>1, <2>2, ReconfiguredBounded
<1> QED
  BY <1>4, <1>5, <1>6, <1>7, <1>8, <1>9 DEF CallStep

\* Missions are added to the table and the database, agents only leave.
LEMMA TablesStay ==
    ASSUME TypeInv, [Next]_vars
    PROVE  /\ table' \subseteq Missions /\ registered' \subseteq Agents
           /\ stored' \subseteq Missions /\ changes' \in 0..MaxChanges
<1> DEFINE Typed == /\ table' \subseteq Missions /\ registered' \subseteq Agents
                    /\ stored' \subseteq Missions /\ changes' \in 0..MaxChanges
<1>1. MaxChanges \in Nat
  BY MissionsAssumption
<1>2. ASSUME NEW m \in Missions, Start(m) PROVE Typed
  BY <1>2 DEF TypeInv, Start
<1>3. ASSUME NEW m \in Missions, MissionStep(m) PROVE Typed
  <2>1. CASE StoreEvents(m)
    BY <2>1 DEF TypeInv, StoreEvents
  <2>2. CASE ~StoreEvents(m)
    <3>1. UNCHANGED <<table, registered, stored, changes>>
      BY <1>3, <2>2 DEF MissionStep, Ingest, NothingCollected, Analyse, AskInsights, Persist,
           StartDetectors, Detected, AskBrief, Brief, Finish
    <3> QED
      BY <3>1 DEF TypeInv
  <2> QED
    BY <2>1, <2>2
<1>4. ASSUME NEW c \in Callers, Answer(c) PROVE Typed
  BY <1>4 DEF TypeInv, Answer, swarm
<1>5. ASSUME NEW c \in Clients, Request(c) PROVE Typed
  BY <1>1, <1>5 DEF TypeInv, Request, Changes, swarm
<1>6. ASSUME NEW a \in Removable, Unregister(a) PROVE Typed
  BY <1>1, <1>6 DEF TypeInv, Unregister, Changes
<1>7. CASE Done \/ UNCHANGED vars
  BY <1>7 DEF TypeInv, Done, vars, swarm
<1> QED
  BY <1>2, <1>3, <1>4, <1>5, <1>6, <1>7 DEF Next

\* Whoever reconfigures the client between two requests of a call: the call
\* addresses a provider, and asks no more models than the list of that provider
\* has; and every record, agent and table keeps its type (agents/swarm.py,
\* _call_openai_compat in agents/llm_provider.py).
THEOREM CallsStayInChain == Spec => []TypeOK
<1>1. Init => TypeInv
  <2>1. Init => IInv
    BY InitEstablishes
  <2>2. Init => CInv
    BY DEF Init, CInv, Settings, AnyCall, NoCall, Undisturbed
  <2>3. MaxChanges \in Nat
    BY MissionsAssumption
  <2> QED
    BY <2>1, <2>2, <2>3 DEF Init, TypeInv, Bounded, NoCall
<1>2. TypeInv /\ [Next]_vars => TypeInv'
  <2>1. SUFFICES ASSUME TypeInv, [Next]_vars PROVE TypeInv'
    OBVIOUS
  <2>2. IInv' /\ CInv'
    BY <2>1, NextPreserves, NextIsCallStep, CallStepPreserves DEF TypeInv
  <2>3. \A c \in Callers : Bounded(call'[c])
    BY <2>1, NextIsCallStep, CallsStayBounded DEF TypeInv
  <2> QED
    BY <2>1, <2>2, <2>3, TablesStay DEF TypeInv, Bounded
<1>3. TypeInv => TypeOK
  BY TypeInvSuffices
<1> QED
  BY <1>1, <1>2, <1>3, PTL DEF Spec
=============================================================================
