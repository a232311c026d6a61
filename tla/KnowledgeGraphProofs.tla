------------------------ MODULE KnowledgeGraphProofs ------------------------
(***************************************************************************)
(* That counts of mentions cover the edges, that committed events are      *)
(* drawn completely, and that the labels of communities agree with the     *)
(* paths, for any finite sets of events, actors and writers, any number of *)
(* pipelines and any bounds.                                               *)
(*                                                                         *)
(* The first two are about where a writer stands in its calls (Plans):     *)
(* what a transaction of write_events relies on was written by those       *)
(* before it and is never removed, and what a writer has counted but not   *)
(* yet drawn is Pending.  The third is about passes: paths never           *)
(* disappear, so two actors with one label when labels are computed are    *)
(* joined whenever they are written.                                       *)
(***************************************************************************)
EXTENDS KnowledgeGraph, FiniteSetTheorems, TLAPS

\* What a writer can have before it: the rest of write_signals and write_events, of
\* write_events alone, or a call of one transaction.
AtSignals == <<WriteSignals, WriteEvents>>
AtLinks == <<<<"links">>, WriteEvents>>
AtEvents == <<WriteEvents>>
AtActors == <<<<"actors", "topics", "relations">>>>
AtTopics == <<<<"topics", "relations">>>>
AtRelations == <<<<"relations">>>>
AtReport == <<<<"report">>>>
AtClick == <<<<"click">>>>
Plans == {<<>>, AtSignals, AtLinks, AtEvents, AtActors, AtTopics, AtRelations, AtReport, AtClick}

\* The transactions behind a writer have left what the ones before it match.
Ready(w) ==
    /\ write[w].todo \in {AtActors, AtTopics, AtRelations} => write[w].of \subseteq eventNodes
    /\ write[w].todo \in {AtTopics, AtRelations} => Named(w) \subseteq DOMAIN mentions
    /\ write[w].todo = AtRelations => \A e \in write[w].of : About(e) \subseteq topicNodes

\* The mentions of a that writers have counted and not yet drawn.
Due(w, a) ==
    IF write[w].todo \in {AtTopics, AtRelations} THEN {e \in write[w].of : a \in Names(e)} ELSE {}
Pending(a) == UNION {{w} \X Due(w, a) : w \in Writers}

\* The count of a node against what events mention.
Covered(a) ==
    /\ mentions[a] = Nothing => a \in log.implicated
    /\ mentions[a] # Nothing =>
          /\ mentions[a] >= Mentioned(a) + Cardinality(Pending(a))
          /\ ~log.failed => mentions[a] <= Mentioned(a) + Cardinality(Pending(a)) + 1

CountsInv ==
    /\ \A w \in Writers : write[w].todo \in Plans /\ Ready(w)
    /\ \A e \in Events, a \in Actors : edge[e][a] > 0 => a \in DOMAIN mentions
    /\ \A a \in DOMAIN mentions : Covered(a)

\* What a pass holds: labels of joined actors, equal only along a path; and as long
\* as nobody else labels, the labels that were there or that it wrote are its own.
Backed(p) ==
    LET f == pass[p].labels
    IN  /\ pass[p].stage # "idle" =>
              /\ DOMAIN f \subseteq Joined
              /\ \A a, b \in DOMAIN f : f[a] = f[b] => b \in Component(a)
        /\ pass[p].fresh /\ pass[p].stage # "idle" =>
              \A a \in Actors : community[a] # Nothing =>
                  a \in DOMAIN f /\ (pass[p].stage = "snapshot" => community[a] = f[a])

LabelsInv ==
    /\ \A a \in Actors : community[a] # Nothing => a \in Joined
    /\ \A p \in Pipelines : Backed(p)

IInv == TypeOK /\ CountsInv /\ LabelsInv /\ EdgesComplete /\ CommunitiesAgree

-----------------------------------------------------------------------------
\* The calls of a writer.

\* The next transaction of each plan.
LEMMA PlanHeads ==
    ASSUME NEW w \in Writers
    PROVE  /\ write[w].todo = AtSignals => Next1(w) = "signals"
           /\ write[w].todo = AtLinks => Next1(w) = "links"
           /\ write[w].todo = AtEvents => Next1(w) = "events"
           /\ write[w].todo = AtActors => Next1(w) = "actors"
           /\ write[w].todo = AtTopics => Next1(w) = "topics"
           /\ write[w].todo = AtRelations => Next1(w) = "relations"
           /\ write[w].todo = AtReport => Next1(w) = "report"
           /\ write[w].todo = AtClick => Next1(w) = "click"
  <1> USE DEF Next1, WriteEvents, WriteSignals
  <1>1. write[w].todo = AtSignals => Next1(w) = "signals"
    BY DEF AtSignals
  <1>2. write[w].todo = AtLinks => Next1(w) = "links"
    BY DEF AtLinks
  <1>3. write[w].todo = AtEvents => Next1(w) = "events"
    BY DEF AtEvents
  <1>4. write[w].todo = AtActors => Next1(w) = "actors"
    BY DEF AtActors
  <1>5. write[w].todo = AtTopics => Next1(w) = "topics"
    BY DEF AtTopics
  <1>6. write[w].todo = AtRelations => Next1(w) = "relations"
    BY DEF AtRelations
  <1>7. write[w].todo = AtReport => Next1(w) = "report"
    BY DEF AtReport
  <1>8. write[w].todo = AtClick => Next1(w) = "click"
    BY DEF AtClick
  <1> QED
    BY <1>1, <1>2, <1>3, <1>4, <1>5, <1>6, <1>7, <1>8

\* What is left when it is committed.
LEMMA PlanTails ==
    ASSUME NEW w \in Writers
    PROVE  /\ write[w].todo = AtSignals => After(w) = [write[w] EXCEPT !.todo = AtLinks]
           /\ write[w].todo = AtLinks => After(w) = [write[w] EXCEPT !.todo = AtEvents]
           /\ write[w].todo = AtEvents => After(w) = [write[w] EXCEPT !.todo = AtActors]
           /\ write[w].todo = AtActors => After(w) = [write[w] EXCEPT !.todo = AtTopics]
           /\ write[w].todo = AtTopics => After(w) = [write[w] EXCEPT !.todo = AtRelations]
           /\ write[w].todo = AtRelations => After(w) = Rest
           /\ write[w].todo = AtReport => After(w) = Rest
           /\ write[w].todo = AtClick => After(w) = Rest
  <1> USE DEF After, WriteEvents, WriteSignals
  <1>1. write[w].todo = AtSignals => After(w) = [write[w] EXCEPT !.todo = AtLinks]
    BY DEF AtSignals, AtLinks
  <1>2. write[w].todo = AtLinks => After(w) = [write[w] EXCEPT !.todo = AtEvents]
    BY DEF AtLinks, AtEvents
  <1>3. write[w].todo = AtEvents => After(w) = [write[w] EXCEPT !.todo = AtActors]
    BY DEF AtEvents, AtActors
  <1>4. write[w].todo = AtActors => After(w) = [write[w] EXCEPT !.todo = AtTopics]
    BY DEF AtActors, AtTopics
  <1>5. write[w].todo = AtTopics => After(w) = [write[w] EXCEPT !.todo = AtRelations]
    BY DEF AtTopics, AtRelations
  <1>6. write[w].todo = AtRelations => After(w) = Rest
    BY DEF AtRelations
  <1>7. write[w].todo = AtReport => After(w) = Rest
    BY DEF AtReport
  <1>8. write[w].todo = AtClick => After(w) = Rest
    BY DEF AtClick
  <1> QED
    BY <1>1, <1>2, <1>3, <1>4, <1>5, <1>6, <1>7, <1>8

\* What is left when it fails.
LEMMA PlanFailures ==
    ASSUME NEW w \in Writers
    PROVE  /\ write[w].todo = AtSignals => Skipped(w) = [write[w] EXCEPT !.todo = AtEvents]
           /\ write[w].todo = AtLinks => Skipped(w) = [write[w] EXCEPT !.todo = AtEvents]
           /\ write[w].todo = AtEvents => Skipped(w) = Rest
           /\ write[w].todo = AtActors => Skipped(w) = Rest
           /\ write[w].todo = AtTopics => Skipped(w) = Rest
           /\ write[w].todo = AtRelations => Skipped(w) = Rest
           /\ write[w].todo = AtReport => Skipped(w) = Rest
           /\ write[w].todo = AtClick => Skipped(w) = Rest
  <1> USE DEF Skipped, WriteEvents, WriteSignals
  <1>1. write[w].todo = AtSignals => Skipped(w) = [write[w] EXCEPT !.todo = AtEvents]
    BY DEF AtSignals, AtEvents
  <1>2. write[w].todo = AtLinks => Skipped(w) = [write[w] EXCEPT !.todo = AtEvents]
    BY DEF AtLinks, AtEvents
  <1>3. write[w].todo = AtEvents => Skipped(w) = Rest
    BY DEF AtEvents
  <1>4. write[w].todo = AtActors => Skipped(w) = Rest
    BY DEF AtActors
  <1>5. write[w].todo = AtTopics => Skipped(w) = Rest
    BY DEF AtTopics
  <1>6. write[w].todo = AtRelations => Skipped(w) = Rest
    BY DEF AtRelations
  <1>7. write[w].todo = AtReport => Skipped(w) = Rest
    BY DEF AtReport
  <1>8. write[w].todo = AtClick => Skipped(w) = Rest
    BY DEF AtClick
  <1> QED
    BY <1>1, <1>2, <1>3, <1>4, <1>5, <1>6, <1>7, <1>8

\* Every plan is a sequence of calls, and a plan before which nothing is due is none
\* of those behind the actors.
LEMMA PlanFacts ==
    /\ Plans \subseteq Seq(Seq(Kinds))
    /\ AtTopics # AtRelations /\ AtActors \notin {AtTopics, AtRelations}
    /\ {<<>>, AtSignals, AtLinks, AtEvents, AtReport, AtClick}
          \cap {AtActors, AtTopics, AtRelations} = {}
    /\ <<>> \notin {AtSignals, AtLinks, AtEvents, AtActors, AtTopics, AtRelations, AtReport, AtClick}
  <1>1. /\ <<>> \in Seq(Seq(Kinds)) /\ AtSignals \in Seq(Seq(Kinds)) /\ AtLinks \in Seq(Seq(Kinds))
        /\ AtEvents \in Seq(Seq(Kinds)) /\ AtActors \in Seq(Seq(Kinds)) /\ AtTopics \in Seq(Seq(Kinds))
        /\ AtRelations \in Seq(Seq(Kinds)) /\ AtReport \in Seq(Seq(Kinds)) /\ AtClick \in Seq(Seq(Kinds))
    <2> DEFINE Calls == Seq(Kinds)
    <2>1. /\ WriteSignals \in Calls /\ WriteEvents \in Calls /\ <<"links">> \in Calls
          /\ <<"actors", "topics", "relations">> \in Calls /\ <<"topics", "relations">> \in Calls
          /\ <<"relations">> \in Calls /\ <<"report">> \in Calls /\ <<"click">> \in Calls
      <3>1. {"signals", "links", "events", "actors", "topics", "relations", "report", "click"} \subseteq Kinds
        BY DEF Kinds
      <3>2. /\ \A u \in Kinds : <<u>> \in Seq(Kinds)
            /\ \A u, v \in Kinds : <<u, v>> \in Seq(Kinds)
            /\ \A u, v, x \in Kinds : <<u, v, x>> \in Seq(Kinds)
            /\ \A u, v, x, y \in Kinds : <<u, v, x, y>> \in Seq(Kinds)
        OBVIOUS
      <3> QED
        BY <3>1, <3>2 DEF WriteEvents, WriteSignals
    <2>2. /\ \A x \in Calls : <<x>> \in Seq(Calls)
          /\ \A x, y \in Calls : <<x, y>> \in Seq(Calls)
          /\ <<>> \in Seq(Calls)
      <3> HIDE DEF Calls
      <3> QED
        OBVIOUS
    <2> HIDE DEF Calls
    <2>3. /\ <<>> \in Seq(Calls) /\ AtSignals \in Seq(Calls) /\ AtLinks \in Seq(Calls)
          /\ AtEvents \in Seq(Calls) /\ AtActors \in Seq(Calls) /\ AtTopics \in Seq(Calls)
          /\ AtRelations \in Seq(Calls) /\ AtReport \in Seq(Calls) /\ AtClick \in Seq(Calls)
      BY <2>1, <2>2 DEF AtSignals, AtLinks, AtEvents, AtActors, AtTopics, AtRelations, AtReport, AtClick
    <2> QED
      BY <2>3 DEF Calls
  <1>2. /\ AtTopics # AtRelations /\ AtActors # AtTopics /\ AtActors # AtRelations
        /\ \A x \in {<<>>, AtSignals, AtLinks, AtEvents, AtReport, AtClick} :
              x # AtActors /\ x # AtTopics /\ x # AtRelations
    BY DEF AtSignals, AtLinks, AtEvents, AtActors, AtTopics, AtRelations, AtReport, AtClick,
        WriteEvents, WriteSignals
  <1>3. <<>> \notin {AtSignals, AtLinks, AtEvents, AtActors, AtTopics, AtRelations, AtReport, AtClick}
    BY DEF AtSignals, AtLinks, AtEvents, AtActors, AtTopics, AtRelations, AtReport, AtClick,
        WriteEvents, WriteSignals
  <1> QED
    BY <1>1, <1>2, <1>3 DEF Plans

-----------------------------------------------------------------------------
\* Counting.

\* Pairs that differ in their first component are as many as there are of these.
LEMMA PairsCounted ==
    ASSUME NEW S, IsFiniteSet(S), NEW g
    PROVE  /\ IsFiniteSet({<<e, g[e]>> : e \in S})
           /\ Cardinality({<<e, g[e]>> : e \in S}) = Cardinality(S)
  <1> DEFINE T == {<<e, g[e]>> : e \in S}
             f == [e \in S |-> <<e, g[e]>>]
  <1>1. f \in Surjection(S, T)
    BY DEF Surjection
  <1>2. f \in Injection(S, T)
    <2>1. f \in [S -> T]
      OBVIOUS
    <2>2. ASSUME NEW x \in S, NEW y \in S, f[x] = f[y]
          PROVE  x = y
      <3>1. <<x, g[x]>> = <<y, g[y]>>
        BY <2>2
      <3> QED
        BY <3>1
    <2> HIDE DEF f
    <2> QED
      BY <2>1, <2>2 DEF Injection, IsInjective
  <1> HIDE DEF f
  <1> QED
    BY <1>1, <1>2, FS_Surjection

\* The same for pairs with one first component.
LEMMA RowCounted ==
    ASSUME NEW S, IsFiniteSet(S), NEW w
    PROVE  /\ IsFiniteSet({w} \X S)
           /\ Cardinality({w} \X S) = Cardinality(S)
  <1>1. IsFiniteSet({w}) /\ Cardinality({w}) = 1
    BY FS_Singleton
  <1>2. Cardinality(S) \in Nat
    BY FS_CardinalityType
  <1> QED
    BY <1>1, <1>2, FS_Product

\* What events mention and what writers owe are finitely many things.
LEMMA CountsAreNumbers ==
    ASSUME TypeOK, NEW a \in Actors
    PROVE  /\ IsFiniteSet(Mentions(a)) /\ Mentioned(a) \in Nat
           /\ IsFiniteSet(Pending(a)) /\ Cardinality(Pending(a)) \in Nat
           /\ \A w \in Writers : /\ IsFiniteSet({e \in write[w].of : a \in Names(e)})
                                /\ Count(w, a) \in Nat
  <1>1. IsFiniteSet(Mentions(a))
    <2> DEFINE Row(e) == {e} \X (1..edge[e][a])
               rows == {Row(e) : e \in Events}
               f == [e \in Events |-> Row(e)]
    <2>1. \A e \in Events : IsFiniteSet(Row(e))
      <3> TAKE e \in Events
      <3>1. edge[e][a] \in Nat
        BY DEF TypeOK
      <3>2. \A n \in Nat : IsFiniteSet(1..n)
        BY FS_Interval
      <3> QED
        BY <3>1, <3>2, RowCounted
    <2>2. f \in Surjection(Events, rows)
      BY DEF Surjection
    <2> HIDE DEF Row
    <2>3. \A r \in rows : IsFiniteSet(r)
      BY <2>1
    <2>4. Mentions(a) = UNION rows
      BY DEF Mentions, Row
    <2> HIDE DEF rows, f
    <2>5. IsFiniteSet(rows)
      BY <2>2, FiniteAssumption, FS_Surjection
    <2> QED
      BY <2>3, <2>4, <2>5, FS_UNION
  <1>2. IsFiniteSet(Pending(a))
    <2>1. Pending(a) \subseteq Writers \X Events
      BY DEF Pending, Due, TypeOK
    <2>2. IsFiniteSet(Writers \X Events)
      BY FiniteAssumption, FS_Product
    <2> QED
      BY <2>1, <2>2, FS_Subset
  <1>3. \A w \in Writers : IsFiniteSet({e \in write[w].of : a \in Names(e)})
    <2> TAKE w \in Writers
    <2>1. {e \in write[w].of : a \in Names(e)} \subseteq Events
      BY DEF TypeOK
    <2> QED
      BY <2>1, FiniteAssumption, FS_Subset
  <1> QED
    BY <1>1, <1>2, <1>3, FS_CardinalityType DEF Mentioned, Count

\* An actor without a node is mentioned nowhere, and nothing is due for it.
LEMMA NoNodeNoCount ==
    ASSUME TypeOK, CountsInv, NEW a \in Actors \ DOMAIN mentions
    PROVE  /\ Mentioned(a) = 0
           /\ Pending(a) = {} /\ Cardinality(Pending(a)) = 0
  <1>1. \A e \in Events : edge[e][a] = 0
    BY DEF TypeOK, CountsInv
  <1>2. Mentions(a) = {}
    BY <1>1 DEF Mentions
  <1>3. \A w \in Writers : Due(w, a) = {}
    BY DEF CountsInv, Ready, Named, Due
  <1>4. Pending(a) = {}
    BY <1>3 DEF Pending
  <1> QED
    BY <1>2, <1>4, FS_EmptySet DEF Mentioned

\* The counts depend on the edges and on what is due.
LEMMA CountsFollow ==
    ASSUME NEW a
    PROVE  /\ edge' = edge => Mentions(a)' = Mentions(a) /\ Mentioned(a)' = Mentioned(a)
           /\ (\A w \in Writers : Due(w, a)' = Due(w, a)) => Pending(a)' = Pending(a)
  <1>1. edge' = edge => Mentions(a)' = Mentions(a) /\ Mentioned(a)' = Mentioned(a)
    BY DEF Mentions, Mentioned
  <1>2. ASSUME \A w \in Writers : Due(w, a)' = Due(w, a)
        PROVE  Pending(a)' = Pending(a)
    BY <1>2 DEF Pending
  <1> QED
    BY <1>1, <1>2

\* A writer that is not behind the actors of write_events owes nothing.
LEMMA NothingDue ==
    ASSUME NEW w \in Writers, NEW a, write[w].todo \notin {AtTopics, AtRelations}
    PROVE  Due(w, a) = {}
BY DEF Due

-----------------------------------------------------------------------------
\* The counts, step by step.

\* A step of one writer keeps CountsInv if its plan is one and fits what is drawn,
\* nothing drawn disappears, and the counts are right.
LEMMA StepOfWriter ==
    ASSUME TypeOK, CountsInv, NEW w \in Writers, NEW r,
           write' = [write EXCEPT ![w] = r],
           r.todo \in Plans, Ready(w)',
           eventNodes \subseteq eventNodes', topicNodes \subseteq topicNodes',
           DOMAIN mentions \subseteq DOMAIN mentions',
           \A e \in Events, a \in Actors : edge'[e][a] > 0 => a \in DOMAIN mentions',
           \A a \in DOMAIN mentions' : Covered(a)'
    PROVE  CountsInv'
  <1>1. write'[w] = r /\ \A v \in Writers \ {w} : write'[v] = write[v]
    BY DEF TypeOK
  <1>2. ASSUME NEW v \in Writers
        PROVE  write'[v].todo \in Plans /\ Ready(v)'
    <2>1. CASE v = w
      BY <2>1, <1>1
    <2>2. CASE v # w
      <3>1. write'[v] = write[v]
        BY <2>2, <1>1
      <3>2. Named(v)' = Named(v)
        BY <3>1 DEF Named
      <3> QED
        BY <3>1, <3>2 DEF CountsInv, Ready
    <2> QED
      BY <2>1, <2>2
  <1> QED
    BY <1>2 DEF CountsInv

\* What a writer owes elsewhere does not change by its step.
LEMMA OthersDue ==
    ASSUME TypeOK, NEW w \in Writers, NEW r, write' = [write EXCEPT ![w] = r]
    PROVE  \A v \in Writers \ {w} : \A a : Due(v, a)' = Due(v, a)
BY DEF TypeOK, Due

\* A step that only moves a writer on, or only creates nodes: actors that have one
\* keep their count; one that is new has none, or is 0 or 1, as long as nothing is
\* due or mentioned.
LEMMA MergeKeepsCounts ==
    ASSUME TypeOK, CountsInv, NEW as \in SUBSET Actors, NEW n,
           mentions' = Merged(as, n), edge' = edge,
           \A a \in Actors : Pending(a)' = Pending(a),
           log'.failed = log.failed, log.implicated \subseteq log'.implicated,
           n \in {0, 1} \/ (n = Nothing /\ as \subseteq log'.implicated)
    PROVE  /\ DOMAIN mentions' = DOMAIN mentions \cup as
           /\ \A e \in Events, a \in Actors : edge'[e][a] > 0 => a \in DOMAIN mentions'
           /\ \A a \in DOMAIN mentions' : Covered(a)'
  <1>1. /\ DOMAIN mentions' = DOMAIN mentions \cup as
        /\ \A a \in DOMAIN mentions' :
              mentions'[a] = IF a \in DOMAIN mentions THEN mentions[a] ELSE n
    BY DEF Merged
  <1>2. ASSUME NEW a \in DOMAIN mentions'
        PROVE  Covered(a)'
    <2>1. a \in Actors
      BY <1>1 DEF TypeOK
    <2>2. Mentioned(a)' = Mentioned(a) /\ Pending(a)' = Pending(a)
      BY <2>1, CountsFollow
    <2>3. CASE a \in DOMAIN mentions
      BY <2>2, <2>3, <1>1 DEF CountsInv, Covered
    <2>4. CASE a \notin DOMAIN mentions
      <3>1. a \in as /\ mentions'[a] = n
        BY <2>4, <1>1
      <3>2. Mentioned(a) = 0 /\ Cardinality(Pending(a)) = 0
        BY <2>1, <2>4, NoNodeNoCount
      <3>3. Mentioned(a)' = 0 /\ Cardinality(Pending(a)') = 0
        BY <2>2, <3>2
      <3>4. CASE n = Nothing /\ as \subseteq log'.implicated
        BY <3>1, <3>4 DEF Covered
      <3>5. CASE n \in {0, 1}
        <4>1. n # Nothing /\ n >= 0 + 0 /\ n <= 0 + 0 + 1
          BY <3>5, NothingAssumption
        <4> QED
          BY <3>1, <3>3, <4>1 DEF Covered
      <3> QED
        BY <3>4, <3>5
    <2> QED
      BY <2>3, <2>4
  <1> QED
    BY <1>1, <1>2 DEF CountsInv

\* A step that draws nothing and after which its writer owes nothing, or what it
\* owed: a beginning, a failure, a transaction of other nodes.
LEMMA IdleStepKeepsCounts ==
    ASSUME TypeOK, CountsInv, NEW w \in Writers, NEW r,
           write' = [write EXCEPT ![w] = r], UNCHANGED <<mentions, edge>>,
           log.implicated \subseteq log'.implicated, log.failed => log'.failed,
           (\A a : Due(w, a)' = Due(w, a)) \/ ((\A a : Due(w, a)' = {}) /\ log'.failed)
    PROVE  /\ \A e \in Events, a \in Actors : edge'[e][a] > 0 => a \in DOMAIN mentions'
           /\ \A a \in DOMAIN mentions' : Covered(a)'
  <1>1. ASSUME NEW a \in DOMAIN mentions'
        PROVE  Covered(a)'
    <2>1. a \in Actors /\ a \in DOMAIN mentions
      BY DEF TypeOK
    <2>2. Mentioned(a)' = Mentioned(a) /\ Covered(a)
      BY <2>1, CountsFollow DEF CountsInv
    <2>3. /\ Mentioned(a) \in Nat
          /\ IsFiniteSet(Pending(a)) /\ Cardinality(Pending(a)) \in Nat
          /\ mentions[a] \in Nat \cup {Nothing}
      BY <2>1, CountsAreNumbers DEF TypeOK
    <2>4. CASE \A b : Due(w, b)' = Due(w, b)
      <3>1. Pending(a)' = Pending(a)
        BY <2>4, OthersDue, CountsFollow
      <3> QED
        BY <3>1, <2>2 DEF Covered
    <2>5. CASE (\A b : Due(w, b)' = {}) /\ log'.failed
      <3>1. Pending(a)' \subseteq Pending(a)
        <4>1. \A v \in Writers : Due(v, a)' \subseteq Due(v, a)
          BY <2>5, OthersDue
        <4> QED
          BY <4>1 DEF Pending
      <3>2. Cardinality(Pending(a)') \in Nat /\ Cardinality(Pending(a)') <= Cardinality(Pending(a))
        BY <2>3, <3>1, FS_Subset, FS_CardinalityType
      <3> QED
        BY <2>2, <2>3, <2>5, <3>2 DEF Covered
    <2> QED
      BY <2>4, <2>5
  <1> QED
    BY <1>1 DEF CountsInv

\* A writer that goes to a plan outside write_events, or to its beginning, needs
\* nothing and owes nothing.
LEMMA Outside ==
    ASSUME TypeOK, NEW w \in Writers, NEW r, write' = [write EXCEPT ![w] = r],
           r.todo \in {<<>>, AtSignals, AtLinks, AtEvents, AtReport, AtClick}
    PROVE  /\ r.todo \in Plans
           /\ Ready(w)'
           /\ \A a : Due(w, a)' = {}
  <1>1. write'[w] = r
    BY DEF TypeOK
  <1>2. r.todo \notin {AtActors, AtTopics, AtRelations} /\ r.todo \in Plans
    BY PlanFacts DEF Plans
  <1> QED
    BY <1>1, <1>2 DEF Ready, Due

\* A call that begins owes nothing yet: its first transaction matches nothing.
LEMMA BeginKeepsCounts ==
    ASSUME TypeOK, CountsInv, NEW w \in Writers, Ingest(w) \/ Report(w)
    PROVE  CountsInv'
  <1>1. PICK r : /\ write' = [write EXCEPT ![w] = r]
                 /\ r.todo \in {AtSignals, AtEvents, AtReport, AtClick}
    <2>1. ASSUME NEW es, NEW calls \in {AtSignals, AtEvents}, Begin(w, Call(calls, es, {}))
          PROVE  \E r : /\ write' = [write EXCEPT ![w] = r]
                        /\ r.todo \in {AtSignals, AtEvents, AtReport, AtClick}
      <3>1. Call(calls, es, {}).todo = calls
        BY DEF Call
      <3> QED
        BY <2>1, <3>1 DEF Begin
    <2>2. ASSUME NEW a, NEW calls \in {AtReport, AtClick}, Begin(w, Call(calls, {}, {a}))
          PROVE  \E r : /\ write' = [write EXCEPT ![w] = r]
                        /\ r.todo \in {AtSignals, AtEvents, AtReport, AtClick}
      <3>1. Call(calls, {}, {a}).todo = calls
        BY DEF Call
      <3> QED
        BY <2>2, <3>1 DEF Begin
    <2>3. CASE Ingest(w)
      BY <2>1, <2>3 DEF Ingest, AtSignals, AtEvents
    <2>4. CASE Report(w)
      BY <2>2, <2>4 DEF Report, AtReport, AtClick
    <2> QED
      BY <2>3, <2>4
  <1>2. write[w].todo = <<>> /\ UNCHANGED <<drawn, log>>
    BY DEF Ingest, Report, Begin, Idle
  <1>3. \A a : Due(w, a)' = Due(w, a)
    BY <1>1, <1>2, Outside, NothingDue, PlanFacts
  <1> QED
    BY <1>1, <1>2, <1>3, Outside, IdleStepKeepsCounts, StepOfWriter DEF drawn

\* A call that fails may leave mentions counted and never drawn: counts only exceed.
LEMMA FailKeepsCounts ==
    ASSUME TypeOK, CountsInv, NEW w \in Writers, Fail(w)
    PROVE  CountsInv'
  <1> DEFINE r == Skipped(w)
  <1>1. write[w].todo \in Plans \ {<<>>} /\ write[w] \in [todo : Seq(Seq(Kinds)), of : SUBSET Events, actors : SUBSET Actors]
    BY DEF Fail, Idle, CountsInv, TypeOK
  <1>2. r.todo \in {<<>>, AtEvents}
    BY <1>1, PlanFailures DEF Plans, Rest, Call
  <1>3. write' = [write EXCEPT ![w] = r] /\ log'.failed /\ log'.implicated = log.implicated /\ UNCHANGED drawn
    BY DEF Fail, TypeOK
  <1> HIDE DEF r
  <1> QED
    BY <1>2, <1>3, Outside, IdleStepKeepsCounts, StepOfWriter DEF drawn

\* Nodes of events and topics.
LEMMA EventNodesKeepCounts ==
    ASSUME TypeOK, CountsInv, NEW w \in Writers, WriteEventNodes(w), Advance(w)
    PROVE  CountsInv'
  <1> DEFINE r == After(w)
  <1>1. write[w].todo = AtEvents
    BY PlanHeads DEF WriteEventNodes, Turn, Idle, CountsInv, Plans
  <1>2. write[w] \in [todo : Seq(Seq(Kinds)), of : SUBSET Events, actors : SUBSET Actors]
    BY DEF TypeOK
  <1>3. r.todo = AtActors /\ r.of = write[w].of
    BY <1>1, <1>2, PlanTails
  <1>4. write' = [write EXCEPT ![w] = r]
    BY DEF Advance
  <1>5. write'[w] = r
    BY <1>4 DEF TypeOK
  <1> HIDE DEF r
  <1>6. Ready(w)' /\ r.todo \in Plans
    BY <1>3, <1>5, PlanFacts DEF Ready, WriteEventNodes, Plans
  <1>7. \A a : Due(w, a)' = Due(w, a)
    BY <1>1, <1>3, <1>5, PlanFacts DEF Due
  <1> QED
    BY <1>4, <1>6, <1>7, IdleStepKeepsCounts, StepOfWriter DEF WriteEventNodes

\* The transaction of topics leaves counts and what is due alone.
LEMMA TopicNodesKeepCounts ==
    ASSUME TypeOK, CountsInv, NEW w \in Writers, WriteTopicNodes(w), Advance(w)
    PROVE  CountsInv'
  <1> DEFINE r == After(w)
  <1>1. write[w].todo = AtTopics
    BY PlanHeads DEF WriteTopicNodes, Turn, Idle, CountsInv, Plans
  <1>2. write[w] \in [todo : Seq(Seq(Kinds)), of : SUBSET Events, actors : SUBSET Actors]
    BY DEF TypeOK
  <1>3. r.todo = AtRelations /\ r.of = write[w].of
    BY <1>1, <1>2, PlanTails
  <1>4. write' = [write EXCEPT ![w] = r]
    BY DEF Advance
  <1>5. write'[w] = r
    BY <1>4 DEF TypeOK
  <1> HIDE DEF r
  <1>6. Ready(w)' /\ r.todo \in Plans
    <2>1. Ready(w)
      BY DEF CountsInv
    <2>2. Named(w)' = Named(w)
      BY <1>3, <1>5 DEF Named
    <2> QED
      BY <1>1, <1>3, <1>5, <2>1, <2>2 DEF Ready, WriteTopicNodes, Plans
  <1>7. \A a : Due(w, a)' = Due(w, a)
    BY <1>1, <1>3, <1>5 DEF Due
  <1> QED
    BY <1>4, <1>6, <1>7, IdleStepKeepsCounts, StepOfWriter DEF WriteTopicNodes

\* Signals, which count nothing of themselves, and the nodes they create.
LEMMA SignalsKeepCounts ==
    ASSUME TypeOK, CountsInv, NEW w \in Writers, WriteSignalNodes(w), Advance(w)
    PROVE  CountsInv'
  <1> DEFINE r == After(w)
  <1>1. write[w].todo = AtSignals
    BY PlanHeads DEF WriteSignalNodes, Turn, Idle, CountsInv, Plans
  <1>2. write[w] \in [todo : Seq(Seq(Kinds)), of : SUBSET Events, actors : SUBSET Actors]
    BY DEF TypeOK
  <1>3. r.todo = AtLinks
    BY <1>1, <1>2, PlanTails
  <1>4. write' = [write EXCEPT ![w] = r]
    BY DEF Advance
  <1> HIDE DEF r
  <1>5. \A a : Due(w, a)' = Due(w, a)
    BY <1>1, <1>3, <1>4, Outside, NothingDue, PlanFacts
  <1> QED
    BY <1>3, <1>4, <1>5, Outside, IdleStepKeepsCounts, StepOfWriter DEF WriteSignalNodes

\* Nodes that signals, reports and clicks create.
LEMMA MergesKeepCounts ==
    ASSUME TypeOK, CountsInv, NEW w \in Writers,
           WriteSignalRelationships(w) \/ WriteReport(w) \/ EnsureActor(w), Advance(w)
    PROVE  CountsInv'
  <1> DEFINE r == After(w)
  <1>1. write[w].todo \in {AtLinks, AtReport, AtClick}
    BY PlanHeads DEF WriteSignalRelationships, WriteReport, EnsureActor, Turn, Idle, CountsInv, Plans
  <1>2. write[w] \in [todo : Seq(Seq(Kinds)), of : SUBSET Events, actors : SUBSET Actors]
    BY DEF TypeOK
  <1>3. r.todo \in {AtEvents, <<>>}
    BY <1>1, <1>2, PlanTails DEF Rest, Call
  <1>4. write' = [write EXCEPT ![w] = r]
    BY DEF Advance
  <1> HIDE DEF r
  <1>5. r.todo \in Plans /\ Ready(w)' /\ \A a : Due(w, a)' = Due(w, a)
    BY <1>1, <1>3, <1>4, Outside, NothingDue, PlanFacts
  <1>6. \A a \in Actors : Pending(a)' = Pending(a)
    BY <1>4, <1>5, OthersDue, CountsFollow
  <1>7. PICK as, n :
          /\ as \subseteq Actors /\ mentions' = Merged(as, n) /\ edge' = edge
          /\ log'.failed = log.failed /\ log.implicated \subseteq log'.implicated
          /\ n \in {0, 1} \/ (n = Nothing /\ as \subseteq log'.implicated)
          /\ eventNodes' = eventNodes /\ topicNodes \subseteq topicNodes'
    <2>1. CASE WriteSignalRelationships(w)
      <3> DEFINE as == UNION {Names(e) : e \in write[w].of \cap signalNodes}
      <3>1. as \in SUBSET Actors
        BY <1>2, EventsAssumption
      <3> QED
        BY <2>1, <3>1 DEF WriteSignalRelationships
    <2>2. CASE WriteReport(w)
      BY <1>2, <2>2 DEF WriteReport, ReportCount, TypeOK
    <2>3. CASE EnsureActor(w)
      BY <1>2, <2>3 DEF EnsureActor
    <2> QED
      BY <2>1, <2>2, <2>3
  <1>8. /\ DOMAIN mentions' = DOMAIN mentions \cup as
        /\ \A e \in Events, a \in Actors : edge'[e][a] > 0 => a \in DOMAIN mentions'
        /\ \A a \in DOMAIN mentions' : Covered(a)'
    BY <1>6, <1>7, MergeKeepsCounts
  <1> QED
    BY <1>4, <1>5, <1>7, <1>8, StepOfWriter

\* Actors: what their nodes count is due from here on.
LEMMA ActorNodesKeepCounts ==
    ASSUME TypeOK, CountsInv, NEW w \in Writers, WriteActorNodes(w), Advance(w)
    PROVE  CountsInv'
  <1> DEFINE r == After(w)
  <1>1. write[w].todo = AtActors
    BY PlanHeads DEF WriteActorNodes, Turn, Idle, CountsInv, Plans
  <1>2. write[w] \in [todo : Seq(Seq(Kinds)), of : SUBSET Events, actors : SUBSET Actors]
    BY DEF TypeOK
  <1>3. r.todo = AtTopics /\ r.of = write[w].of
    BY <1>1, <1>2, PlanTails
  <1>4. write' = [write EXCEPT ![w] = r]
    BY DEF Advance
  <1>5. write'[w] = r
    BY <1>4 DEF TypeOK
  <1> HIDE DEF r
  <1>6. /\ DOMAIN mentions' = DOMAIN mentions \cup Named(w)
        /\ \A a \in DOMAIN mentions' :
              mentions'[a] = IF a \notin DOMAIN mentions THEN Count(w, a)
                             ELSE IF mentions[a] = Nothing THEN Nothing
                             ELSE mentions[a] + Count(w, a)
        /\ UNCHANGED <<eventNodes, topicNodes, edge, log>>
    BY DEF WriteActorNodes
  <1>7. Named(w) \subseteq Actors
    BY <1>2, EventsAssumption DEF Named
  <1>8. Ready(w)' /\ r.todo \in Plans
    <2>1. Ready(w) /\ Named(w)' = Named(w)
      BY <1>3, <1>5 DEF CountsInv, Named
    <2> QED
      BY <1>1, <1>3, <1>5, <1>6, <2>1, PlanFacts DEF Ready, Plans
  <1>9. ASSUME NEW a \in DOMAIN mentions'
        PROVE  Covered(a)'
    <2> DEFINE due == {e \in write[w].of : a \in Names(e)}
    <2>1. a \in Actors
      BY <1>6, <1>7 DEF TypeOK
    <2>2. /\ Mentioned(a) \in Nat /\ Mentioned(a)' = Mentioned(a)
          /\ IsFiniteSet(Pending(a)) /\ Cardinality(Pending(a)) \in Nat
          /\ IsFiniteSet(due) /\ Count(w, a) \in Nat
      BY <1>6, <2>1, CountsAreNumbers, CountsFollow
    <2>3. Pending(a)' = Pending(a) \cup ({w} \X due)
      <3>1. Due(w, a)' = due /\ Due(w, a) = {}
        BY <1>1, <1>3, <1>5, PlanFacts DEF Due
      <3>2. \A v \in Writers \ {w} : Due(v, a)' = Due(v, a)
        BY <1>4, OthersDue
      <3> HIDE DEF due
      <3> QED
        BY <3>1, <3>2 DEF Pending
    <2>4. Pending(a) \cap ({w} \X due) = {}
      BY <1>1, PlanFacts DEF Pending, Due
    <2>5. IsFiniteSet({w} \X due) /\ Cardinality({w} \X due) = Count(w, a)
      BY <2>2, RowCounted DEF Count
    <2> HIDE DEF due
    <2>6. Cardinality(Pending(a)') = Cardinality(Pending(a)) + Count(w, a)
      <3>1. Cardinality(Pending(a) \cup ({w} \X due))
              = Cardinality(Pending(a)) + Cardinality({w} \X due) - Cardinality({})
        BY <2>2, <2>4, <2>5, FS_Union
      <3> QED
        BY <2>2, <2>3, <2>5, <3>1, FS_EmptySet
    <2>7. CASE a \notin DOMAIN mentions
      <3>1. Mentioned(a) = 0 /\ Cardinality(Pending(a)) = 0
        BY <2>1, <2>7, NoNodeNoCount
      <3>2. mentions'[a] = Count(w, a) /\ Count(w, a) # Nothing
        BY <1>6, <2>2, <2>7, NothingAssumption
      <3> QED
        BY <2>2, <2>6, <3>1, <3>2 DEF Covered
    <2>8. CASE a \in DOMAIN mentions /\ mentions[a] = Nothing
      BY <1>6, <2>8 DEF CountsInv, Covered
    <2>9. CASE a \in DOMAIN mentions /\ mentions[a] # Nothing
      <3>1. mentions[a] \in Nat /\ mentions'[a] = mentions[a] + Count(w, a)
        BY <1>6, <2>9 DEF TypeOK
      <3>2. mentions'[a] # Nothing
        BY <2>2, <3>1, NothingAssumption
      <3>3. /\ mentions[a] >= Mentioned(a) + Cardinality(Pending(a))
            /\ ~log.failed => mentions[a] <= Mentioned(a) + Cardinality(Pending(a)) + 1
        BY <2>9 DEF CountsInv, Covered
      <3> QED
        BY <1>6, <2>2, <2>6, <3>1, <3>2, <3>3 DEF Covered
    <2> QED
      BY <2>7, <2>8, <2>9
  <1>10. \A e \in Events, a \in Actors : edge'[e][a] > 0 => a \in DOMAIN mentions'
    BY <1>6 DEF CountsInv
  <1> QED
    BY <1>4, <1>6, <1>8, <1>9, <1>10, StepOfWriter

\* Relationships: what was due is mentioned, once for every edge.
LEMMA RelationshipsKeepCounts ==
    ASSUME TypeOK, CountsInv, NEW w \in Writers, WriteRelationships(w), Advance(w)
    PROVE  CountsInv'
  <1> DEFINE r == After(w)
             es == write[w].of
             More(e, a) == IF e \in es /\ a \in Names(e) THEN 1 ELSE 0
  <1>1. write[w].todo = AtRelations
    BY PlanHeads DEF WriteRelationships, Turn, Idle, CountsInv, Plans
  <1>2. es \in SUBSET Events
    BY DEF TypeOK
  <1>3. r.todo = <<>>
    BY <1>1, PlanTails DEF Rest, Call
  <1>4. write' = [write EXCEPT ![w] = r]
    BY DEF Advance
  <1>5. write'[w] = r
    BY <1>4 DEF TypeOK
  <1> HIDE DEF r
  <1>6. UNCHANGED <<eventNodes, topicNodes, mentions, log.failed, log.implicated>>
    BY DEF WriteRelationships, TypeOK
  <1>7. es \subseteq eventNodes /\ \A e \in es : Names(e) \subseteq DOMAIN mentions
    BY <1>1, PlanFacts DEF CountsInv, Ready, Named
  <1>8. \A e \in Events, a \in Actors : edge'[e][a] = edge[e][a] + More(e, a)
    BY <1>7 DEF WriteRelationships
  <1>9. \A e \in Events, a \in Actors : edge'[e][a] > 0 => a \in DOMAIN mentions'
    BY <1>6, <1>7, <1>8 DEF CountsInv, TypeOK
  <1>10. ASSUME NEW a \in DOMAIN mentions'
         PROVE  Covered(a)'
    <2> DEFINE due == {e \in es : a \in Names(e)}
               new == {<<e, edge[e][a] + 1>> : e \in due}
    <2>1. a \in Actors /\ a \in DOMAIN mentions
      BY <1>6 DEF TypeOK
    <2>2. /\ IsFiniteSet(Mentions(a)) /\ Mentioned(a) \in Nat
          /\ IsFiniteSet(Pending(a)) /\ Cardinality(Pending(a)) \in Nat
          /\ IsFiniteSet(due) /\ Cardinality(due) \in Nat
      BY <2>1, CountsAreNumbers, FS_CardinalityType DEF Count
    <2>3. Mentions(a)' = Mentions(a) \cup new
      <3>1. \A e \in Events : edge[e][a] \in Nat
        BY <2>1 DEF TypeOK
      <3>2. \A e \in Events : {e} \X (1..edge'[e][a])
              = ({e} \X (1..edge[e][a])) \cup {<<d, edge[d][a] + 1>> : d \in due \cap {e}}
        <4> SUFFICES ASSUME NEW e \in Events
                     PROVE  {e} \X (1..edge'[e][a])
                              = ({e} \X (1..edge[e][a])) \cup {<<d, edge[d][a] + 1>> : d \in due \cap {e}}
          OBVIOUS
        <4>1. CASE e \in due
          <5>1. edge'[e][a] = edge[e][a] + 1
            BY <1>8, <2>1, <4>1
          <5>2. 1..edge'[e][a] = (1..edge[e][a]) \cup {edge[e][a] + 1}
            BY <3>1, <5>1
          <5>3. {<<d, edge[d][a] + 1>> : d \in due \cap {e}} = {<<e, edge[e][a] + 1>>}
            BY <4>1
          <5> HIDE DEF due
          <5> QED
            BY <5>2, <5>3
        <4>2. CASE e \notin due
          <5>1. edge'[e][a] = edge[e][a]
            BY <1>8, <2>1, <3>1, <4>2
          <5> HIDE DEF due
          <5> QED
            BY <4>2, <5>1
        <4> QED
          BY <4>1, <4>2
      <3>3. due \subseteq Events
        BY <1>2
      <3> HIDE DEF due
      <3>4. Mentions(a)' = UNION {{e} \X (1..edge'[e][a]) : e \in Events}
        BY DEF Mentions
      <3>5. UNION {{<<d, edge[d][a] + 1>> : d \in due \cap {e}} : e \in Events} = new
        BY <3>3
      <3> QED
        BY <3>2, <3>4, <3>5 DEF Mentions
    <2>4. Mentions(a) \cap new = {}
      <3>1. \A e \in Events : edge[e][a] \in Nat
        BY <2>1 DEF TypeOK
      <3> QED
        BY <1>2, <3>1 DEF Mentions
    <2>5. IsFiniteSet(new) /\ Cardinality(new) = Cardinality(due)
      <3> DEFINE g == [e \in Events |-> edge[e][a] + 1]
      <3>1. new = {<<e, g[e]>> : e \in due}
        BY <1>2
      <3> HIDE DEF g, due, new
      <3> QED
        BY <2>2, <3>1, PairsCounted
    <2>6. {w} \X due \subseteq Pending(a) /\ Pending(a)' = Pending(a) \ ({w} \X due)
      <3>1. Due(w, a) = due /\ Due(w, a)' = {}
        BY <1>1, <1>3, <1>5, PlanFacts DEF Due
      <3>2. \A v \in Writers \ {w} : Due(v, a)' = Due(v, a)
        BY <1>4, OthersDue
      <3> HIDE DEF due
      <3> QED
        BY <3>1, <3>2 DEF Pending
    <2>7. IsFiniteSet({w} \X due) /\ Cardinality({w} \X due) = Cardinality(due)
      BY <2>2, RowCounted
    <2> HIDE DEF due, new
    <2>8. Mentioned(a)' = Mentioned(a) + Cardinality(due)
      <3>1. Cardinality(Mentions(a) \cup new) = Cardinality(Mentions(a)) + Cardinality(new) - Cardinality({})
        BY <2>2, <2>4, <2>5, FS_Union
      <3> QED
        BY <2>2, <2>3, <2>5, <3>1, FS_EmptySet DEF Mentioned
    <2>9. Cardinality(Pending(a)') = Cardinality(Pending(a)) - Cardinality(due)
      <3>1. Pending(a) \cap ({w} \X due) = {w} \X due
        BY <2>6
      <3>2. Cardinality(Pending(a) \ ({w} \X due))
              = Cardinality(Pending(a)) - Cardinality(Pending(a) \cap ({w} \X due))
        BY <2>2, FS_Difference
      <3> QED
        BY <2>6, <2>7, <3>1, <3>2
    <2>10. Mentioned(a)' + Cardinality(Pending(a)') = Mentioned(a) + Cardinality(Pending(a))
      BY <2>2, <2>8, <2>9
    <2>11. mentions'[a] = mentions[a] /\ Covered(a)
      BY <1>6, <2>1 DEF CountsInv
    <2> QED
      BY <1>6, <2>10, <2>11 DEF Covered
  <1>11. r.todo \in Plans /\ Ready(w)'
    BY <1>3, <1>4, Outside
  <1> QED
    BY <1>4, <1>6, <1>9, <1>10, <1>11, StepOfWriter

\* No transaction of a writer disturbs the counts.
LEMMA TransactKeepsCounts ==
    ASSUME TypeOK, CountsInv, NEW w \in Writers, Transact(w)
    PROVE  CountsInv'
  <1>1. Advance(w)
    BY DEF Transact
  <1> QED
    BY <1>1, EventNodesKeepCounts, ActorNodesKeepCounts, TopicNodesKeepCounts,
       RelationshipsKeepCounts, SignalsKeepCounts, MergesKeepCounts DEF Transact

-----------------------------------------------------------------------------
\* Edges and paths.

\* Nothing that is drawn disappears.
LEMMA DrawnGrows ==
    ASSUME TypeOK, CountsInv, Next
    PROVE  /\ \A e \in Events, a \in Actors : edge[e][a] <= edge'[e][a]
           /\ about \subseteq about'
           /\ \A p \in Pairs : together[p] <= together'[p]
  <1> DEFINE Grown == /\ \A e \in Events, a \in Actors : edge[e][a] <= edge'[e][a]
                      /\ about \subseteq about'
                      /\ \A p \in Pairs : together[p] <= together'[p]
  <1>1. /\ \A e \in Events, a \in Actors : edge[e][a] \in Nat
        /\ \A p \in Pairs : together[p] \in Nat
    BY DEF TypeOK
  <1>2. CASE UNCHANGED <<edge, about, together>>
    BY <1>1, <1>2
  <1>3. ASSUME NEW w \in Writers, WriteRelationships(w)
        PROVE  Grown
    <2>1. \A p \in Pairs : Cardinality({e \in write[w].of : p \subseteq Names(e) \cap DOMAIN mentions}) \in Nat
      <3> TAKE p \in Pairs
      <3>1. {e \in write[w].of : p \subseteq Names(e) \cap DOMAIN mentions} \subseteq Events
        BY DEF TypeOK
      <3> QED
        BY <3>1, FiniteAssumption, FS_Subset, FS_CardinalityType
    <2> QED
      BY <1>1, <1>3, <2>1 DEF WriteRelationships
  <1> QED
    BY <1>2, <1>3 DEF Next, Ingest, Report, Begin, Transact, Fail, Detect, Label, Snapshot, PassFails,
        drawn, WriteEventNodes, WriteActorNodes, WriteTopicNodes, WriteSignalNodes,
        WriteSignalRelationships, WriteReport, EnsureActor

\* A path stays.
LEMMA PathsStay ==
    ASSUME TypeOK, TypeOK', \A p \in Pairs : together[p] <= together'[p]
    PROVE  /\ Linked \subseteq Linked' /\ Joined \subseteq Joined'
           /\ \A a : Component(a) \subseteq Component(a)'
  <1>1. Linked \subseteq Linked'
    BY DEF Linked, TypeOK
  <1> QED
    BY <1>1 DEF Joined, Component

\* An event whose relationships are committed is drawn completely.
LEMMA NextKeepsEdges ==
    ASSUME TypeOK, TypeOK', CountsInv, EdgesComplete, Next
    PROVE  EdgesComplete'
  <1> DEFINE Complete(e) ==
          /\ \A a \in Names(e) : edge[e][a] > 0
          /\ \A t \in About(e) : <<e, t>> \in about
          /\ \A p \in Pairs : p \subseteq Names(e) => p \in Linked
  <1>1. /\ \A e \in Events, a \in Actors : edge[e][a] \in Nat /\ edge'[e][a] \in Nat
        /\ \A e \in Events : Names(e) \subseteq Actors
        /\ log.whole \subseteq Events
    BY EventsAssumption DEF TypeOK
  <1>2. \A e \in log.whole : Complete(e)'
    BY <1>1, DrawnGrows, PathsStay DEF EdgesComplete
  <1>3. CASE log'.whole = log.whole
    BY <1>2, <1>3 DEF EdgesComplete
  <1>4. ASSUME NEW w \in Writers, WriteRelationships(w)
        PROVE  \A e \in log'.whole : Complete(e)'
    <2> DEFINE es == write[w].of
               Ends(e) == Names(e) \cap DOMAIN mentions
    <2>1. write[w].todo = AtRelations
      BY <1>4, PlanHeads DEF WriteRelationships, Turn, Idle, CountsInv, Plans
    <2>2. /\ es \subseteq eventNodes /\ \A e \in es : Ends(e) = Names(e) /\ About(e) \subseteq topicNodes
          /\ es \subseteq Events
      BY <2>1, PlanFacts DEF CountsInv, Ready, Named, TypeOK
    <2>3. log'.whole = log.whole \cup es
      BY <1>4 DEF WriteRelationships, TypeOK
    <2>4. ASSUME NEW e \in es
          PROVE  Complete(e)'
      <3>1. \A a \in Names(e) : edge'[e][a] > 0
        <4> TAKE a \in Names(e)
        <4>1. edge'[e][a] = edge[e][a] + 1
          BY <1>1, <1>4, <2>2 DEF WriteRelationships
        <4> QED
          BY <1>1, <2>2, <4>1
      <3>2. \A t \in About(e) : <<e, t>> \in about'
        BY <1>4, <2>2 DEF WriteRelationships
      <3>3. ASSUME NEW p \in Pairs, p \subseteq Names(e)
            PROVE  p \in Linked'
        <4> DEFINE mentioning == {d \in es : p \subseteq Ends(d)}
        <4>1. together'[p] = together[p] + Cardinality(mentioning)
          BY <1>4 DEF WriteRelationships
        <4>2. e \in mentioning /\ mentioning \subseteq Events
          BY <2>2, <3>3
        <4> HIDE DEF mentioning
        <4>3. Cardinality(mentioning) \in Nat /\ Cardinality(mentioning) # 0
          BY <4>2, FiniteAssumption, FS_Subset, FS_CardinalityType, FS_EmptySet
        <4>4. together[p] \in Nat
          BY DEF TypeOK
        <4> QED
          BY <4>1, <4>3, <4>4 DEF Linked
      <3> QED
        BY <3>1, <3>2, <3>3
    <2> QED
      BY <1>2, <2>3, <2>4
  <1>5. ASSUME NEW w \in Writers, WriteRelationships(w)
        PROVE  EdgesComplete'
    BY <1>4, <1>5 DEF EdgesComplete
  <1> QED
    BY <1>3, <1>5 DEF Next, Ingest, Report, Begin, Transact, Fail, Detect, Label, Snapshot, PassFails,
        TypeOK, WriteEventNodes, WriteActorNodes, WriteTopicNodes, WriteSignalNodes,
        WriteSignalRelationships, WriteReport, EnsureActor

-----------------------------------------------------------------------------
\* Labels.

\* The labels of a pass are a function from actors to labels, and finitely many.
LEMMA LabelsTyped ==
    ASSUME TypeOK, NEW p \in Pipelines
    PROVE  /\ DOMAIN pass[p].labels \subseteq Actors
           /\ \A a \in DOMAIN pass[p].labels : pass[p].labels[a] \in Labels
           /\ IsFiniteSet(Range(pass[p].labels)) /\ Cardinality(Range(pass[p].labels)) \in Nat
  <1> DEFINE f == pass[p].labels
  <1>1. f \in UNION {[as -> Labels] : as \in SUBSET Actors}
    BY DEF TypeOK
  <1>2. PICK as \in SUBSET Actors : f \in [as -> Labels]
    BY <1>1
  <1>3. IsFiniteSet(as)
    BY FiniteAssumption, FS_Subset
  <1> HIDE DEF f
  <1>4. f \in Surjection(as, Range(f))
    BY <1>2 DEF Surjection, Range
  <1>5. IsFiniteSet(Range(f)) /\ Cardinality(Range(f)) \in Nat
    BY <1>3, <1>4, FS_Surjection, FS_CardinalityType
  <1> QED
    BY <1>2, <1>5 DEF f

\* A labelling is such a function: there are no more components than actors.
LEMMA LabellingsTyped ==
    ASSUME NEW f \in Labellings
    PROVE  /\ f \in UNION {[as -> Labels] : as \in SUBSET Actors}
           /\ DOMAIN f = Joined
           /\ \A a, b \in Joined : f[a] = f[b] => b \in Component(a)
  <1>1. Joined \subseteq Actors
    BY DEF Joined, Linked, Pairs
  <1>2. Cardinality(Components) \in Nat /\ Cardinality(Components) <= Cardinality(Actors)
    <2> DEFINE c == [a \in Joined |-> Component(a)]
    <2>1. c \in Surjection(Joined, Components)
      BY DEF Surjection, Components
    <2>2. IsFiniteSet(Joined) /\ Cardinality(Joined) <= Cardinality(Actors)
      BY <1>1, FiniteAssumption, FS_Subset
    <2> HIDE DEF c
    <2>3. IsFiniteSet(Components) /\ Cardinality(Components) <= Cardinality(Joined)
      BY <2>1, <2>2, FS_Surjection
    <2> QED
      BY <2>2, <2>3, FiniteAssumption, FS_CardinalityType
  <1>3. Cardinality(Actors) \in Nat
    BY FiniteAssumption, FS_CardinalityType
  <1>4. 0..(Cardinality(Components) - 1) \subseteq Labels
    BY <1>2, <1>3 DEF Labels
  <1>5. f \in [Joined -> Labels]
    BY <1>4 DEF Labellings
  <1>6. \A a, b \in Joined : f[a] = f[b] => b \in Component(a)
    <2>1. \A b \in Actors : b \in Component(b)
      BY DEF Component
    <2> QED
      BY <1>1, <2>1 DEF Labellings
  <1> QED
    BY <1>1, <1>5, <1>6

\* Writers only add paths.
LEMMA WritersKeepLabels ==
    ASSUME TypeOK, TypeOK', LabelsInv, CommunitiesAgree,
           \A p \in Pairs : together[p] <= together'[p],
           UNCHANGED <<community, cached, pass, log.calm>>
    PROVE  LabelsInv' /\ CommunitiesAgree'
  <1>1. Joined \subseteq Joined' /\ \A a : Component(a) \subseteq Component(a)'
    BY PathsStay
  <1>2. LabelsInv'
    BY <1>1 DEF LabelsInv, Backed
  <1>3. CommunitiesAgree'
    BY <1>1 DEF CommunitiesAgree
  <1> QED
    BY <1>2, <1>3

\* A pass that holds new labels, or none, and nobody else's step.
LEMMA PassKeepsLabels ==
    ASSUME TypeOK, LabelsInv, NEW p \in Pipelines, NEW r, pass' = [pass EXCEPT ![p] = r],
           UNCHANGED <<community, together>>, Backed(p)'
    PROVE  LabelsInv'
  <1>1. /\ \A q \in Pipelines \ {p} : pass'[q] = pass[q]
        /\ Linked' = Linked /\ Joined' = Joined /\ \A a : Component(a)' = Component(a)
    BY DEF TypeOK, Linked, Joined, Component
  <1>2. \A q \in Pipelines \ {p} : Backed(q)'
    BY <1>1 DEF LabelsInv, Backed
  <1> QED
    BY <1>1, <1>2 DEF LabelsInv

\* detect_communities gives one number to actors of one component.
LEMMA DetectKeepsLabels ==
    ASSUME TypeOK, LabelsInv, CommunitiesAgree, NEW p \in Pipelines, Detect(p)
    PROVE  LabelsInv' /\ CommunitiesAgree'
  <1>1. PICK f \in Labellings :
          pass' = [pass EXCEPT ![p] = [stage |-> "label", labels |-> f, fresh |-> TRUE]]
    BY DEF Detect
  <1>2. UNCHANGED <<community, together, cached, log>>
    BY DEF Detect, drawn
  <1>3. Linked' = Linked /\ Joined' = Joined /\ \A a : Component(a)' = Component(a)
    BY <1>2 DEF Linked, Joined, Component
  <1>4. pass'[p] = [stage |-> "label", labels |-> f, fresh |-> TRUE]
    BY <1>1 DEF TypeOK
  <1>5. Backed(p)'
    BY <1>2, <1>3, <1>4, LabellingsTyped DEF Backed, LabelsInv
  <1>6. LabelsInv'
    BY <1>1, <1>2, <1>5, PassKeepsLabels
  <1> QED
    BY <1>2, <1>3, <1>6 DEF CommunitiesAgree

\* A pass that labels undisturbed gives every label there is, and each pass beside
\* it is disturbed.
LEMMA LabelKeepsLabels ==
    ASSUME TypeOK, LabelsInv, CommunitiesAgree, NEW p \in Pipelines, Label(p)
    PROVE  LabelsInv' /\ CommunitiesAgree'
  <1> DEFINE f == pass[p].labels
  <1>1. /\ pass[p].stage = "label"
        /\ \A a \in Actors : community'[a] = IF a \in DOMAIN f THEN f[a] ELSE community[a]
        /\ log'.calm = pass[p].fresh
        /\ UNCHANGED <<together, cached>>
    BY DEF Label, Labelled, drawn, TypeOK
  <1>2. Linked' = Linked /\ Joined' = Joined /\ \A a : Component(a)' = Component(a)
    BY <1>1 DEF Linked, Joined, Component
  <1>3. /\ pass'[p].stage = "snapshot" /\ pass'[p].labels = f /\ pass'[p].fresh = pass[p].fresh
        /\ \A q \in Pipelines \ {p} : /\ ~pass'[q].fresh
                                      /\ pass'[q].stage = pass[q].stage
                                      /\ pass'[q].labels = pass[q].labels
    <2> DEFINE Record == [stage : {"idle", "label", "snapshot"}, fresh : BOOLEAN,
                          labels : UNION {[as -> Labels] : as \in SUBSET Actors}]
    <2>1. pass \in [Pipelines -> Record]
      BY DEF TypeOK
    <2>2. \A q \in Pipelines : pass'[q] = IF q = p THEN [pass[p] EXCEPT !.stage = "snapshot"]
                                          ELSE [pass[q] EXCEPT !.fresh = FALSE]
      BY DEF Label
    <2> QED
      BY <2>1, <2>2
  <1>4. Backed(p)
    BY DEF LabelsInv
  <1>5. pass[p].fresh =>
          \A a \in Actors : community'[a] # Nothing => a \in DOMAIN f /\ community'[a] = f[a]
    BY <1>1, <1>4 DEF Backed
  <1>6. \A q \in Pipelines : Backed(q)'
    <2>1. Backed(p)'
      BY <1>1, <1>2, <1>3, <1>4, <1>5 DEF Backed
    <2>2. \A q \in Pipelines \ {p} : Backed(q)'
      BY <1>2, <1>3 DEF LabelsInv, Backed
    <2> QED
      BY <2>1, <2>2
  <1>7. \A a \in Actors : community'[a] # Nothing => a \in Joined'
    BY <1>1, <1>2, <1>4 DEF Backed, LabelsInv
  <1>8. log'.calm => \A a, b \in Actors :
          community'[a] # Nothing /\ community'[a] = community'[b] => b \in Component(a)'
    BY <1>1, <1>2, <1>4, <1>5 DEF Backed
  <1> QED
    BY <1>1, <1>6, <1>7, <1>8 DEF LabelsInv, CommunitiesAgree

\* The labels that an undisturbed pass finds are its own.
LEMMA SnapshotKeepsLabels ==
    ASSUME TypeOK, LabelsInv, CommunitiesAgree, NEW p \in Pipelines, Snapshot(p)
    PROVE  LabelsInv' /\ CommunitiesAgree'
  <1> DEFINE f == pass[p].labels
             shown == {community[a] : a \in Joined} \ {Nothing}
  <1>1. /\ pass[p].stage = "snapshot"
        /\ cached' = [count |-> Cardinality(Range(f)), shown |-> shown, calm |-> pass[p].fresh /\ log.calm]
        /\ pass' = [pass EXCEPT ![p] = NoPass]
        /\ UNCHANGED <<community, together, log>>
    BY DEF Snapshot, drawn
  <1>2. Linked' = Linked /\ Joined' = Joined /\ \A a : Component(a)' = Component(a)
    BY <1>1 DEF Linked, Joined, Component
  <1>3. Joined \subseteq Actors
    BY DEF Joined, Linked, Pairs
  <1>4. cached'.calm => Cardinality(cached'.shown) <= cached'.count
    <2> SUFFICES ASSUME pass[p].fresh
                 PROVE  Cardinality(shown) <= Cardinality(Range(f))
      BY <1>1
    <2>1. \A a \in Actors : community[a] # Nothing => a \in DOMAIN f /\ community[a] = f[a]
      BY <1>1 DEF LabelsInv, Backed
    <2>2. shown \subseteq Range(f)
      BY <1>3, <2>1 DEF Range
    <2> HIDE DEF shown, f
    <2> QED
      BY <2>2, LabelsTyped, FS_Subset DEF f
  <1>5. pass'[p] = NoPass
    BY <1>1 DEF TypeOK
  <1>6. Backed(p)'
    BY <1>5 DEF Backed, NoPass
  <1>7. LabelsInv'
    BY <1>1, <1>6, PassKeepsLabels
  <1> QED
    BY <1>1, <1>2, <1>4, <1>7 DEF CommunitiesAgree

\* A pass that fails holds nothing.
LEMMA FailureKeepsLabels ==
    ASSUME TypeOK, LabelsInv, CommunitiesAgree, NEW p \in Pipelines, PassFails(p)
    PROVE  LabelsInv' /\ CommunitiesAgree'
  <1>1. pass' = [pass EXCEPT ![p] = NoPass] /\ UNCHANGED <<community, together, cached, log>>
    BY DEF PassFails, drawn
  <1>2. Linked' = Linked /\ Joined' = Joined /\ \A a : Component(a)' = Component(a)
    BY <1>1 DEF Linked, Joined, Component
  <1>3. pass'[p] = NoPass
    BY <1>1 DEF TypeOK
  <1>4. Backed(p)'
    BY <1>3 DEF Backed, NoPass
  <1>5. LabelsInv'
    BY <1>1, <1>4, PassKeepsLabels
  <1> QED
    BY <1>1, <1>2, <1>5 DEF CommunitiesAgree

-----------------------------------------------------------------------------
\* Types.

\* What a writer has to do is well-formed after each of its steps.
LEMMA WorkTyped ==
    ASSUME TypeOK, CountsInv, NEW w \in Writers, ~Idle(w)
    PROVE  /\ After(w) \in [todo : Seq(Seq(Kinds)), of : SUBSET Events, actors : SUBSET Actors]
           /\ Skipped(w) \in [todo : Seq(Seq(Kinds)), of : SUBSET Events, actors : SUBSET Actors]
  <1> DEFINE Work == [todo : Seq(Seq(Kinds)), of : SUBSET Events, actors : SUBSET Actors]
  <1>1. write[w] \in Work /\ write[w].todo \in Plans \ {<<>>}
    BY DEF TypeOK, CountsInv, Idle
  <1>2. \A todo \in Plans : [write[w] EXCEPT !.todo = todo] \in Work
    BY <1>1, PlanFacts
  <1>3. <<>> \in Seq(Seq(Kinds))
    BY PlanFacts DEF Plans
  <1>4. Rest \in Work
    BY <1>3 DEF Rest, Call
  <1>5. {AtLinks, AtEvents, AtActors, AtTopics, AtRelations} \subseteq Plans
    BY DEF Plans
  <1> HIDE DEF Work
  <1>6. After(w) \in Work
    BY <1>1, <1>2, <1>4, <1>5, PlanTails DEF Plans
  <1>7. Skipped(w) \in Work
    BY <1>1, <1>2, <1>4, <1>5, PlanFailures DEF Plans
  <1> QED
    BY <1>6, <1>7 DEF Work

\* A beginning has a plan.
LEMMA BeginTyped ==
    ASSUME TypeOK, NEW w \in Writers, Ingest(w) \/ Report(w)
    PROVE  TypeOK'
  <1> DEFINE Work == [todo : Seq(Seq(Kinds)), of : SUBSET Events, actors : SUBSET Actors]
  <1>1. {AtSignals, AtEvents, AtReport, AtClick} \subseteq Seq(Seq(Kinds))
    BY PlanFacts DEF Plans
  <1>2. PICK call \in Work : Begin(w, call)
    <2>1. CASE Ingest(w)
      <3>1. PICK es \in Batches, calls \in {AtSignals, AtEvents} : Begin(w, Call(calls, es, {}))
        BY <2>1 DEF Ingest, AtSignals, AtEvents
      <3>2. Call(calls, es, {}) \in Work
        BY <1>1, BatchesAssumption DEF Call
      <3> QED
        BY <3>1, <3>2
    <2>2. CASE Report(w)
      <3>1. PICK a \in Actors, calls \in {AtReport, AtClick} : Begin(w, Call(calls, {}, {a}))
        BY <2>2 DEF Report, AtReport, AtClick
      <3>2. Call(calls, {}, {a}) \in Work
        BY <1>1 DEF Call
      <3> QED
        BY <3>1, <3>2
    <2> QED
      BY <2>1, <2>2
  <1>3. write' \in [Writers -> Work] /\ writes' \in 0..MaxWrites
    BY <1>2, BoundsAssumption DEF Begin, TypeOK
  <1> HIDE DEF Work
  <1> QED
    BY <1>2, <1>3 DEF Begin, TypeOK, drawn, Work

\* What is drawn is drawn of what there is.
LEMMA TransactTyped ==
    ASSUME TypeOK, CountsInv, NEW w \in Writers, Transact(w)
    PROVE  TypeOK'
  <1> DEFINE Work == [todo : Seq(Seq(Kinds)), of : SUBSET Events, actors : SUBSET Actors]
  <1>1. ~Idle(w)
    BY DEF Transact, Turn, WriteEventNodes, WriteActorNodes, WriteTopicNodes, WriteRelationships,
        WriteSignalNodes, WriteSignalRelationships, WriteReport, EnsureActor
  <1>2. write' \in [Writers -> Work]
    BY <1>1, WorkTyped DEF Transact, Advance, TypeOK
  <1>3. UNCHANGED <<community, cached, pass, writes, passes>>
    BY DEF Transact
  <1>4. write[w].of \in SUBSET Events /\ write[w].actors \in SUBSET Actors
    BY DEF TypeOK
  <1>5. \A es \in SUBSET Events : /\ UNION {Names(e) : e \in es} \subseteq Actors
                                 /\ UNION {About(e) : e \in es} \subseteq Topics
    BY EventsAssumption
  <1> DEFINE Drawn ==
      /\ eventNodes' \subseteq Events /\ topicNodes' \subseteq Topics
      /\ signalNodes' \subseteq Events /\ derived' \subseteq signalNodes' \cap eventNodes'
      /\ DOMAIN mentions' \subseteq Actors
      /\ \A a \in DOMAIN mentions' : mentions'[a] \in Nat \cup {Nothing}
      /\ edge' \in [Events -> [Actors -> Nat]]
      /\ about' \subseteq eventNodes' \X topicNodes'
      /\ together' \in [Pairs -> Nat]
      /\ log' \in [implicated : SUBSET Actors, failed : BOOLEAN, whole : SUBSET Events, calm : BOOLEAN]
  <1>6. \A as \in SUBSET Actors, n \in {0, 1, Nothing} :
          mentions' = Merged(as, n) =>
              /\ DOMAIN mentions' \subseteq Actors
              /\ \A a \in DOMAIN mentions' : mentions'[a] \in Nat \cup {Nothing}
    <2> SUFFICES ASSUME NEW as \in SUBSET Actors, NEW n \in {0, 1, Nothing}, mentions' = Merged(as, n)
                 PROVE  /\ DOMAIN mentions' \subseteq Actors
                        /\ \A a \in DOMAIN mentions' : mentions'[a] \in Nat \cup {Nothing}
      OBVIOUS
    <2>1. /\ DOMAIN mentions' = DOMAIN mentions \cup as
          /\ \A a \in DOMAIN mentions' : mentions'[a] = IF a \in DOMAIN mentions THEN mentions[a] ELSE n
      BY DEF Merged
    <2>2. n \in Nat \cup {Nothing}
      OBVIOUS
    <2>3. DOMAIN mentions \subseteq Actors /\ \A a \in DOMAIN mentions : mentions[a] \in Nat \cup {Nothing}
      BY DEF TypeOK
    <2>4. DOMAIN mentions' \subseteq Actors
      BY <2>1, <2>3
    <2>5. \A a \in DOMAIN mentions' : mentions'[a] \in Nat \cup {Nothing}
      BY <2>1, <2>2, <2>3
    <2> QED
      BY <2>4, <2>5
  <1>7. ASSUME WriteEventNodes(w)
        PROVE  Drawn
    BY <1>4, <1>7 DEF WriteEventNodes, TypeOK
  <1>8. ASSUME WriteActorNodes(w)
        PROVE  Drawn
    <2>1. \A a \in Actors : Count(w, a) \in Nat
      BY CountsAreNumbers
    <2>2. Named(w) \subseteq Actors
      BY <1>4, <1>5 DEF Named
    <2>3. /\ DOMAIN mentions' \subseteq Actors
          /\ \A a \in DOMAIN mentions' : mentions'[a] \in Nat \cup {Nothing}
      BY <1>8, <2>1, <2>2 DEF WriteActorNodes, TypeOK
    <2> QED
      BY <1>8, <2>3 DEF WriteActorNodes, TypeOK
  <1>9. ASSUME WriteTopicNodes(w)
        PROVE  Drawn
    BY <1>4, <1>5, <1>9 DEF WriteTopicNodes, TypeOK
  <1>10. ASSUME WriteRelationships(w)
        PROVE  Drawn
    <2> DEFINE Ends(e) == Names(e) \cap DOMAIN mentions
    <2>1. \A p : Cardinality({e \in write[w].of : p \subseteq Ends(e)}) \in Nat
      <3> TAKE p
      <3>1. {e \in write[w].of : p \subseteq Ends(e)} \subseteq Events
        BY <1>4
      <3> QED
        BY <3>1, FiniteAssumption, FS_Subset, FS_CardinalityType
    <2>2. together' \in [Pairs -> Nat]
      <3>1. together' = [p \in Pairs |-> together[p] + Cardinality({e \in write[w].of : p \subseteq Ends(e)})]
        BY <1>10 DEF WriteRelationships
      <3>2. \A p \in Pairs : together[p] \in Nat
        BY DEF TypeOK
      <3> HIDE DEF Ends
      <3> QED
        BY <2>1, <3>1, <3>2
    <2>3. edge' \in [Events -> [Actors -> Nat]]
      BY <1>10 DEF WriteRelationships, TypeOK
    <2>4. log' \in [implicated : SUBSET Actors, failed : BOOLEAN, whole : SUBSET Events, calm : BOOLEAN]
      BY <1>4, <1>10 DEF WriteRelationships, TypeOK
    <2> QED
      BY <1>10, <2>2, <2>3, <2>4 DEF WriteRelationships, TypeOK
  <1>11. ASSUME WriteSignalNodes(w)
        PROVE  Drawn
    BY <1>4, <1>11 DEF WriteSignalNodes, TypeOK
  <1>12. ASSUME WriteSignalRelationships(w)
        PROVE  Drawn
    <2> DEFINE es == write[w].of \cap signalNodes
    <2>1. es \in SUBSET Events
      BY <1>4
    <2>2. mentions' = Merged(UNION {Names(e) : e \in es}, 1)
      BY <1>12 DEF WriteSignalRelationships
    <2> HIDE DEF es
    <2>3. /\ DOMAIN mentions' \subseteq Actors
          /\ \A a \in DOMAIN mentions' : mentions'[a] \in Nat \cup {Nothing}
      BY <1>5, <1>6, <2>1, <2>2
    <2> QED
      BY <1>5, <1>12, <2>1, <2>3 DEF WriteSignalRelationships, TypeOK, es
  <1>13. ASSUME WriteReport(w)
        PROVE  Drawn
    <2>1. mentions' = Merged(write[w].actors, Nothing)
      BY <1>13 DEF WriteReport, ReportCount
    <2>2. /\ DOMAIN mentions' \subseteq Actors
          /\ \A a \in DOMAIN mentions' : mentions'[a] \in Nat \cup {Nothing}
      BY <1>4, <1>6, <2>1
    <2>3. log' \in [implicated : SUBSET Actors, failed : BOOLEAN, whole : SUBSET Events, calm : BOOLEAN]
      BY <1>4, <1>13 DEF WriteReport, TypeOK
    <2> QED
      BY <1>13, <2>2, <2>3 DEF WriteReport, TypeOK
  <1>14. ASSUME EnsureActor(w)
        PROVE  Drawn
    <2>1. /\ DOMAIN mentions' \subseteq Actors
          /\ \A a \in DOMAIN mentions' : mentions'[a] \in Nat \cup {Nothing}
      BY <1>4, <1>6, <1>14 DEF EnsureActor
    <2> QED
      BY <1>14, <2>1 DEF EnsureActor, TypeOK
  <1>15. Drawn
    <2> HIDE DEF Drawn
    <2> QED
      BY <1>7, <1>8, <1>9, <1>10, <1>11, <1>12, <1>13, <1>14 DEF Transact
  <1> HIDE DEF Work
  <1> QED
    BY <1>2, <1>3, <1>15 DEF TypeOK, Work

\* Every step keeps the types.
LEMMA NextTyped ==
    ASSUME TypeOK, CountsInv, Next
    PROVE  TypeOK'
  <1>1. ASSUME NEW w \in Writers, Fail(w)
        PROVE  TypeOK'
    <2>1. write' \in [Writers -> [todo : Seq(Seq(Kinds)), of : SUBSET Events, actors : SUBSET Actors]]
      BY <1>1, WorkTyped DEF Fail, TypeOK
    <2>2. log' \in [implicated : SUBSET Actors, failed : BOOLEAN, whole : SUBSET Events, calm : BOOLEAN]
      BY <1>1 DEF Fail, TypeOK
    <2> QED
      BY <1>1, <2>1, <2>2 DEF Fail, TypeOK, drawn
  <1> DEFINE LabelFunctions == UNION {[as -> Labels] : as \in SUBSET Actors}
             Record == [stage : {"idle", "label", "snapshot"}, fresh : BOOLEAN, labels : LabelFunctions]
  <1>2. ASSUME NEW p \in Pipelines, Detect(p)
        PROVE  TypeOK'
    <2>1. PICK f \in Labellings :
            pass' = [pass EXCEPT ![p] = [stage |-> "label", labels |-> f, fresh |-> TRUE]]
      BY <1>2 DEF Detect
    <2>2. f \in LabelFunctions
      BY LabellingsTyped
    <2> HIDE DEF LabelFunctions
    <2>3. pass \in [Pipelines -> Record]
      BY DEF TypeOK, LabelFunctions
    <2>4. pass' \in [Pipelines -> Record]
      BY <2>1, <2>2, <2>3
    <2>5. passes' \in 0..MaxPasses
      BY <1>2, BoundsAssumption DEF Detect, TypeOK
    <2> HIDE DEF Record
    <2> QED
      BY <1>2, <2>4, <2>5 DEF Detect, TypeOK, drawn, Record, LabelFunctions
  <1>3. ASSUME NEW p \in Pipelines, pass' = [pass EXCEPT ![p] = NoPass]
        PROVE  pass' \in [Pipelines -> Record]
    <2>1. NoPass.labels \in LabelFunctions
      <3>1. <<>> \in [{} -> Labels]
        OBVIOUS
      <3> QED
        BY <3>1 DEF NoPass
    <2> HIDE DEF LabelFunctions
    <2>2. NoPass \in Record
      BY <2>1 DEF NoPass
    <2>3. pass \in [Pipelines -> Record]
      BY DEF TypeOK, LabelFunctions
    <2> HIDE DEF Record
    <2> QED
      BY <1>3, <2>2, <2>3
  <1>4. ASSUME NEW p \in Pipelines, Label(p)
        PROVE  TypeOK'
    <2>1. pass' \in [Pipelines -> Record]
      <3> HIDE DEF LabelFunctions
      <3>1. pass \in [Pipelines -> Record]
        BY DEF TypeOK, LabelFunctions
      <3> QED
        BY <1>4, <3>1 DEF Label
    <2>2. community' \in [Actors -> Labels \cup {Nothing}]
      BY <1>4, LabelsTyped DEF Label, Labelled, TypeOK
    <2>3. log' \in [implicated : SUBSET Actors, failed : BOOLEAN, whole : SUBSET Events, calm : BOOLEAN]
      <3>1. pass[p].fresh \in BOOLEAN
        BY DEF TypeOK
      <3> QED
        BY <1>4, <3>1 DEF Label, TypeOK
    <2> HIDE DEF Record
    <2> QED
      BY <1>4, <2>1, <2>2, <2>3 DEF Label, TypeOK, drawn, Record
  <1>5. ASSUME NEW p \in Pipelines, Snapshot(p)
        PROVE  TypeOK'
    <2>1. pass' \in [Pipelines -> Record]
      BY <1>3, <1>5 DEF Snapshot
    <2>2. {community[a] : a \in Joined} \ {Nothing} \in SUBSET Labels
      <3>1. Joined \subseteq Actors
        BY DEF Joined, Linked, Pairs
      <3>2. \A a \in Actors : community[a] \in Labels \cup {Nothing}
        BY DEF TypeOK
      <3> HIDE DEF LabelFunctions, Record
      <3> QED
        BY <3>1, <3>2
    <2>3. Cardinality(Range(pass[p].labels)) \in Nat
      BY LabelsTyped
    <2>4. (pass[p].fresh /\ log.calm) \in BOOLEAN
      OBVIOUS
    <2>5. cached' \in [count : Nat, shown : SUBSET Labels, calm : BOOLEAN]
      BY <1>5, <2>2, <2>3, <2>4 DEF Snapshot
    <2> HIDE DEF Record
    <2> QED
      BY <1>5, <2>1, <2>5 DEF Snapshot, TypeOK, drawn, Record
  <1>6. ASSUME NEW p \in Pipelines, PassFails(p)
        PROVE  TypeOK'
    <2>1. pass' \in [Pipelines -> Record]
      BY <1>3, <1>6 DEF PassFails
    <2> HIDE DEF Record
    <2> QED
      BY <1>6, <2>1 DEF PassFails, TypeOK, drawn, Record
  <1> QED
    BY <1>1, <1>2, <1>4, <1>5, <1>6, BeginTyped, TransactTyped DEF Next

-----------------------------------------------------------------------------
\* The invariant.

\* Nothing is drawn and nobody has begun.
LEMMA InitEstablishes == Init => IInv
  <1> SUFFICES ASSUME Init
               PROVE  IInv
    OBVIOUS
  <1>1. TypeOK
    <2>1. pass \in [Pipelines -> [stage : {"idle", "label", "snapshot"}, fresh : BOOLEAN,
                                  labels : UNION {[as -> Labels] : as \in SUBSET Actors}]]
      <3>1. <<>> \in [{} -> Labels]
        OBVIOUS
      <3> QED
        BY <3>1 DEF Init, NoPass
    <2>2. write \in [Writers -> [todo : Seq(Seq(Kinds)), of : SUBSET Events, actors : SUBSET Actors]]
      BY DEF Init, Rest, Call
    <2>3. DOMAIN mentions = {}
      BY DEF Init
    <2> QED
      BY <2>1, <2>2, <2>3, BoundsAssumption DEF Init, TypeOK
  <1>2. CountsInv
    BY PlanFacts DEF Init, CountsInv, Rest, Call, Plans, Ready
  <1>3. LabelsInv
    BY DEF Init, LabelsInv, Backed, NoPass
  <1>4. EdgesComplete
    BY DEF Init, EdgesComplete
  <1>5. CommunitiesAgree
    BY FS_EmptySet DEF Init, CommunitiesAgree
  <1> QED
    BY <1>1, <1>2, <1>3, <1>4, <1>5 DEF IInv

\* Every step keeps the invariant.
LEMMA NextKeeps == IInv /\ [Next]_vars => IInv'
  <1> SUFFICES ASSUME IInv, [Next]_vars
               PROVE  IInv'
    OBVIOUS
  <1> USE DEF IInv
  <1>1. CASE UNCHANGED vars
    <2>1. /\ UNCHANGED <<eventNodes, topicNodes, signalNodes, derived, mentions, edge, about, together>>
          /\ UNCHANGED <<community, cached, write, pass, writes, passes, log>>
      BY <1>1 DEF vars
    <2>2. TypeOK'
      BY <2>1 DEF TypeOK
    <2>3. CountsInv'
      BY <2>1 DEF CountsInv, Ready, Named, Covered, Mentioned, Mentions, Pending, Due
    <2>4. EdgesComplete'
      BY <2>1 DEF EdgesComplete, Linked
    <2>5. \A p \in Pairs : together[p] <= together'[p]
      BY <2>1 DEF TypeOK
    <2> QED
      BY <2>1, <2>2, <2>3, <2>4, <2>5, WritersKeepLabels
  <1>2. CASE Next
    <2>1. TypeOK'
      BY <1>2, NextTyped
    <2>2. \A p \in Pairs : together[p] <= together'[p]
      BY <1>2, DrawnGrows
    <2>3. EdgesComplete'
      BY <1>2, <2>1, NextKeepsEdges
    <2>4. ASSUME NEW w \in Writers, Ingest(w) \/ Report(w) \/ Transact(w) \/ Fail(w)
          PROVE  IInv'
      <3>1. CountsInv'
        BY <2>4, BeginKeepsCounts, TransactKeepsCounts, FailKeepsCounts
      <3>2. UNCHANGED <<community, cached, pass, log.calm>>
        BY <2>4 DEF Ingest, Report, Begin, Transact, Fail, TypeOK, WriteEventNodes, WriteActorNodes,
            WriteTopicNodes, WriteRelationships, WriteSignalNodes, WriteSignalRelationships,
            WriteReport, EnsureActor
      <3> QED
        BY <2>1, <2>2, <2>3, <3>1, <3>2, WritersKeepLabels
    <2>5. ASSUME NEW p \in Pipelines, Detect(p) \/ Label(p) \/ Snapshot(p) \/ PassFails(p)
          PROVE  IInv'
      <3>1. UNCHANGED <<drawn, write, log.implicated, log.failed>>
        BY <2>5 DEF Detect, Label, Snapshot, PassFails, TypeOK
      <3>2. CountsInv'
        BY <3>1 DEF drawn, CountsInv, Ready, Named, Covered, Mentioned, Mentions, Pending, Due
      <3>3. LabelsInv' /\ CommunitiesAgree'
        BY <2>5, DetectKeepsLabels, LabelKeepsLabels, SnapshotKeepsLabels, FailureKeepsLabels
      <3> QED
        BY <2>1, <2>3, <3>2, <3>3
    <2> QED
      BY <1>2, <2>4, <2>5 DEF Next
  <1> QED
    BY <1>1, <1>2

\* The inductive invariant, and in it the types of all variables.
THEOREM Invariance == Spec => []IInv
  <1> QED
    BY InitEstablishes, NextKeeps, PTL DEF Spec

\* The count of an actor covers the mentions that events make of it, whichever
\* transactions fail, and exceeds them by one at most while none does
\* (_write_actor_nodes, _write_relationships).
THEOREM CountsCover == Spec => []MentionsCounted
  <1>1. IInv => MentionsCounted
    <2> SUFFICES ASSUME IInv
                 PROVE  MentionsCounted
      OBVIOUS
    <2>1. ASSUME NEW a \in Actors
          PROVE  /\ Mentioned(a) \in Nat /\ Cardinality(Pending(a)) \in Nat
                 /\ Mentioned(a) > 0 => a \in DOMAIN mentions
      BY CountsAreNumbers, NoNodeNoCount DEF IInv
    <2>2. \A a \in DOMAIN mentions : Covered(a) /\ a \in Actors /\ mentions[a] \in Nat \cup {Nothing}
      BY DEF IInv, CountsInv, TypeOK
    <2>3. ASSUME NEW a \in Actors, Mentioned(a) > 0
          PROVE  a \in ActorList(Mentioned(a)) \/ (a \in log.implicated /\ mentions[a] = Nothing)
      <3>1. a \in DOMAIN mentions
        BY <2>1, <2>3
      <3>2. CASE mentions[a] # Nothing
        <4>1. mentions[a] \in Nat /\ mentions[a] >= Mentioned(a) + Cardinality(Pending(a))
          BY <2>2, <3>1, <3>2 DEF Covered
        <4>2. mentions[a] >= Mentioned(a)
          BY <2>1, <4>1
        <4> QED
          BY <3>1, <3>2, <4>2 DEF ActorList
      <3> QED
        BY <2>2, <3>1, <3>2 DEF Covered
    <2>4. ASSUME ~log.failed, \A w \in Writers : Idle(w), NEW a \in Actors,
                 a \in ActorList(Mentioned(a) + 2)
          PROVE  FALSE
      <3>1. a \in DOMAIN mentions /\ mentions[a] # Nothing /\ mentions[a] >= Mentioned(a) + 2
        BY <2>4 DEF ActorList
      <3>2. Pending(a) = {}
        BY <2>4, PlanFacts DEF Pending, Due, Idle
      <3>3. mentions[a] \in Nat /\ mentions[a] <= Mentioned(a) + 0 + 1
        BY <2>2, <2>4, <3>1, <3>2, FS_EmptySet DEF Covered
      <3> QED
        BY <2>1, <3>1, <3>3
    <2> QED
      BY <2>3, <2>4 DEF MentionsCounted
  <1> QED
    BY <1>1, Invariance, PTL

\* An event whose last transaction is committed is drawn with everything it names
\* (_write_events_sync).
THEOREM EventsComplete == Spec => []EdgesComplete
  <1>1. IInv => EdgesComplete
    BY DEF IInv
  <1> QED
    BY <1>1, Invariance, PTL

\* Two actors of one label are joined by a path, and the cache counts the communities
\* it shows, unless one pass overtook another (_precompute_community_graph).
THEOREM LabelsAgree == Spec => []CommunitiesAgree
  <1>1. IInv => CommunitiesAgree
    BY DEF IInv
  <1> QED
    BY <1>1, Invariance, PTL
=============================================================================
