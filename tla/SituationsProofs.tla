-------------------------- MODULE SituationsProofs --------------------------
(***************************************************************************)
(* That the situations of a pass are disjoint, that a pass which nothing   *)
(* disturbed leaves active what it detected, and that the graph holds no   *)
(* situation without a row, for any worlds, thresholds, number of events,  *)
(* requests and passes.                                                    *)
(*                                                                         *)
(* The first is about the detector, as a function of a window: clusters    *)
(* are disjoint, and each of the three splits turns a set of events into   *)
(* disjoint parts of it.  The other two are about passes: what a pass      *)
(* decided on before it commits, and what other commits leave of that.     *)
(***************************************************************************)
EXTENDS Situations, FiniteSetTheorems, TLAPS

\* P consists of disjoint parts of c.
Splits(P, c) ==
    /\ P \subseteq SUBSET c
    /\ \A s, t \in P : s = t \/ s \cap t = {}

-----------------------------------------------------------------------------
\* The detector.

\* Two clusters of a window are the same or disjoint: what both have in common
\* is closed, and a cluster holds no smaller closed set than itself.
LEMMA ClustersSplit ==
    ASSUME NEW w, NEW ignored
    PROVE  Splits(Clusters(w, ignored), w)
  <1> DEFINE closed == {c \in SUBSET w : \A e \in c, f \in w \ c : ~Related(e, f, ignored)}
  <1>1. Clusters(w, ignored)
          = {c \in closed : c # {} /\ \A d \in closed : d \subseteq c => d \in {{}, c}}
    BY DEF Clusters
  <1>2. \A c, d \in closed : c \cap d \in closed
    OBVIOUS
  <1> HIDE DEF closed
  <1>3. ASSUME NEW c \in Clusters(w, ignored), NEW d \in Clusters(w, ignored),
               c \cap d # {}
        PROVE  c = d
    <2>1. c \cap d = c
      BY <1>1, <1>2, <1>3
    <2>2. c \cap d = d
      BY <1>1, <1>2, <1>3
    <2> QED
      BY <2>1, <2>2
  <1>4. Clusters(w, ignored) \subseteq SUBSET w
    BY DEF Clusters
  <1> QED
    BY <1>3, <1>4 DEF Splits

\* Splitting each of several disjoint sets leaves disjoint parts.
LEMMA SplitsCompose ==
    ASSUME NEW P, NEW c, Splits(P, c),
           NEW F, \A d \in P : Splits(F[d], d)
    PROVE  Splits(UNION {F[d] : d \in P}, c)
  <1> DEFINE parts == UNION {F[d] : d \in P}
  <1>1. parts \subseteq SUBSET c
    BY DEF Splits
  <1>2. ASSUME NEW s \in parts, NEW t \in parts
        PROVE  s = t \/ s \cap t = {}
    <2>1. PICK d \in P : s \in F[d]
      OBVIOUS
    <2>2. PICK e \in P : t \in F[e]
      OBVIOUS
    <2>3. CASE d = e
      BY <2>1, <2>2, <2>3 DEF Splits
    <2>4. CASE d # e
      <3>1. d \cap e = {} /\ s \subseteq d /\ t \subseteq e
        BY <2>1, <2>2, <2>4 DEF Splits
      <3> QED
        BY <3>1
    <2> QED
      BY <2>3, <2>4
  <1> QED
    BY <1>1, <1>2 DEF Splits

\* What is left of such parts is such parts, and a set is the only part of itself.
LEMMA SplitsBasics ==
    /\ \A P, Q, c : Splits(P, c) /\ Q \subseteq P => Splits(Q, c)
    /\ \A c : Splits({c}, c)
BY DEF Splits

\* The ranks of anchors are different numbers: the one that comes before the
\* other has fewer before it.
LEMMA RanksDiffer ==
    ASSUME world \in Worlds, NEW c \in SUBSET Events, NEW ignored,
           NEW a \in DOMAIN Anchors(c, ignored), NEW b \in DOMAIN Anchors(c, ignored)
    PROVE  /\ Anchors(c, ignored)[a] \in Nat
           /\ Anchors(c, ignored)[a] = Anchors(c, ignored)[b] => a = b
  <1> DEFINE count(k) == Cardinality({e \in c : k \in ActorsOf(e)})
             able == {k \in (Union(c, ActorsOf) \cap HighSignal) \ ignored :
                         count(k) >= 2 /\ count(k) < Cardinality(c)}
             before(j, k) == count(j) > count(k) \/ (count(j) = count(k) /\ j < k)
             Ahead(k) == {j \in able : before(j, k)}
  <1>1. Anchors(c, ignored) = [k \in {j \in able : Cardinality(Ahead(j)) < 4} |-> Cardinality(Ahead(k))]
    BY DEF Anchors
  <1>2. a \in able /\ b \in able
    BY <1>1
  <1>3. IsFiniteSet(c)
    BY EventsAssumption, FS_Subset
  <1>4. \A k : count(k) \in Nat
    BY <1>3, FS_Subset, FS_CardinalityType
  <1>5. able \subseteq Int
    BY ActorsAssumption DEF Union, ActorsOf, event
  <1>6. IsFiniteSet(able)
    <2>1. \A e \in c : IsFiniteSet(ActorsOf(e))
      BY ActorsAssumption DEF ActorsOf, event
    <2> DEFINE all == {ActorsOf(e) : e \in c}
               f == [e \in c |-> ActorsOf(e)]
    <2>2. IsFiniteSet(all)
      <3>1. f \in Surjection(c, all)
        BY DEF Surjection
      <3> QED
        BY <3>1, <1>3, FS_Surjection
    <2>3. able \subseteq UNION all
      BY DEF Union
    <2> HIDE DEF all, able
    <2>4. IsFiniteSet(UNION all)
      <3>1. \A T \in all : IsFiniteSet(T)
        BY <2>1 DEF all
      <3> QED
        BY <3>1, <2>2, FS_UNION
    <2> QED
      BY <2>3, <2>4, FS_Subset
  <1> HIDE DEF count, able
  <1>7. \A k : IsFiniteSet(Ahead(k)) /\ Cardinality(Ahead(k)) \in Nat
    BY <1>6, FS_Subset, FS_CardinalityType
  <1>8. ASSUME NEW j \in able, NEW k \in able, before(j, k)
        PROVE  Cardinality(Ahead(j)) # Cardinality(Ahead(k))
    <2>1. count(j) \in Int /\ count(k) \in Int /\ j \in Int /\ k \in Int
      BY <1>4, <1>5
    <2>2. Ahead(j) \subseteq Ahead(k)
      <3> SUFFICES ASSUME NEW i \in able, before(i, j)
                   PROVE  before(i, k)
        OBVIOUS
      <3>1. count(i) \in Int /\ i \in Int
        BY <1>4, <1>5
      <3> QED
        BY <2>1, <3>1, <1>8
    <2>3. j \in Ahead(k) /\ j \notin Ahead(j)
      BY <2>1, <1>8
    <2> QED
      BY <2>2, <2>3, <1>7, FS_Subset
  <1>9. a # b => before(a, b) \/ before(b, a)
    BY <1>2, <1>4, <1>5
  <1>10. Anchors(c, ignored)[a] = Cardinality(Ahead(a)) /\ Anchors(c, ignored)[b] = Cardinality(Ahead(b))
    BY <1>1
  <1> QED
    BY <1>2, <1>7, <1>8, <1>9, <1>10

\* Anchors: an event goes to one of them at most, and the others to none.
LEMMA AnchorsSplit ==
    ASSUME world \in Worlds, NEW c \in SUBSET Events, NEW ignored
    PROVE  Splits(SplitByAnchors(c, ignored), c)
  <1> DEFINE rank == Anchors(c, ignored)
             all == {BucketOf(c, rank, a) : a \in DOMAIN rank}
             buckets == {b \in all : Cardinality(b) >= 2}
             others == {e \in c : ActorsOf(e) \cap DOMAIN rank = {}}
  <1>1. ASSUME NEW a \in DOMAIN rank, NEW b \in DOMAIN rank,
               BucketOf(c, rank, a) \cap BucketOf(c, rank, b) # {}
        PROVE  a = b
    <2>1. PICK e \in c : /\ {a, b} \subseteq DOMAIN rank \cap ActorsOf(e)
                         /\ rank[a] <= rank[b] /\ rank[b] <= rank[a]
      BY <1>1 DEF BucketOf
    <2>2. rank[a] \in Nat /\ rank[b] \in Nat
      BY RanksDiffer
    <2>3. rank[a] = rank[b]
      BY <2>1, <2>2
    <2> QED
      BY <2>3, RanksDiffer
  <1>2. Splits(all, c)
    <2>1. all \subseteq SUBSET c
      BY DEF BucketOf
    <2> QED
      BY <2>1, <1>1 DEF Splits
  <1>3. \A b \in all : b \cap others = {}
    BY DEF BucketOf
  <1>4. Splits(buckets \cup {others}, c)
    <2> HIDE DEF all
    <2>1. others \subseteq c
      OBVIOUS
    <2> QED
      BY <2>1, <1>2, <1>3 DEF Splits
  <1>5. SplitByAnchors(c, ignored) \in {{c}, buckets \cup {others}, buckets}
    BY DEF SplitByAnchors
  <1> HIDE DEF buckets, others
  <1>6. Splits(buckets, c)
    BY <1>4, SplitsBasics
  <1> QED
    BY <1>4, <1>5, <1>6, SplitsBasics

\* Topics: an event has one.
LEMMA FamilySplit ==
    ASSUME NEW c
    PROVE  Splits(SplitByFamily(c), c)
BY DEF SplitByFamily, Splits

\* Embeddings: an event is of one thread, and the parts thrown together are none
\* of those that stand for themselves.
LEMMA SemanticSplits ==
    ASSUME NEW c
    PROVE  Splits(SemanticSplit(c), c)
  <1> DEFINE threads == {{e \in c : event[e].thread = event[f].thread} : f \in c}
             parts == {b \in threads : Cardinality(b) >= 2}
             coherent == {b \in parts : /\ DominantFamily(b) # "general" /\ Covers(b, 55)
                                       /\ Cardinality(SourcesOf(b)) >= 2}
             leftovers == UNION (parts \ coherent)
  <1>1. SemanticSplit(c) \in {{c}, coherent, coherent \cup {leftovers}}
    BY DEF SemanticSplit
  <1>2. Splits(threads, c)
    BY DEF Splits
  <1> HIDE DEF threads
  <1>3. Splits(parts, c) /\ coherent \subseteq parts
    BY <1>2, SplitsBasics
  <1> HIDE DEF parts, coherent
  <1>4. Splits(coherent, c)
    BY <1>3, SplitsBasics
  <1>5. leftovers \subseteq c /\ \A b \in coherent : b \cap leftovers = {}
    BY <1>3 DEF Splits
  <1>6. Splits(coherent \cup {leftovers}, c)
    BY <1>4, <1>5 DEF Splits
  <1> QED
    BY <1>1, <1>4, <1>6, SplitsBasics

\* One split after the other.
LEMMA CandidatesSplit ==
    ASSUME world \in Worlds, NEW c \in SUBSET Events, NEW ignored
    PROVE  Splits(Candidates(c, ignored), c)
  <1> DEFINE anchored == SplitByAnchors(c, ignored)
             Refine(b) == UNION {SemanticSplit(d) : d \in SplitByFamily(b)}
             F == [b \in anchored |-> Refine(b)]
  <1>1. ASSUME NEW b
        PROVE  Splits(Refine(b), b)
    <2> DEFINE G == [d \in SplitByFamily(b) |-> SemanticSplit(d)]
    <2>1. \A d \in SplitByFamily(b) : Splits(G[d], d)
      BY SemanticSplits
    <2>2. Refine(b) = UNION {G[d] : d \in SplitByFamily(b)}
      OBVIOUS
    <2> HIDE DEF G, Refine
    <2> QED
      BY <2>1, <2>2, FamilySplit, SplitsCompose
  <1>2. Candidates(c, ignored) = UNION {F[b] : b \in anchored}
    BY DEF Candidates
  <1> HIDE DEF Refine
  <1>3. \A b \in anchored : Splits(F[b], b)
    BY <1>1
  <1> HIDE DEF anchored, F
  <1>4. Splits(anchored, c)
    BY AnchorsSplit DEF anchored
  <1> QED
    BY <1>2, <1>3, <1>4, SplitsCompose

\* The detector returns disjoint parts of its window, of two sources or more.
THEOREM DetectSplits ==
    ASSUME world \in Worlds, NEW window \in SUBSET Events
    PROVE  /\ Splits(Detect(window), window)
           /\ \A s \in Detect(window) : Cardinality(SourcesOf(s)) >= 2
  <1> DEFINE w == {e \in window : Caseworthy(e)}
             ignored == Ignored(w)
             big == {c \in Clusters(w, ignored) : Cardinality(c) >= 2}
             F == [c \in big |-> Candidates(c, ignored)]
             all == UNION {F[c] : c \in big}
  <1>1. Detect(window) = {s \in all : Investigable(s, ignored)}
    BY DEF Detect
  <1>2. \A s \in Detect(window) : Cardinality(SourcesOf(s)) >= 2
    BY <1>1 DEF Investigable
  <1>3. w \subseteq window
    OBVIOUS
  <1> HIDE DEF w, ignored
  <1>4. Splits(big, w)
    <2>1. Splits(Clusters(w, ignored), w) /\ big \subseteq Clusters(w, ignored)
      BY ClustersSplit
    <2> QED
      BY <2>1, SplitsBasics
  <1>5. \A c \in big : Splits(F[c], c)
    <2> SUFFICES ASSUME NEW c \in big
                 PROVE  Splits(Candidates(c, ignored), c)
      OBVIOUS
    <2>1. c \in SUBSET Events
      BY <1>3, <1>4 DEF Splits
    <2> QED
      BY <2>1, CandidatesSplit
  <1> HIDE DEF big, F
  <1>6. Splits(all, w)
    BY <1>4, <1>5, SplitsCompose
  <1>7. Splits(Detect(window), w)
    BY <1>1, <1>6, SplitsBasics
  <1> QED
    BY <1>2, <1>3, <1>7 DEF Splits

-----------------------------------------------------------------------------
\* Passes.

\* What p would decide on if it examined the rows as they are.
Decided(p) == IF p = "pipeline" THEN Upserts(pass[p].found) ELSE Synced(pass[p].found)

\* A pass about to commit: as long as nobody else commits its decision fits the
\* rows.  When somebody did, what it found still has a row or is to be inserted,
\* for rows stay, and it drops nothing that it found.
Prepared(p) ==
    LET change == pass[p].change
    IN  /\ change.insert \cup change.revive \subseteq pass[p].found
        /\ change.drop \cap pass[p].found = {}
        /\ pass[p].found \subseteq change.insert \cup Rows
        /\ pass[p].calm => change = Decided(p)

IInv ==
    /\ TypeOK
    /\ PassDisjoint
    /\ CalmPassHolds
    /\ GraphBacked
    /\ \A p \in Passes :
          /\ pass[p].stage = "writing" => Prepared(p)
          /\ pass[p].stage = "stored" => pass[p].found \subseteq Rows

\* Nobody has begun.
LEMMA InitEstablishes == Init => IInv
  <1> SUFFICES ASSUME Init
               PROVE  IInv
    OBVIOUS
  <1> USE DEF Init, Idle, NoChange
  <1>1. Cardinality(Events) \in Nat
    BY EventsAssumption, FS_CardinalityType
  <1>2. TypeOK
    BY <1>1, PassesAssumption DEF TypeOK, Changes
  <1>3. PassDisjoint /\ CalmPassHolds /\ GraphBacked
    BY DEF PassDisjoint, CalmPassHolds, GraphBacked
  <1> QED
    BY <1>2, <1>3 DEF IInv

\* A step of one pass that writes no row keeps the invariant, if what the pass
\* holds then is disjoint and fits the rows.
LEMMA StepOfOne ==
    ASSUME IInv, NEW p \in Passes, NEW r,
           TypeOK', UNCHANGED <<world, active, stale, last>>,
           graph' \subseteq Rows,
           pass' = [pass EXCEPT ![p] = r],
           \A s \in r.found : /\ \A t \in r.found : s = t \/ s \cap t = {}
                             /\ Cardinality(SourcesOf(s)) >= 2,
           r.stage = "writing" => Prepared(p)',
           r.stage = "stored" => r.found \subseteq Rows
    PROVE  IInv'
  <1>1. /\ pass'[p] = r
        /\ \A q \in Passes \ {p} : pass'[q] = pass[q]
    BY DEF IInv, TypeOK
  <1>2. active' = active /\ stale' = stale /\ Rows' = Rows /\ \A s : SourcesOf(s)' = SourcesOf(s)
    BY DEF Rows, SourcesOf, event
  <1>3. PassDisjoint'
    BY <1>1, <1>2 DEF IInv, PassDisjoint
  <1>4. CalmPassHolds' /\ GraphBacked'
    BY <1>2 DEF IInv, CalmPassHolds, GraphBacked, CasesOf
  <1>5. ASSUME NEW q \in Passes
        PROVE  /\ pass'[q].stage = "writing" => Prepared(q)'
               /\ pass'[q].stage = "stored" => pass'[q].found \subseteq Rows'
    <2>1. CASE q = p
      BY <2>1, <1>1, <1>2
    <2>2. CASE q # p
      <3>1. pass'[q] = pass[q]
        BY <2>2, <1>1
      <3>2. Upserts(pass[q].found)' = Upserts(pass[q].found)
        BY <3>1, <1>2 DEF Upserts
      <3>3. Synced(pass[q].found)' = Synced(pass[q].found)
        BY <3>1, <3>2, <1>2 DEF Synced
      <3>4. Decided(q)' = Decided(q)
        BY <3>2, <3>3 DEF Decided
      <3> QED
        BY <3>1, <3>4, <1>2 DEF IInv, Prepared
    <2> QED
      BY <2>1, <2>2
  <1> QED
    BY <1>3, <1>4, <1>5 DEF IInv

\* A pass that ends holds nothing.
LEMMA EndKeeps ==
    ASSUME IInv, NEW p \in Passes, pass' = [pass EXCEPT ![p] = Idle],
           UNCHANGED <<world, arrived, active, stale, begun, last>>,
           graph' \subseteq Rows
    PROVE  IInv'
  <1>1. graph' \in SUBSET Situation
    BY DEF IInv, TypeOK, Rows
  <1>2. TypeOK'
    BY <1>1 DEF IInv, TypeOK, Idle, NoChange, Changes
  <1>3. Idle.found = {} /\ Idle.stage = "idle"
    BY DEF Idle
  <1> QED
    BY <1>2, <1>3, StepOfOne

\* What a pass detects is disjoint, because its window holds events.
LEMMA ReadKeeps ==
    ASSUME IInv, NEW p \in Passes, Read(p)
    PROVE  IInv'
  <1> DEFINE Found(w) ==
          [stage |-> "detected", found |-> Detect(w), change |-> NoChange, calm |-> TRUE]
  <1>1. PICK w \in Window(p, arrived') : pass' = [pass EXCEPT ![p] = Found(w)]
    BY DEF Read
  <1> DEFINE r == Found(w)
  <1>2. pass' = [pass EXCEPT ![p] = r]
    BY <1>1
  <1>3. Cardinality(Events) \in Nat /\ arrived \in Nat
    BY EventsAssumption, FS_CardinalityType DEF IInv, TypeOK
  <1>4. w \in SUBSET Events /\ arrived' \in 0..Cardinality(Events)
    BY <1>1, <1>3, EventsAssumption DEF Read, Window
  <1>5. world \in Worlds
    BY DEF IInv, TypeOK
  <1>6. Splits(Detect(w), w) /\ \A s \in Detect(w) : Cardinality(SourcesOf(s)) >= 2
    BY <1>4, <1>5, DetectSplits
  <1>7. r.found \in SUBSET Situation
    BY <1>4, <1>6 DEF Splits, Situation
  <1>8. TypeOK'
    <2>1. begun' \in 0..MaxPasses
      BY PassesAssumption DEF Read, IInv, TypeOK
    <2>2. r \in [stage : {"idle", "detected", "writing", "stored"},
                 found : SUBSET Situation, change : Changes, calm : BOOLEAN]
      BY <1>7 DEF NoChange, Changes
    <2>3. UNCHANGED <<world, active, stale, graph, last>>
      BY DEF Read
    <2> HIDE DEF r, Found
    <2> QED
      BY <1>2, <1>4, <2>1, <2>3, <2>2 DEF Read, IInv, TypeOK
  <1>9. graph' \subseteq Rows /\ UNCHANGED <<world, active, stale, last>>
    BY DEF Read, IInv, GraphBacked
  <1>10. r.stage = "detected" /\ r.found = Detect(w)
    OBVIOUS
  <1>11. \A s \in r.found : /\ \A t \in r.found : s = t \/ s \cap t = {}
                           /\ Cardinality(SourcesOf(s)) >= 2
    BY <1>6, <1>10 DEF Splits
  <1> HIDE DEF r, Found
  <1> QED
    BY <1>2, <1>8, <1>9, <1>10, <1>11, StepOfOne

\* What a pass decides on fits the rows it looks at.
LEMMA ExamineKeeps ==
    ASSUME IInv, NEW p \in Passes, Examine(p)
    PROVE  IInv'
  <1> DEFINE r == [pass[p] EXCEPT !.stage = "writing", !.calm = TRUE, !.change = Decided(p)]
  <1>1. pass' = [pass EXCEPT ![p] = r]
    BY DEF Examine, Decided, IInv, TypeOK
  <1>2. pass[p] \in [stage : {"idle", "detected", "writing", "stored"},
                     found : SUBSET Situation, change : Changes, calm : BOOLEAN]
    BY DEF IInv, TypeOK
  <1>3. r.stage = "writing" /\ r.found = pass[p].found /\ r.change = Decided(p)
    BY <1>2
  <1>4. UNCHANGED <<world, arrived, active, stale, graph, begun, last>>
    BY DEF Examine, outside
  <1>5. /\ Decided(p).insert = pass[p].found \ Rows
        /\ Decided(p).revive = pass[p].found \cap stale
        /\ Decided(p).drop \in {{}, active \ pass[p].found}
    BY DEF Decided, Upserts, Synced
  <1>6. Decided(p) \in Changes
    <2>1. Upserts(pass[p].found) \in Changes
      BY <1>2 DEF Upserts, Changes
    <2>2. Synced(pass[p].found) \in Changes
      BY <2>1 DEF Synced, Changes, IInv, TypeOK
    <2> QED
      BY <2>1, <2>2 DEF Decided
  <1>7. r \in [stage : {"idle", "detected", "writing", "stored"},
               found : SUBSET Situation, change : Changes, calm : BOOLEAN]
    BY <1>2, <1>6
  <1> HIDE DEF r
  <1>8. TypeOK'
    BY <1>1, <1>4, <1>7 DEF IInv, TypeOK
  <1>9. pass'[p] = r
    BY <1>1 DEF IInv, TypeOK
  <1>10. Prepared(p)'
    <2>1. Rows' = Rows /\ active' = active /\ stale' = stale /\ pass'[p].found = pass[p].found
      BY <1>3, <1>4, <1>9 DEF Rows
    <2>2. Upserts(pass[p].found)' = Upserts(pass[p].found)
      BY <2>1 DEF Upserts
    <2>3. Synced(pass[p].found)' = Synced(pass[p].found)
      BY <2>1, <2>2 DEF Synced
    <2>4. Decided(p)' = pass'[p].change
      BY <1>3, <1>9, <2>2, <2>3 DEF Decided
    <2>5. /\ pass'[p].change.insert = pass[p].found \ Rows
          /\ pass'[p].change.revive \subseteq pass[p].found
          /\ pass'[p].change.drop \cap pass[p].found = {}
      BY <1>3, <1>5, <1>9
    <2> QED
      BY <2>1, <2>4, <2>5 DEF Prepared
  <1>11. \A s \in r.found : /\ \A t \in r.found : s = t \/ s \cap t = {}
                           /\ Cardinality(SourcesOf(s)) >= 2
    BY <1>3 DEF IInv, PassDisjoint
  <1>12. graph' \subseteq Rows /\ UNCHANGED <<world, active, stale, last>>
    BY <1>4 DEF IInv, GraphBacked
  <1> QED
    BY <1>1, <1>3, <1>8, <1>10, <1>11, <1>12, StepOfOne

\* A commit adds rows and removes none; undisturbed it leaves active what was
\* found, and after a request nothing else.
LEMMA CommitKeeps ==
    ASSUME IInv, NEW p \in Passes, Commit(p)
    PROVE  IInv'
  <1> DEFINE change == pass[p].change
             found == pass[p].found
  <1>1. /\ pass[p].stage = "writing"
        /\ change.insert \cap Rows = {}
        /\ active' = (active \cup change.insert \cup change.revive) \ change.drop
        /\ stale' = (stale \cup change.drop) \ change.revive
        /\ last' = [by |-> p, found |-> found, calm |-> pass[p].calm]
        /\ UNCHANGED <<world, arrived, graph, begun>>
    BY DEF Commit, outside
  <1>2. Prepared(p)
    BY <1>1 DEF IInv
  <1>3. Rows' = Rows \cup change.insert \cup change.revive \cup change.drop
    BY <1>1, <1>2 DEF Rows, Prepared
  <1>4. Rows \cup change.insert \subseteq Rows' /\ found \subseteq Rows'
    BY <1>2, <1>3 DEF Prepared
  <1>5. /\ pass' \in [Passes -> [stage : {"idle", "detected", "writing", "stored"},
                                 found : SUBSET Situation, change : Changes, calm : BOOLEAN]]
        /\ pass'[p].stage = "stored"
        /\ \A q \in Passes : pass'[q].found = pass[q].found
        /\ \A q \in Passes \ {p} : /\ pass'[q].stage = pass[q].stage
                                   /\ pass'[q].change = pass[q].change
                                   /\ ~pass'[q].calm
    <2> DEFINE Record == [stage : {"idle", "detected", "writing", "stored"},
                          found : SUBSET Situation, change : Changes, calm : BOOLEAN]
               After(q) == IF q = p THEN [pass[p] EXCEPT !.stage = "stored", !.change = NoChange]
                           ELSE [pass[q] EXCEPT !.calm = FALSE]
    <2>1. pass' = [q \in Passes |-> After(q)]
      BY DEF Commit
    <2>2. pass \in [Passes -> Record] /\ NoChange \in Changes
      BY DEF IInv, TypeOK, NoChange, Changes
    <2>3. ASSUME NEW q \in Passes
          PROVE  /\ After(q) \in Record
                 /\ After(q).found = pass[q].found
                 /\ q = p => After(q).stage = "stored"
                 /\ q # p => /\ After(q).stage = pass[q].stage
                            /\ After(q).change = pass[q].change
                            /\ ~After(q).calm
      BY <2>2
    <2> HIDE DEF After, Record
    <2>4. \A q \in Passes : pass'[q] = After(q)
      BY <2>1
    <2>5. pass' \in [Passes -> Record]
      BY <2>1, <2>3
    <2> QED
      BY <2>3, <2>4, <2>5 DEF Record
  <1>6. TypeOK'
    <2>1. change \in Changes /\ found \in SUBSET Situation /\ pass[p].calm \in BOOLEAN
      BY DEF IInv, TypeOK
    <2>2. active' \cap stale' = {}
      BY <1>1, <1>2 DEF IInv, TypeOK, Rows, Prepared
    <2>3. active' \in SUBSET Situation /\ stale' \in SUBSET Situation
      BY <1>1, <2>1 DEF Changes, IInv, TypeOK
    <2>4. last' \in [by : Passes \cup {"nobody"}, found : SUBSET Situation, calm : BOOLEAN]
      BY <1>1, <2>1
    <2> QED
      BY <1>1, <1>5, <2>2, <2>3, <2>4 DEF IInv, TypeOK
  <1>7. PassDisjoint'
    <2>1. \A s : SourcesOf(s)' = SourcesOf(s)
      BY <1>1 DEF SourcesOf, event
    <2> QED
      BY <1>5, <2>1 DEF IInv, PassDisjoint
  <1>8. CalmPassHolds'
    <2> SUFFICES ASSUME pass[p].calm
                 PROVE  /\ found \subseteq active'
                        /\ p # "pipeline" =>
                              /\ active' = found
                              /\ \A e \in Events : Cardinality(CasesOf(e))' <= 1
      BY <1>1 DEF CalmPassHolds
    <2>1. change = Decided(p)
      BY <1>2 DEF Prepared
    <2>2. /\ change.insert = found \ Rows /\ change.revive = found \cap stale
          /\ change.drop = IF p = "pipeline" THEN {} ELSE active \ found
      BY <2>1 DEF Decided, Upserts, Synced
    <2>3. found \subseteq active' /\ (p # "pipeline" => active' = found)
      BY <1>1, <2>2 DEF Rows
    <2>4. ASSUME p # "pipeline", NEW e \in Events
          PROVE  Cardinality(CasesOf(e))' <= 1
      <3> DEFINE cases == {s \in found : e \in s}
      <3>1. CasesOf(e)' = cases
        BY <2>3, <2>4 DEF CasesOf
      <3>2. \A s, t \in cases : s = t
        BY DEF IInv, PassDisjoint
      <3> HIDE DEF cases
      <3>3. ASSUME NEW s \in cases
            PROVE  Cardinality(cases) <= 1
        <4>1. cases = {s}
          BY <3>2
        <4>2. Cardinality({s}) = 1
          BY FS_Singleton
        <4> QED
          BY <4>1, <4>2
      <3>4. Cardinality(cases) <= 1
        <4>1. CASE cases = {}
          BY <4>1, FS_EmptySet
        <4> QED
          BY <4>1, <3>3
      <3> QED
        BY <3>1, <3>4
    <2> QED
      BY <2>3, <2>4
  <1>9. GraphBacked'
    BY <1>1, <1>4 DEF IInv, GraphBacked
  <1>10. ASSUME NEW q \in Passes
         PROVE  /\ pass'[q].stage = "writing" => Prepared(q)'
                /\ pass'[q].stage = "stored" => pass'[q].found \subseteq Rows'
    <2>1. CASE q = p
      BY <2>1, <1>4, <1>5
    <2>2. CASE q # p
      BY <2>2, <1>4, <1>5 DEF IInv, Prepared
    <2> QED
      BY <2>1, <2>2
  <1> QED
    BY <1>6, <1>7, <1>8, <1>9, <1>10 DEF IInv

\* Nodes are drawn for what is stored.
LEMMA DrawKeeps ==
    ASSUME IInv, NEW p \in Passes, Draw(p)
    PROVE  IInv'
  <1>1. graph' \subseteq Rows
    BY DEF Draw, Drawn, IInv, GraphBacked
  <1> QED
    BY <1>1, EndKeeps DEF Draw, outside

\* Every step keeps the invariant.
LEMMA NextKeeps == IInv /\ [Next]_vars => IInv'
  <1> SUFFICES ASSUME IInv, [Next]_vars
               PROVE  IInv'
    OBVIOUS
  <1>1. ASSUME NEW p \in Passes, Collide(p) \/ GiveUp(p)
        PROVE  IInv'
    BY <1>1, EndKeeps DEF Collide, GiveUp, outside, IInv, GraphBacked
  <1>2. CASE UNCHANGED vars
    <2>1. /\ UNCHANGED <<world, active, stale, graph, pass, last>>
          /\ UNCHANGED <<arrived, begun>>
      BY <1>2 DEF vars
    <2>2. Rows' = Rows /\ \A e : CasesOf(e)' = CasesOf(e) /\ SourcesOf(e)' = SourcesOf(e)
      BY <2>1 DEF Rows, CasesOf, SourcesOf, event
    <2>3. TypeOK' /\ PassDisjoint' /\ CalmPassHolds' /\ GraphBacked'
      BY <2>1, <2>2 DEF IInv, TypeOK, PassDisjoint, CalmPassHolds, GraphBacked
    <2>4. ASSUME NEW p \in Passes
          PROVE  /\ pass'[p].stage = "writing" => Prepared(p)'
                 /\ pass'[p].stage = "stored" => pass'[p].found \subseteq Rows'
      <3>1. Upserts(pass[p].found)' = Upserts(pass[p].found)
        BY <2>1, <2>2 DEF Upserts
      <3>2. Synced(pass[p].found)' = Synced(pass[p].found)
        BY <2>1, <3>1 DEF Synced
      <3>3. Decided(p)' = Decided(p)
        BY <3>1, <3>2 DEF Decided
      <3> QED
        BY <2>1, <2>2, <3>3 DEF IInv, Prepared
    <2> QED
      BY <2>3, <2>4 DEF IInv
  <1> QED
    BY <1>1, <1>2, ReadKeeps, ExamineKeeps, CommitKeeps, DrawKeeps DEF Next, Pass, Done

\* The inductive invariant, and in it the types of all variables.
THEOREM Invariance == Spec => []IInv
  <1> QED
    BY InitEstablishes, NextKeeps, PTL DEF Spec

\* No event is in two situations of one pass, and every situation has two sources
\* at least (detect_situations), whatever the splits do to a cluster.
THEOREM SituationsDisjoint == Spec => []PassDisjoint
  <1>1. IInv => PassDisjoint
    BY DEF IInv
  <1> QED
    BY <1>1, Invariance, PTL

\* A pass that nothing disturbed leaves active what it detected, and a request
\* nothing else (upsert_situation, sync_active_situations).
THEOREM CalmPassesHold == Spec => []CalmPassHolds
  <1>1. IInv => CalmPassHolds
    BY DEF IInv
  <1> QED
    BY <1>1, Invariance, PTL

\* No situation has a node but no row (write_situation_nodes).
THEOREM NodesBacked == Spec => []GraphBacked
  <1>1. IInv => GraphBacked
    BY DEF IInv
  <1> QED
    BY <1>1, Invariance, PTL
=============================================================================
