------------------------- MODULE SituationDetector -------------------------
(***************************************************************************)
(* The situation detector (intelligence/situation_detector.py): a window   *)
(* of events goes in, a set of situations comes out.  It keeps no state.   *)
(*                                                                         *)
(* Events are the numbers of Events in the order of their ingestion; what  *)
(* the detector reads of them is the function event (world chooses it).    *)
(* A situation is the set of its members, because its id is a hash of      *)
(* their ids (_situation_id).  Text is reduced to what the code extracts   *)
(* from it: the keys of significant actors, the intelligence keywords, the *)
(* topic family, and a thread standing for the cosine similarity of        *)
(* embeddings (two texts are similar when they are of one thread).         *)
(* Places are points on a line; two within one unit are within 250 km.     *)
(* Risk is in percent.  Rounding to four digits is left out.               *)
(*                                                                         *)
(* The clusters are defined as connected components; that the union-find   *)
(* of the code computes these is the subject of module UnionFind.          *)
(***************************************************************************)
EXTENDS Integers, FiniteSetsExt

CONSTANTS
    Worlds,       \* candidate attributes of the events, and the embedder's
    Events,       \* 1..n, in the order of ingestion
    HighSignal,   \* actor keys that contain a term of _HIGH_SIGNAL_ACTOR_TERMS
    LongNames,    \* actor keys of two words or at least eight letters
    CommonAt,     \* events that make an ordinary actor too common (4)
    AnchorMin,    \* smallest cluster split by anchor actors (8)
    FamilyMin,    \* smallest cluster split by topic family (6)
    SemanticMin,  \* smallest cluster split by embeddings (5)
    BulkMax,      \* largest cluster that may be of low risk (25)
    CaseMax,      \* largest cluster that is a case (80)
    ActorMax      \* most actors of a case (120)

ASSUME EventsAssumption == IsFiniteSet(Events) /\ Events = 1..Cardinality(Events)

\* The keys of actors are text: numbers stand for them in alphabetical order.
ASSUME ActorsAssumption ==
    \A v \in Worlds : \A e \in Events :
        v.event[e].actors \subseteq Int /\ IsFiniteSet(v.event[e].actors)

VARIABLE world   \* [event |-> their attributes, embedder |-> is it installed]

Families == {"conflict", "general", "market", "politics", "rights"}
NameOrder == [conflict |-> 1, general |-> 2, market |-> 3, politics |-> 4, rights |-> 5]
Tracking == {"ais", "opensky"}
NoPlace == -9

event == world.event
AtMost(n, top) == IF n < top THEN n ELSE top
Union(c, F(_)) == UNION {F(e) : e \in c}
Total(c, F(_)) == MapThenSumSet(F, c)
ActorsOf(e) == event[e].actors
TermsOf(e) == event[e].terms
SourcesOf(c) == {event[e].source : e \in c}

-----------------------------------------------------------------------------
\* Not a position report, nor a post fetched because of one, and not dated
\* before the window although it was ingested in it.
Caseworthy(e) ==
    /\ event[e].source \notin Tracking
    /\ ~event[e].outdated
    /\ ~event[e].aboutTracking

\* Ordinary actors that stand in too many events to tell any of them apart.
Ignored(w) ==
    {a \in Union(w, ActorsOf) \ HighSignal :
        Cardinality({e \in w : a \in ActorsOf(e)}) >= CommonAt}

Related(e, f, ignored) ==
    \/ (ActorsOf(e) \cap ActorsOf(f) \cap LongNames) \ ignored # {}
    \/ /\ NoPlace \notin {event[e].place, event[f].place}
       /\ event[e].place - event[f].place \in -1..1

\* The connected components of the events of w.
Clusters(w, ignored) ==
    LET closed == {c \in SUBSET w : \A e \in c, f \in w \ c : ~Related(e, f, ignored)}
    IN  {c \in closed : c # {} /\ \A d \in closed : d \subseteq c => d \in {{}, c}}

-----------------------------------------------------------------------------
\* What a set of events says together.

KeywordHits(c) == Cardinality(Union(c, TermsOf))
DefenseReports(c) == {e \in c : event[e].defense}

\* _event_signal_score, times 400
Signal(e) ==
    (18 * event[e].risk) \div 10 + 35 * AtMost(Cardinality(TermsOf(e)), 4)
    + (IF event[e].defense THEN 40 ELSE 0) + 10 * AtMost(Cardinality(ActorsOf(e)), 4)

HighSignalCount(c) == Cardinality({e \in c : Signal(e) >= 132})

CountOf(c, f) == Cardinality({e \in c : event[e].family = f})
DominantFamily(c) ==
    CHOOSE f \in Families : \A g \in Families \ {f} :
        \/ CountOf(c, f) > CountOf(c, g)
        \/ CountOf(c, f) = CountOf(c, g) /\ NameOrder[f] > NameOrder[g]

\* The dominant family covers at least percent of c.
Covers(c, percent) == 100 * CountOf(c, DominantFamily(c)) >= percent * Cardinality(c)

\* _cluster_intel_score, times 1200
IntelScore(c, actors) ==
    (540 * Total(c, LAMBDA e : event[e].risk)) \div (100 * Cardinality(c))
    + 60 * AtMost(Cardinality(SourcesOf(c)), 4) + 40 * AtMost(KeywordHits(c), 6)
    + 30 * AtMost(Cardinality(actors), 4) + 20 * AtMost(Cardinality(DefenseReports(c)), 3)

-----------------------------------------------------------------------------
\* The three splits of a cluster.  Each gives up, and returns it whole, when
\* less than two parts of two events come out of it.

\* The four commonest high-signal actors that stand in two events or more but
\* not in all, ties by key.
Anchors(c, ignored) ==
    LET count(a) == Cardinality({e \in c : a \in ActorsOf(e)})
        able == {a \in (Union(c, ActorsOf) \cap HighSignal) \ ignored :
                    count(a) >= 2 /\ count(a) < Cardinality(c)}
        before(a, b) == count(a) > count(b) \/ (count(a) = count(b) /\ a < b)
    IN  [key \in {b \in able : Cardinality({a \in able : before(a, b)}) < 4} |->
            Cardinality({a \in able : before(a, key)})]

\* Mutant of BucketOf: an event goes to every anchor it names.
BucketOfEach(c, rank, a) == {e \in c : a \in ActorsOf(e)}

\* An event goes to the strongest anchor it names.
BucketOf(c, rank, a) ==
    {e \in c : a \in ActorsOf(e)
               /\ \A b \in DOMAIN rank \cap ActorsOf(e) : rank[a] <= rank[b]}

SplitByAnchors(c, ignored) ==
    LET rank == Anchors(c, ignored)
        buckets == {b \in {BucketOf(c, rank, a) : a \in DOMAIN rank} : Cardinality(b) >= 2}
        others == {e \in c : ActorsOf(e) \cap DOMAIN rank = {}}
    IN  IF Cardinality(c) < AnchorMin \/ Cardinality(buckets) < 2 THEN {c}
        ELSE buckets \cup (IF Cardinality(others) >= 2 THEN {others} ELSE {})

SplitByFamily(c) ==
    LET buckets == {b \in {{e \in c : event[e].family = f} : f \in Families \ {"general"}} :
                       Cardinality(b) >= 2}
    IN  IF \/ Cardinality(c) < FamilyMin \/ Cardinality(buckets) < 2
           \/ DominantFamily(c) = "general" \/ Covers(c, 80)
        THEN {c} ELSE buckets

\* Parts without a topic or of one source are thrown together.
SemanticSplit(c) ==
    LET parts == {b \in {{e \in c : event[e].thread = event[f].thread} : f \in c} :
                     Cardinality(b) >= 2}
        coherent == {b \in parts : /\ DominantFamily(b) # "general" /\ Covers(b, 55)
                                   /\ Cardinality(SourcesOf(b)) >= 2}
        leftovers == UNION (parts \ coherent)
    IN  IF \/ Cardinality(c) < SemanticMin \/ ~world.embedder
           \/ Cardinality(parts) < 2 \/ coherent = {}
        THEN {c}
        ELSE IF Cardinality(coherent) = 1 THEN coherent
        ELSE coherent \cup (IF Cardinality(leftovers) >= 2 THEN {leftovers} ELSE {})

Candidates(c, ignored) ==
    UNION {UNION {SemanticSplit(d) : d \in SplitByFamily(b)} : b \in SplitByAnchors(c, ignored)}

-----------------------------------------------------------------------------
\* _should_skip_weak_cluster.  The rules about single-source GDELT and market
\* feeds are left out: events here have neither.  The events both callers pass
\* have no country, so the rule that asks for a common one asks for nothing.
Weak(c, actors) ==
    LET n == Cardinality(c)
        risk == Total(c, LAMBDA e : event[e].risk)
        signal == Total(c, Signal)
        few == Cardinality(SourcesOf(c)) <= 2
    IN  \/ IntelScore(c, actors) < 216
        \/ KeywordHits(c) = 0 /\ risk < 10 * n /\ few /\ Cardinality(actors) <= 1
        \/ actors = {} /\ few /\ risk < 18 * n
        \/ HighSignalCount(c) < 2 /\ signal < 120 * n /\ risk < 18 * n
        \/ DominantFamily(c) = "general" /\ ~Covers(c, 75) /\ risk < 25 * n
        \/ ~Covers(c, 60) /\ risk < 28 * n /\ Cardinality(SourcesOf(c)) <= 5
        \/ /\ Cardinality({event[e].family : e \in c}) >= 3 /\ ~Covers(c, 70)
           /\ HighSignalCount(c) < 3 /\ risk < 30 * n

\* The gates: what is not worth an investigation is no situation.
Investigable(c, ignored) ==
    LET actors == Union(c, ActorsOf) \ ignored
    IN  /\ Cardinality(SourcesOf(c)) >= 2
        /\ Cardinality(c) <= CaseMax
        /\ Cardinality(actors) <= ActorMax
        /\ Cardinality(c) > BulkMax =>
              Total(c, LAMBDA e : event[e].risk) >= 15 * Cardinality(c)
        /\ ~Weak(c, actors)

\* detect_situations: the situations of the events of a window.
Detect(window) ==
    LET w == {e \in window : Caseworthy(e)}
        ignored == Ignored(w)
        big == {c \in Clusters(w, ignored) : Cardinality(c) >= 2}
    IN  {s \in UNION {Candidates(c, ignored) : c \in big} : Investigable(s, ignored)}
=============================================================================
