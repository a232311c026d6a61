----------------------------- MODULE Detectors -----------------------------
(***************************************************************************)
(* The two statistical detectors of the pipeline: of narratives            *)
(* (intelligence/narrative_detector.py) and of anomalies                   *)
(* (intelligence/anomaly_detector.py).  Both compare a window of recent    *)
(* events with the week before it and keep no state.                       *)
(*                                                                         *)
(* Time is counted in half-hours; time 0 is the present of the behaviour's *)
(* start.  The events of the behaviour are the numbers 1..Len(event); the  *)
(* week before it is given as counts (past).  Moods are sentiment scores   *)
(* in percent.  Names stand for strings of sufficient length, and a list   *)
(* of actors is a set, as the extractors deliver it.  A z-score is never   *)
(* computed: what the code compares with a threshold is squared and        *)
(* multiplied out.  The cuts to the top 20, 50, 200 and 500 are not        *)
(* reached; rounding and the descriptive fields are left out.              *)
(***************************************************************************)
EXTENDS Integers, Sequences, FiniteSetsExt

CONSTANTS
    world,  \* [event |-> what happens, past |-> the week before, typeOf |-> kinds of source]
    now     \* when the detector runs, six hours after the start at most

event == world.event
past == world.past
NoMood == -1
NoPlace == "Unspecified"
Severities == 1..4
Low == 1
Medium == 2
High == 3
Critical == 4

\* Events stored by now whose timestamp lies between the two.
Between(from, to) == {e \in DOMAIN event : event[e].stored <= now /\ event[e].at \in from..to}
Count(es, Test(_)) == Cardinality({e \in es : Test(e)})
Past(table, key) == IF key \in DOMAIN table THEN table[key] ELSE 0
Square(n) == n * n
Top(m, n) == IF m > n THEN m ELSE n
AtMost(n, top) == IF n < top THEN n ELSE top
Moods(es) == MapThenSumSet(LAMBDA e : event[e].mood, es)
Actors(es) == UNION {event[e].actors : e \in es}
Naming(es, a) == {e \in es : a \in event[e].actors}
InCell(es, c) == {e \in es : event[e].cell = c}
Of(es, s) == {e \in es : event[e].source = s}

-----------------------------------------------------------------------------
\* Anomalies: one hour against the 167 hours before it.

Hours == 167
ScanWindow == Between(now - 2, now)
Earlier == Between(0, now - 2)

Alert(kind, entity, place, count, total, severity) ==
    [kind |-> kind, entity |-> entity, place |-> place, count |-> count, past |-> total,
     severity |-> severity]

\* Mutant of Deviates: in either direction.
DeviatesEitherWay(count, total, z) ==
    Square(Hours * count - total) >= z * z * Hours * Top(total, Hours)

\* (count - total / Hours) / sqrt(max(total / Hours, 1)) >= z
Deviates(count, total, z) ==
    /\ Hours * count >= total
    /\ Square(Hours * count - total) >= z * z * Hours * Top(total, Hours)

\* How severe so many mentions are; 0 means not at all.
SpikeSeverity(count, total) ==
    CASE total < 10 -> IF count >= 5 THEN Medium ELSE Low
      [] total >= 10 /\ Deviates(count, total, 5) -> Critical
      [] total >= 10 /\ Deviates(count, total, 3) /\ ~Deviates(count, total, 5) -> High
      [] total >= 10 /\ Deviates(count, total, 2) /\ ~Deviates(count, total, 3) -> Medium
      [] OTHER -> 0

Spike(w, a) ==
    LET count == Cardinality(Naming(w, a))
        total == Past(past.actor, a) + Cardinality(Naming(Earlier, a))
    IN  Alert("entity_spike", a, NoPlace, count, total, SpikeSeverity(count, total))

EntitySpikes(w) == {s \in {Spike(w, a) : a \in Actors(w)} : s.count >= 3 /\ s.severity > 0}

\* Events with coordinates are counted per cell of a grid.  The cluster is
\* named after the place, not the entity, which is left empty.
GeographicClusters(w) ==
    LET placed == {e \in w : event[e].cell # NoPlace}
        cluster(c) ==
            LET count == Cardinality(InCell(placed, c))
                total == Past(past.cell, c) + Cardinality(InCell(Earlier, c))
            IN  Alert("geographic_cluster", "none", c, count, total,
                      IF Deviates(count, total, 3) THEN High ELSE Medium)
    IN  IF Cardinality(placed) < 5 THEN {}
        ELSE {g \in {cluster(event[e].cell) : e \in placed} :
                g.count >= 3 /\ Deviates(g.count, g.past, 2)}

\* A source with two events expected or more that delivers less than a fifth.
Silence(w, s) ==
    LET count == Cardinality(Of(w, s))
        total == Past(past.source, s) + Cardinality(Of(Earlier, s))
    IN  Alert("source_silence", s, NoPlace, count, total,
              IF count = 0 THEN High ELSE IF 10 * Hours * count < total THEN Medium ELSE Low)

SourceSilence(w) ==
    {q \in {Silence(w, s) : s \in DOMAIN past.source} :
        q.past >= 2 * Hours /\ 5 * Hours * q.count < q.past}

\* The average mood of a region has dropped.  past.mood holds number and sum.
SentimentShifts(w) ==
    LET moody(es, r) == {e \in es : event[e].mood # NoMood /\ event[e].region = r}
        old(r) == moody(Earlier, r)
        number(r) == past.mood[r][1] + Cardinality(old(r))
        sum(r) == past.mood[r][2] + Moods(old(r))
        shift(r) ==
            LET n == Cardinality(moody(w, r))
                drop(percent) == sum(r) * n - Moods(moody(w, r)) * number(r) >= percent * n * number(r)
            IN  Alert("sentiment_deterioration", r, r, n, number(r),
                      IF n < 4 \/ number(r) < 8 \/ ~drop(22) THEN 0
                      ELSE IF drop(40) THEN Critical ELSE IF drop(30) THEN High ELSE Medium)
    IN  {s \in {shift(r) : r \in DOMAIN past.mood} : s.severity > 0}

Scan ==
    EntitySpikes(ScanWindow) \cup GeographicClusters(ScanWindow)
    \cup SourceSilence(ScanWindow) \cup SentimentShifts(ScanWindow)

-----------------------------------------------------------------------------
\* Narratives: six hours against the week.

NarrativeWindow == Between(now - 12, now)
\* NarrativeSignal.severity of a strength in percent
SeverityOf(strength) ==
    CASE strength >= 75 -> Critical [] strength \in 50..74 -> High
      [] strength \in 25..49 -> Medium [] OTHER -> Low

\* A topic is the set of what it is about: a name, a pair of words, two actors.
Signal(kind, topic, count, strength) ==
    [kind |-> kind, topic |-> topic, count |-> count, strength |-> strength,
     severity |-> SeverityOf(strength)]

\* The largest percentage, in steps of 5, that passes.
Strength(Passes(_)) == CHOOSE s \in {5 * k : k \in 0..20} :
    /\ s = 0 \/ Passes(s)
    /\ \A k \in 1..20 : 5 * k > s => ~Passes(5 * k)

\* A name or tag is expected total / 28 times; less than once means it is new.
VelocitySpikes(w) ==
    LET names(e) == event[e].actors \cup event[e].tags
        deviates(n, total, percent) ==
            28 * n >= total /\ 100 * Square(28 * n - total) >= Square(percent) * 28 * total
        spike(x) ==
            LET n == Count(w, LAMBDA e : x \in names(e))
                total == Past(past.actor, x)
            IN  [signal |-> Signal("velocity_spike", {x}, n,
                    IF total < 28 THEN AtMost(20 * n, 100)
                    ELSE Strength(LAMBDA s : deviates(n, total, s))),
                 spikes |-> n >= 3 /\ (total < 28 \/ deviates(n, total, 20))]
    IN  {s.signal : s \in {t \in {spike(x) : x \in UNION {names(e) : e \in w}} : t.spikes}}

\* source_type of a source, and what the divergence makes of it
MediaOf(e) == IF world.typeOf[event[e].source] = "social" THEN "social" ELSE "news"

\* A pair of title words in five events, of two types of source at least.  With
\* two types the strength is 0.4 or more, so its threshold of 0.25 never bites.
CrossSource(w) ==
    LET with(b) == {e \in w : b \in event[e].bigrams}
        types(b) == {world.typeOf[event[e].source] : e \in with(b)}
    IN  {Signal("cross_source_amplification", {b}, Cardinality(with(b)),
                15 * Cardinality(types(b)) + 2 * AtMost(Cardinality(with(b)), 20)) :
            b \in {c \in UNION {event[e].bigrams : e \in w} :
                    Cardinality(with(c)) >= 5 /\ Cardinality(types(c)) >= 2}}

\* News and social media disagree about an actor by 0.35 or more.
SentimentDivergence(w) ==
    LET told(a, media) == {e \in Naming(w, a) : event[e].mood # NoMood /\ MediaOf(e) = media}
        apart(a, percent) ==
            LET n == Cardinality(told(a, "news"))
                s == Cardinality(told(a, "social"))
                gap == Moods(told(a, "news")) * s - Moods(told(a, "social")) * n
            IN  Top(gap, -gap) >= percent * n * s
    IN  {Signal("sentiment_divergence", {a}, Cardinality(Naming(w, a)),
                Strength(LAMBDA s : apart(a, (6 * s) \div 10))) :
            a \in {b \in Actors(w) :
                    /\ Cardinality(told(b, "news")) >= 3
                    /\ Cardinality(told(b, "social")) >= 3
                    /\ apart(b, 35)}}

\* Two actors named together more often than in the past.  With the graph the
\* past is always empty: it is looked up under the lower-case ids of the nodes.
Coactivation(w, graphUsed) ==
    LET pairs == UNION {kSubset(2, event[e].actors) : e \in w}
        count(p) == Count(w, LAMBDA e : p \subseteq event[e].actors)
        total(p) == IF graphUsed THEN 0 ELSE Past(past.pair, p)
        beyond(p, percent) ==
            /\ 27 * count(p) >= total(p)
            /\ 1600 * Square(27 * count(p) - total(p)) >=
                  Square(40 + percent) * Top(108 * total(p), 729)
    IN  {Signal("actor_coactivation", p, count(p),
                IF total(p) = 0 THEN AtMost(10 * count(p), 100)
                ELSE Strength(LAMBDA s : beyond(p, s))) :
            p \in {q \in pairs : count(q) >= 3 /\ (total(q) = 0 \/ beyond(q, 0))}}

\* _deduplicate_signals: the strongest of each topic and type; of equal ones
\* the first, whichever that is.
Strongest(signals) ==
    LET rivals(s) == {t \in signals : t.topic = s.topic /\ t.kind = s.kind}
        best(s) == CHOOSE t \in rivals(s) : \A u \in rivals(s) : u.strength <= t.strength
    IN  {s \in signals : s = best(s)}

Detect(graphUsed) ==
    LET w == NarrativeWindow
    IN  IF Cardinality(w) < 5 THEN {}
        ELSE Strongest(VelocitySpikes(w) \cup CrossSource(w) \cup SentimentDivergence(w)
                       \cup Coactivation(w, graphUsed))

-----------------------------------------------------------------------------
Same(a, b) == a.kind = b.kind /\ a.entity = b.entity /\ a.place = b.place

\* One event less in the hour never makes a spike or a cluster graver, nor the
\* silence of a source more harmless.
Monotone ==
    \A e \in ScanWindow :
        LET less == ScanWindow \ {e}
            loud(w) == EntitySpikes(w) \cup GeographicClusters(w)
        IN  /\ \A a \in loud(less) : \E b \in loud(ScanWindow) :
                  Same(a, b) /\ b.severity >= a.severity
            /\ \A a \in SourceSilence(ScanWindow) : \E b \in SourceSilence(less) :
                  Same(a, b) /\ b.severity >= a.severity
=============================================================================
