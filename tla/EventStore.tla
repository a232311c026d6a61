----------------------------- MODULE EventStore -----------------------------
(***************************************************************************)
(* Where an event is (core/geo.py): coordinates from a built-in table of   *)
(* place names, and the country it belongs to.  And the events table with  *)
(* what the API asks of it (storage/event_repo.py).                        *)
(*                                                                         *)
(* A name is a value; what the code does with its letters is given by the  *)
(* constants below.  Coordinates are one value, [lat, lon], or None.  A    *)
(* table is a set of events, one to an event_id.  An event is a record;    *)
(* its text is the set of words that searches may find in it.  Times are   *)
(* numbers; ORDER BY puts None last.  Postgres breaks ties as it likes: of *)
(* one query the ids, which mean nothing else, stand for any way to break  *)
(* them; where pages are read by several queries, each breaks them anew    *)
(* (Pages).  A filter leaves out a condition by None.                      *)
(***************************************************************************)
EXTENDS Integers, Sequences, FiniteSetsExt, FiniteSets

CONSTANTS
    None,          \* nothing there
    Folded,        \* [name -> key]: _normalise; a name that is not in it is its own key
    Starts,        \* pairs <<text, head>>: the text starts with the head
    Unprefixed,    \* [key -> key]: without "the ", "republic of ", ...
    Coords,        \* the table, in its order: a sequence of <<key, coordinates>>
    Countries,     \* pycountry: [name or code -> the official name]
    Aliases,       \* _ALIASES: [name -> name]
    LastPart,      \* [name -> what follows its last comma or dash]
    ActorKey,      \* canonical_actor_key: [name -> key], a name not in it is its own key
    Proper,        \* normalize_actor_name: [name -> display name or None]
    Estimate       \* reltuples: what Postgres believes the table holds

ASSUME NoneAssumption == None \notin Int
ASSUME TableAssumption == \A i, j \in DOMAIN Coords : Coords[i][1] = Coords[j][1] => i = j

\* The columns that anything below looks at, and those that order a table.
EventFields == {"id", "source", "type", "words", "url", "ts", "ingest", "label", "mood", "at", "place", "country",
                "xcountry", "sourcecountry", "origin", "region", "domain", "actors", "risk", "signals",
                "supporting", "influence", "readable"}
AreActors(actors) ==
    /\ actors \in Seq({actors[i] : i \in DOMAIN actors})
    /\ \A i \in DOMAIN actors : {"name", "type"} \subseteq DOMAIN actors[i]
IsEvent(e) ==
    /\ EventFields \subseteq DOMAIN e
    /\ e.id \in Int /\ {e.ts, e.ingest} \subseteq Int \cup {None}
    /\ AreActors(e.actors)

\* The entries of a sequence at the indices S, in their order.
Nth(S, n) == CHOOSE i \in S : Cardinality({j \in S : j < i}) = n - 1
Chosen(s, S) == [n \in 1..Cardinality(S) |-> s[Nth(S, n)]]

SumOf(f) == MapThenSumSet(LAMBDA x : f[x], DOMAIN f)
Applied(f, x) == IF x \in DOMAIN f THEN f[x] ELSE x
FirstOf(xs) == LET there == {i \in DOMAIN xs : xs[i] # None}
               IN  IF there = {} THEN None ELSE xs[Min(there)]

\* What the table says of a key.
Listed(key) == LET hits == {i \in DOMAIN Coords : Coords[i][1] = key}
               IN  IF hits = {} THEN None ELSE Coords[CHOOSE i \in hits : TRUE][2]

\* The first entry of the table that starts with the key or the key with it.
Nearby(key) ==
    LET hits == {i \in DOMAIN Coords :
                    <<Coords[i][1], key>> \in Starts \/ <<key, Coords[i][1]>> \in Starts}
    IN  IF hits = {} THEN None ELSE Coords[Min(hits)][2]

\* The comma that the third and fourth attempts of the code look for is removed
\* by _normalise: they never find one.
Geocode(name) ==
    IF name = None THEN None
    ELSE LET key == Applied(Folded, name)
         IN  FirstOf(<<Listed(key),
                       Listed(Applied(Unprefixed, key)),
                       IF name \in DOMAIN Countries
                         THEN Listed(Applied(Folded, Countries[name])) ELSE None,
                       Nearby(key)>>)

\* Normalising a name a second time, as the table does, makes no place of it.
ASSUME RenamingAssumption ==
    \A n \in DOMAIN Proper : Geocode(Proper[n]) = None => Geocode(Applied(Proper, Proper[n])) = None

-----------------------------------------------------------------------------
\* normalize_country without its fallback, as every caller but one asks for it.
NormalizeCountry(value) ==
    LET raw == Applied(Aliases, value)
    IN  IF value # None /\ raw \in DOMAIN Countries THEN Countries[raw] ELSE None

\* The actors of an event are a sequence of [name, type].
Named(types, actors) == Chosen(actors, {i \in DOMAIN actors : actors[i].type \in types})

\* The extras come before the location, which the docstring puts first.
ResolveEventCountry(e) ==
    LET places == Named({"LOC"}, e.actors)
    IN  FirstOf(<<NormalizeCountry(e.xcountry), NormalizeCountry(e.sourcecountry),
                  NormalizeCountry(e.origin), NormalizeCountry(e.country),
                  NormalizeCountry(Applied(LastPart, e.place))>>
                \o [i \in DOMAIN places |-> NormalizeCountry(places[i].name)])

ResolveEventCoords(e) ==
    LET places == Named({"LOC", "GPE"}, e.actors)
    IN  FirstOf(<<e.at, Geocode(e.place)>>
                \o [i \in DOMAIN places |-> Geocode(places[i].name)]
                \o <<Geocode(e.sourcecountry), Geocode(e.region), Geocode(e.country), Geocode(e.domain)>>)

ApplyGeocoding(e) == [e EXCEPT !.at = ResolveEventCoords(e)]
ApplyCountry(e) ==
    LET country == ResolveEventCountry(e)
    IN  [e EXCEPT !.country = FirstOf(<<@, country>>), !.xcountry = FirstOf(<<@, country>>)]

-----------------------------------------------------------------------------
TrackingSources == {"ais", "opensky"}
TrackingCap == 150
IntelCap == 350

\* The actors with display names, the first of each key.
Displayed(actors) ==
    LET shown == [i \in DOMAIN actors |-> [actors[i] EXCEPT !.name = Applied(Proper, @)]]
    IN  Chosen(shown, {i \in DOMAIN shown : shown[i].name # None})
NormalizeActorPayloads(actors) ==
    LET shown == Displayed(actors)
        Key(i) == Applied(ActorKey, shown[i].name)
    IN  Chosen(shown, {i \in DOMAIN shown : \A j \in 1..(i - 1) : Key(j) # Key(i)})

\* The columns of a row.  The country is kept in the extras alone.
EventToRow(e) ==
    [e EXCEPT !.actors = NormalizeActorPayloads(@), !.country = None,
              !.xcountry = FirstOf(<<@, ResolveEventCountry(e)>>)]

\* A row read back: it has a location only with a latitude other than 0 or a
\* name, and its times are followed by "+00:00Z", which _parse_iso cannot read.
RowToEvent(r) ==
    LET located == (r.at # None /\ r.at.lat # 0) \/ r.place # None
    IN  [r EXCEPT !.actors = NormalizeActorPayloads(@), !.readable = FALSE,
                  !.at = IF located THEN @ ELSE None,
                  !.country = IF located THEN r.xcountry ELSE None]

\* Scores are no columns of an event: an update keeps those of the row, and
\* its ingest_time, and takes everything else from the event.
Updated(row, e) ==
    [EventToRow(e) EXCEPT !.ingest = row.ingest, !.risk = row.risk, !.signals = row.signals,
                          !.supporting = row.supporting, !.influence = row.influence]
UpsertMany(table, events) ==
    LET known(e) == {r \in table : r.id = e.id}
    IN  {r \in table : \A e \in events : e.id # r.id}
            \cup {IF known(e) = {} THEN EventToRow(e) ELSE Updated(CHOOSE r \in known(e) : TRUE, e)
                    : e \in events}

-----------------------------------------------------------------------------
\* Descending order of the keys, None last.
Later(a, b) == a # None /\ (b = None \/ a > b)
Before(kx, ky) ==
    \E i \in DOMAIN kx : Later(kx[i], ky[i]) /\ \A j \in 1..(i - 1) : kx[j] = ky[j]

Rank(e, S, Key(_)) == Cardinality({x \in S : Before(Key(x), Key(e))})
Page(S, Key(_), limit, offset) ==
    {e \in S : Rank(e, S, Key) >= offset /\ Rank(e, S, Key) < offset + limit}

\* What a query that orders by the keys alone may return: equal keys in any order.
Pages(S, Key(_), limit, offset) ==
    LET Tied(e) == Cardinality({x \in S : ~Before(Key(x), Key(e)) /\ ~Before(Key(e), Key(x))}) - 1
        First(e) == Rank(e, S, Key)
        Last(e) == First(e) + Tied(e)
        room == Min({limit, Max({0, Cardinality(S) - offset})})
    IN  {P \in SUBSET S :
            /\ Cardinality(P) = room
            /\ \A e \in P : Last(e) >= offset /\ First(e) < offset + limit
            /\ \A e \in S : First(e) >= offset /\ Last(e) < offset + limit => e \in P}

ByTime(e) == <<e.ts, e.ingest, e.id>>
ByIngest(e) == <<e.ingest, e.ts, e.id>>
ByRisk(e) == <<e.risk, e.signals, e.ts, e.ingest, e.id>>
NewestFirst(e) == <<e.ingest, e.ts, e.risk, e.id>>
RiskiestFirst(e) == <<e.risk, e.signals, e.influence, e.ingest, e.ts, e.id>>

\* A filter is [source, type, label, words, from, to].  A comparison with a null
\* time is never true.  Of a query its terms are wanted, any of them.
NoFilter == [source |-> None, type |-> None, label |-> None, words |-> {}, from |-> None, to |-> None]
Within(ts, f) ==
    /\ f.from = None \/ (ts # None /\ ts >= f.from)
    /\ f.to = None \/ (ts # None /\ ts <= f.to)
TextMatch(e, f) == f.words = {} \/ f.words \cap e.words # {}
FromSource(e, source) == e.source = source \/ <<e.source, source>> \in Starts
Selected(table, f) ==
    {e \in table : /\ f.source = None \/ FromSource(e, f.source)
                   /\ f.type = None \/ e.type = f.type
                   /\ f.label = None \/ e.label = f.label
                   /\ Within(e.ts, f)
                   /\ TextMatch(e, f)}

\* The rows and the count are two statements: counted is the table the second
\* one sees.  Without a condition the count is Postgres's estimate.
ListOrder(sort, e) ==
    CASE sort = "risk" -> ByRisk(e) [] sort = "ingest" -> ByIngest(e) [] OTHER -> ByTime(e)
ListEvents(table, f, sort, limit, offset) ==
    {RowToEvent(r) : r \in Page(Selected(table, f), LAMBDA e : ListOrder(sort, e), limit, offset)}
ListPages(table, f, limit, offset) ==
    {{RowToEvent(r) : r \in P} : P \in Pages(Selected(table, f), LAMBDA e : <<e.ts, e.ingest>>, limit, offset)}

\* A count that fails is taken for what has been listed so far.
Total(counted, f, listed, offset, ok) ==
    CASE ~ok -> offset + listed
      [] ok /\ f = NoFilter -> Max({Estimate, offset + listed})
      [] OTHER -> Cardinality(Selected(counted, f))

\* How many events each source has; the source of the filter does not count.
SourceFacets(table, f) ==
    LET found == Selected(table, [f EXCEPT !.source = None])
    IN  [s \in {e.source : e \in found} |-> Cardinality({e \in found : e.source = s})]

\* The feed leaves raw tracking out and keeps what is remarkable in it.
Remarkable(e) == e.type = "anomaly" \/ e.url \/ e.risk > 0 \/ e.signals > 0
FeedRows(table, f, sort, tracking, limit, offset) ==
    LET wanted == {e \in Selected(table, f) :
                      CASE f.source \in TrackingSources -> Remarkable(e)
                        [] tracking -> e.source \notin TrackingSources \/ Remarkable(e)
                        [] OTHER -> e.source \notin TrackingSources}
        Order(e) == IF sort = "priority" THEN RiskiestFirst(e) ELSE NewestFirst(e)
    IN  {RowToEvent(r) : r \in Page(wanted, Order, limit, offset)}

\* The map takes a share of each tracking source and the newest of the rest.
\* Every row has actors, if only none: all of them count as geocodable.
MapRows(table, f, limit) ==
    LET all == Selected(table, f)
        Newest(S, n) == Page(S, ByTime, n, 0)
        cap == Min({TrackingCap, limit \div 2})
    IN  {RowToEvent(r) : r \in
            IF f.source # None THEN Newest(all, limit)
            ELSE (UNION {Newest({e \in all : e.source = s}, cap) : s \in TrackingSources})
                 \cup Newest({e \in all : e.source \notin TrackingSources}, Min({IntelCap, limit}))}

\* One point for every day on which events with a mood fall, and one for those
\* without a time.
Bucket(e, day) == IF e.ts = None THEN None ELSE e.ts \div day
SentimentTimeline(table, f, day) ==
    LET felt == {e \in Selected(table, [f EXCEPT !.source = None]) :
                    e.mood # None /\ f.source \in {None, e.source}}
        On(d) == {e \in felt : Bucket(e, day) = d}
        Labelled(d, l) == Cardinality({e \in On(d) : e.label = l})
    IN  [d \in {Bucket(e, day) : e \in felt} |->
            [count |-> Cardinality(On(d)),
             average |-> SumOf([e \in On(d) |-> e.mood]) \div Cardinality(On(d)),
             positive |-> Labelled(d, "POSITIVE"), neutral |-> Labelled(d, "NEUTRAL"),
             negative |-> Labelled(d, "NEGATIVE")]]
=============================================================================
