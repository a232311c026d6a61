-------------------------------- MODULE Feed --------------------------------
(***************************************************************************)
(* What GET /events, /events/window, /events/feed and /events/map make of  *)
(* the events they read (api/routers/events.py).  Scores are thousandths,  *)
(* rounded down.  now is the hour at which a request is answered.          *)
(*                                                                         *)
(* A situation is [sid, events, risk, severity, count, sources, active,    *)
(* at]; what an event is linked to is a record of one, or None.            *)
(***************************************************************************)
EXTENDS EventStore

CONSTANT Family   \* _source_family: [source -> family], a source not in it is its own

One == 1000
SocialSources == {"reddit", "twitter", "youtube", "telegram"}
MembershipLimit == 200
Day == 24

FamilyOf(source) == Applied(Family, source)
SocialLike(e) == e.source \in SocialSources \/ e.type \in {"social", "video"}
FeedKind(e) ==
    CASE e.type = "anomaly" -> "anomaly"
      [] SocialLike([e EXCEPT !.source = FamilyOf(@)]) -> "social"
      [] e.type = "market" \/ FamilyOf(e.source) = "market" -> "market"
      [] e.type \in {"disaster", "weather", "health"} \/ FamilyOf(e.source) \in {"usgs", "who"} -> "alert"
      [] OTHER -> "news"

Feedworthy(e, tracking) ==
    e.source \in TrackingSources =>
        /\ tracking
        /\ e.type = "anomaly" \/ e.url \/ e.risk > 0 \/ e.influence > 0 \/ e.signals > 0

-----------------------------------------------------------------------------
(* The case an event is shown with.                                        *)

\* Active situations, the riskiest first.
Strongest(situations, n) ==
    Page({s \in situations : s.active}, LAMBDA s : <<s.risk, s.at, s.sid>>, n, 0)
FamiliesIn(table, ids) == {FamilyOf(r.source) : r \in {x \in table : x.id \in ids}}
Hint(families, count) == (One * Min({families, 6})) \div 12 + (One * Min({count, 8})) \div 16

\* get_situation_membership_map, and what the feed adds to it: how many
\* families the stored members of the situation come from.
Linked(id, table, situations) ==
    LET of == {s \in Strongest(situations, MembershipLimit) : id \in s.events}
    IN  IF of = {} THEN None
        ELSE LET s == CHOOSE x \in of : Rank(x, of, LAMBDA y : <<y.risk, y.at, y.sid>>) = 0
                 families == Cardinality(FamiliesIn(table, s.events))
             IN  [sid |-> s.sid, risk |-> s.risk, sources |-> families, hint |-> Hint(families, s.count)]

\* Mutant of LinkedSources: none if there is no case.
SourcesOfCase(linked) == IF linked = None THEN 5 ELSE linked.sources

\* A case of no source counts as one, and so does no case.
LinkedSources(linked) == IF linked = None \/ linked.sources = 0 THEN 1 ELSE linked.sources

CorroborationScore(e, linked) ==
    Min({One, (350 * Min({e.signals, 6})) \div 6
            + (150 * Min({e.supporting, 6})) \div 6
            + (100 * Min({Len(e.actors), 6})) \div 6
            + (250 * Min({LinkedSources(linked), 5})) \div 5
            + (IF e.url THEN 100 ELSE 0)
            + (IF linked = None THEN 0 ELSE (50 * linked.hint) \div One)})

\* A day for whoever's times cannot be read, which are all rows of the table;
\* for the same reason they have no age, and no staleness ever counts for them.
AgeHours(e, now) ==
    LET dated == FirstOf(<<e.ingest, e.ts>>)
    IN  IF e.readable /\ dated # None THEN Max({now - dated, 0}) ELSE Day
ContentAge(e, now) == IF e.readable /\ e.ts # None THEN Max({now - e.ts, 0}) ELSE 0

Importance(e, linked) ==
    (32 * e.risk) \div 100
        + (IF linked = None THEN 0 ELSE (18 * linked.risk) \div 100)
        + (8 * Min({e.influence, One})) \div 100
        + (120 * Min({e.signals, 6})) \div 6
        + (80 * Min({Len(e.actors), 6})) \div 6
        + (22 * CorroborationScore(e, linked)) \div 100
        + (IF e.type = "anomaly" THEN 120 ELSE 0)
StalePenalty(e, now) ==   \* percent
    LET age == ContentAge(e, now)
    IN  CASE SocialLike(e) /\ age > 180 * Day -> 10
          [] SocialLike(e) /\ age > 90 * Day -> 18
          [] SocialLike(e) /\ age > 45 * Day -> 35
          [] ~SocialLike(e) /\ e.type = "news" /\ age > 30 * Day -> 45
          [] OTHER -> 100
FeedScore(e, linked, now) ==
    LET recency == (6 * One) \div (6 + AgeHours(e, now))
        echo == IF e.trigger = "auto_social" THEN 80 ELSE 100
    IN  Min({One, ((7 * Importance(e, linked) + 3 * recency) * StalePenalty(e, now) * echo) \div 100000})

\* Fresh or corroborated: what the priority feed shows.
PriorityEligible(e, linked, now) ==
    LET age == ContentAge(e, now)
        alone == e.signals = 0 /\ linked = None
    IN  /\ ~(/\ e.source = "yahoo_finance" \/ e.type = "market"
             /\ alone /\ e.risk < 550)
        /\ SocialLike(e) =>
             /\ ~(e.trigger = "auto_social" /\ e.echo \in TrackingSources)
             /\ ~(age > 30 * Day /\ linked = None)
             /\ ~(age > 14 * Day /\ alone /\ e.risk < 550)
        /\ ~(e.type = "news" /\ age > 21 * Day /\ alone /\ e.risk < 250)

-----------------------------------------------------------------------------
(* The feed.  A request is [f, sort, cases, tracking, limit, offset].      *)

FeedItem(e, linked, now) ==
    [event |-> e, kind |-> FeedKind(e), family |-> FamilyOf(e.source), linked |-> linked,
     corroboration |-> CorroborationScore(e, linked), score |-> FeedScore(e, linked, now)]

Families(items) == {i.family : i \in items}
Group(key, items, sources) ==
    [key |-> key, events |-> items, sources |-> sources,
     corroboration |-> SumOf([i \in items |-> i.corroboration]) \div Max({Cardinality(items), 1})]
CaseOf(item) == IF item.linked = None THEN None ELSE item.linked.sid
BuildFeedGroups(items) ==
    {LET inside == {i \in items : CaseOf(i) = key} IN Group(key, inside, Cardinality(Families(inside)))
        : key \in {CaseOf(i) : i \in items}}

\* Groups of cases: the strongest ones of several sources.  Of the members
\* only those that are also on the page are scored with their case.
CaseGroup(s, items) == Group(s.sid, items, Max({Cardinality(Families(items)), s.sources}))
Sound(s) == s.sources >= 2 /\ s.count >= 2 /\ s.risk >= 50
CaseGroups(table, situations, request, onPage, now) ==
    LET strong == {s \in Strongest(situations, Max({12, Min({request.limit, 24})})) : Sound(s)}
        linked(r) == IF r.id \in onPage THEN Linked(r.id, table, situations) ELSE None
        shown(s) == {r \in {RowToEvent(x) : x \in {y \in table : y.id \in s.events}} :
                        Feedworthy(r, request.tracking) /\ PriorityEligible(r, linked(r), now)}
        case(s) == CaseGroup(s, {FeedItem(r, linked(r), now) : r \in shown(s)})
    IN  {g \in {case(s) : s \in strong} : g.events # {} /\ g.sources >= 2}

\* A page in groups: of its cases, or else of its items.
Grouped(request, page, cases) ==
    [events |-> page,
     groups |-> CASE ~request.cases -> {}
                  [] request.cases /\ cases # {} -> cases
                  [] OTHER -> BuildFeedGroups(page)]

\* A priority feed is ranked among eight pages' worth of candidates.  A feed by
\* time that is not grouped leaves the offset to the database and applies it
\* again to what it got.
Candidates(request) == request.sort = "priority" \/ request.cases
FeedOf(rows, table, situations, request, now) ==
    LET linked(r) == Linked(r.id, table, situations)
        items == {FeedItem(r, linked(r), now) : r \in {x \in rows : Feedworthy(x, request.tracking)}}
        eligible == {i \in items : request.sort = "priority" => PriorityEligible(i.event, i.linked, now)}
        Order(i) == IF request.sort = "priority" THEN <<i.score>> \o RiskiestFirst(i.event) ELSE NewestFirst(i.event)
    IN  Grouped(request, Page(eligible, Order, request.limit, request.offset),
                CaseGroups(table, situations, request, {r.id : r \in rows}, now))
FeedPage(table, situations, request, now) ==
    LET wide == Candidates(request)
    IN  FeedOf(FeedRows(table, request.f, request.sort, request.tracking,
                        IF wide THEN Max({8 * request.limit, 200}) ELSE request.limit,
                        IF wide THEN 0 ELSE request.offset),
               table, situations, request, now)

\* The feed without a database: what the jobs of this process found, unlinked,
\* paged before it is ranked.
MemoryOrder(request, e) ==
    IF request.sort = "priority" THEN <<e.risk, e.signals, e.influence, e.ts, e.id>> ELSE ByIngest(e)
Filter(events, f) ==
    {e \in events : /\ f.source \in {None, e.source} /\ f.type \in {None, e.type} /\ f.label \in {None, e.label}
                    /\ Within(e.ts, f) /\ TextMatch(e, f)}
MemoryFeed(events, request, now) ==
    LET found == {ApplyGeocoding(e) : e \in {x \in Filter(events, request.f) : Feedworthy(x, request.tracking)}}
        page == Page(found, LAMBDA e : MemoryOrder(request, e), request.limit, request.offset)
        items == {FeedItem(e, None, now) : e \in
                    {x \in page : request.sort = "priority" => PriorityEligible(x, None, now)}}
    IN  [events |-> items, groups |-> IF request.cases THEN BuildFeedGroups(items) ELSE {}]

-----------------------------------------------------------------------------
(* Lists and the map.                                                      *)

\* The features of the map are the events with coordinates, stored or found.
GeoJson(events) == {[id |-> e.id, at |-> ResolveEventCoords(e), inferred |-> e.at = None]
                      : e \in {x \in events : ResolveEventCoords(x) # None}}
EventsMap(table, f, limit) == GeoJson(MapRows(table, f, limit))

\* The names that later reads match an event by.
NamesOf(e) == {e.actors[i].name : i \in DOMAIN e.actors}

\* The events of the hours before a time.
Snapshot(table, at, hours, limit) ==
    ListEvents(table, [NoFilter EXCEPT !.from = at - hours, !.to = at], "latest", limit, 0)
=============================================================================
