----------------------------- MODULE Workspace ------------------------------
(***************************************************************************)
(* A workspace asks for what concerns its questions and places             *)
(* (api/routers/workspace.py).  A request is [queries, seeds, sources,     *)
(* hours, geo]: queries and seeds are sets of words, geo is None or        *)
(* [south, north, west, east].                                             *)
(***************************************************************************)
EXTENDS EventDossier, SequencesExt

CONSTANT FamilyOrder   \* the families of the balance, and the other ones sorted by name

WorkspaceSocial == {"reddit", "youtube", "telegram", "twitter"}
Standard == {"gdelt", "rss", "newsapi", "reddit", "youtube", "usgs", "opensky", "ais", "yahoo_finance"}
Week == 168
Few == 8          \* fewer events than this widen the window
FewActors == 5
FewAssets == 25

InBbox(at, geo) ==
    \/ geo = None \/ at = None
    \/ at.lat \in geo.south..geo.north /\ at.lon \in geo.west..geo.east
ExpandedGeo(geo) ==
    [south |-> Max({-85, geo.south - 24}), north |-> Min({85, geo.north + 24}),
     west |-> Max({-180, geo.west - 24}), east |-> Min({180, geo.east + 24})]

\* Any of the terms of the queries and seeds is wanted.
WorkspaceTerms(request) == request.queries \cup request.seeds

WorkspaceFamily(source) ==
    CASE FromSource([source |-> source], "gdelt") -> "gdelt"
      [] FromSource([source |-> source], "rss") -> "rss"
      [] source \in {"newsapi", "news"} -> "news"
      [] source \in {"reddit", "youtube", "telegram", "twitter", "bluesky"} -> "social"
      [] source \in {"ais", "opensky"} -> "transport"
      [] source \in {"usgs", "firms", "weather"} -> "geospatial"
      [] source \in {"yahoo_finance", "stocks", "treasury"} -> "market"
      [] OTHER -> source
SourcePrefixes(profile) ==
    CASE profile = "news" -> {"newsapi"}
      [] profile = "socials" -> {"reddit", "youtube", "telegram", "twitter", "bluesky"}
      [] profile = "stocks" -> {"yahoo_finance"}
      [] OTHER -> {profile}
\* Shown with the developments; it selects nothing, although the code says that
\* families are filtered afterwards.
DevelopmentSourcePrefixes(request) ==
    LET asked == UNION {SourcePrefixes(s) : s \in request.sources}
    IN  asked \cup IF {WorkspaceFamily(s) : s \in asked} \subseteq {"social"} THEN Standard
                   ELSE {"gdelt", "rss", "newsapi"}

-----------------------------------------------------------------------------
(* Developments.                                                           *)

\* Mutant of Turn: the riskiest first, whatever their families.
TurnByRisk(e, events) == <<e.risk, e.ts, e.id>>

\* Families take turns: an event's turn is its rank in its own family, then the
\* place of the family.
Turn(e, events) ==
    LET family == WorkspaceFamily(e.source)
        own == {x \in events : WorkspaceFamily(x.source) = family}
    IN  <<-Rank(e, own, LAMBDA x : <<x.risk, x.ts, x.id>>),
          -(CHOOSE i \in DOMAIN FamilyOrder : FamilyOrder[i] = family)>>
BalancedEvents(events, limit) == Page(events, LAMBDA e : Turn(e, events), limit, 0)

Riskiest(table, request, hours, now) ==
    ListEvents(table, [NoFilter EXCEPT !.words = WorkspaceTerms(request), !.from = now - hours], "risk", 300, 0)
ResolveEvents(table, request, now) ==
    LET hours == Max({1, request.hours})
        near(events) == {e \in events : InBbox(e.at, request.geo)}
        asked == near(Riskiest(table, request, hours, now))
        found == IF Cardinality(asked) < Few /\ hours < Week
                   THEN asked \cup {e \in near(Riskiest(table, request, Week, now)) : \A a \in asked : a.id # e.id}
                   ELSE asked
    IN  BalancedEvents(found, 100)
CountBy(events, Key(_)) == [k \in {Key(e) : e \in events} |-> Cardinality({e \in events : Key(e) = k})]

\* The fast or airborne among them, ten at most, stand out.
AssetsShown(shown, request, regional) ==
    [assets |-> shown, counts |-> CountBy(shown, LAMBDA a : a.type), regional |-> regional,
     anomalies |-> Page({a \in shown : a.speed > 25 \/ ~a.grounded}, LAMBDA a : <<a.seen, a.aid>>, 10, 0),
     within |-> {a \in shown : InBbox(a.at, request.geo)}]
\* Assets with a position in the box, and around it if they are few.
ResolveAssets(assets, request) ==
    LET inside(geo) == Page({a \in assets : a.at # None /\ InBbox(a.at, geo)}, LAMBDA a : <<a.seen, a.aid>>, 500, 0)
        aoi == inside(request.geo)
        around == IF Cardinality(aoi) < FewAssets THEN aoi \cup inside(ExpandedGeo(request.geo)) ELSE aoi
        shown == IF request.geo = None THEN Page(assets, LAMBDA a : <<a.seen, a.aid>>, 200, 0) ELSE around
    IN  AssetsShown(shown, request, request.geo # None /\ shown # aoi)

-----------------------------------------------------------------------------
(* Sentiment.  videos is what a live search finds, or {} if it fails.       *)

EnabledSocial(request) == {s \in WorkspaceSocial : request.sources = {} \/ s \in request.sources}
OfSource(request, source, hours, now) ==
    [NoFilter EXCEPT !.source = source, !.words = WorkspaceTerms(request),
                     !.from = IF hours = None THEN None ELSE now - hours]
TimelineOf(table, request, source, hours, now) ==
    SentimentTimeline(table, OfSource(request, source, hours, now), Day)

FetchSocialItems(table, request, source, hours, now) ==
    LET f == OfSource(request, source, hours, now)
        strict == ListEvents(table, f, "latest", 24, 0)
        soft == {e \in ListEvents(table, [f EXCEPT !.words = {}], "latest", 72, 0) : TextMatch(e, f)}
    IN  IF strict # {} THEN strict ELSE Page(soft, ByTime, 24, 0)
\* Any reddit at all rather than none.
Topical(recent, terms) ==
    LET topical == {e \in recent : terms \cap e.words # {}}
    IN  Page(IF topical = {} THEN recent ELSE topical, ByTime, 16, 0)
WarmReddit(table, request) ==
    Topical(ListEvents(table, [NoFilter EXCEPT !.source = "reddit"], "latest", 160, 0), WorkspaceTerms(request))
\* Videos are stored as they come, provisionally neutral, without the pipeline.
WarmYoutube(videos) ==
    {[v EXCEPT !.label = FirstOf(<<@, "NEUTRAL">>), !.mood = FirstOf(<<@, One \div 2>>)] : v \in videos}

\* The sources shown over a week: those without a point in the window asked for
\* and with one in the week, or all of them if none has one in the window.
Widened(asked, week, hours) ==
    LET bare == {s \in DOMAIN asked : DOMAIN asked[s] = {}}
        wider == {s \in bare : DOMAIN week[s] # {}}
    IN  CASE hours >= Week \/ wider = {} -> {}
          [] hours < Week /\ wider # {} -> IF bare = DOMAIN asked THEN bare ELSE wider
LookedUp(table, request, asked, week, hours, now) ==
    LET wide == Widened(asked, week, hours)
    IN  [s \in DOMAIN asked |->
            [line |-> IF s \in wide THEN week[s] ELSE asked[s],
             items |-> FetchSocialItems(table, request, s, IF s \in wide THEN Week ELSE hours, now)]]
\* A live search follows for those who have nothing to show.
Warmed(table, request, found, reddit, youtube, hours, now) ==
    LET cold == {s \in {"reddit", "youtube"} \cap DOMAIN found : found[s].items = {}}
        warm(s) == IF s = "reddit" THEN reddit ELSE youtube
        stored == IF "youtube" \in cold THEN UpsertMany(table, youtube) ELSE table
        line(s) == IF s \in cold /\ warm(s) # {} THEN TimelineOf(stored, request, s, Max({hours, Week}), now)
                   ELSE found[s].line
        shown(s) == CASE s \in cold -> warm(s)
                      [] s \in DOMAIN found \ cold -> found[s].items
                      [] OTHER -> {}
    IN  [table |-> stored, lines |-> [s \in DOMAIN found |-> line(s)],
         items |-> Page(shown("reddit") \cup shown("youtube"), ByTime, 40, 0)]
ResolveSentiment(table, request, videos, now) ==
    LET hours == Max({1, request.hours})
        lines(h) == [s \in EnabledSocial(request) |-> TimelineOf(table, request, s, h, now)]
    IN  Warmed(table, request, LookedUp(table, request, lines(hours), lines(Week), hours, now),
               WarmReddit(table, request), WarmYoutube(videos), hours, now)

\* One line out of all, without the point that has no day; a mean of nought
\* counts as one half.
Combined(lines) ==
    LET at(d) == {s \in DOMAIN lines : d \in DOMAIN lines[s]}
        sum(d, part) == SumOf([s \in at(d) |-> lines[s][d][part]])
        mean(p) == IF p.average = 0 THEN One \div 2 ELSE p.average
    IN  [d \in (UNION {DOMAIN lines[s] : s \in DOMAIN lines}) \ {None} |->
            [count |-> sum(d, "count"), positive |-> sum(d, "positive"),
             neutral |-> sum(d, "neutral"), negative |-> sum(d, "negative"),
             average |-> SumOf([s \in at(d) |-> mean(lines[s][d]) * lines[s][d].count]) \div Max({sum(d, "count"), 1})]]

-----------------------------------------------------------------------------
(* Entities and links.                                                     *)

\* The names an event counts for: once for every actor, seed and tag.
Mentioned(e, request) == NamesOf(e) \cup (request.seeds \cap e.words) \cup e.tags
\* A week's pass adds to the counts of the pass before: what both find counts
\* twice.
NamesFound(request, hours, asked, week) ==
    LET Names(events) == UNION {Mentioned(e, request) : e \in events}
        again == IF Cardinality(Names(asked)) < FewActors /\ hours < Week THEN week ELSE {}
        By(n, events) == {e \in events : n \in Mentioned(e, request)}
    IN  [n \in Names(asked \cup again) \cup request.seeds |->
            [count |-> Cardinality(By(n, asked)) + Cardinality(By(n, again)),
             events |-> Cardinality({e.id : e \in By(n, asked \cup again)})]]
ResolveEntities(table, request, now) ==
    LET hours == Max({1, request.hours})
    IN  NamesFound(request, hours, Riskiest(table, request, hours, now), Riskiest(table, request, Week, now))

\* Links of the graph, and actors that occur together more than once or with a
\* seed.  (Up to thirty links and twenty tags.)
ResolveCorrelation(table, request, links, now) ==
    LET events == ListEvents(table, [NoFilter EXCEPT !.words = request.queries, !.from = now - request.hours],
                             "latest", 200, 0)
        Actors(e) == NamesOf(e) \cup (request.seeds \cap e.words)
        pairs == UNION {kSubset(2, Actors(e)) : e \in events}
        Count(p) == Cardinality({e \in events : p \subseteq Actors(e)})
        found == {p \in pairs : (Count(p) >= 2 \/ p \cap request.seeds # {}) /\ p \notin links}
    IN  [links |-> links \cup found,
         tags |-> [t \in UNION {e.tags : e \in events} |-> Cardinality({e \in events : t \in e.tags})]]
=============================================================================
