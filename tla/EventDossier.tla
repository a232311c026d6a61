---------------------------- MODULE EventDossier ----------------------------
(***************************************************************************)
(* What the API puts beside one event: the war-room view                   *)
(* (intelligence/event_intelligence.py), the live social reactions and the *)
(* analyst's notes (api/routers/events.py).                                *)
(*                                                                         *)
(* A narrative is [nid, topic, words, actors, at, strength, severity], an  *)
(* asset [aid, type, at, seen, speed, grounded], a signal [sid, event,     *)
(* source, ts, cluster].  Match scores are hundredths, moods, relevance    *)
(* and confidence thousandths, coordinates whole degrees.                  *)
(*                                                                         *)
(* Each query takes so many rows; of the news, narratives and assets it    *)
(* makes of them a view has as many as are computed with.  That an answer  *)
(* lists at most 50 posts, movements and signals, 20 clusters and 150      *)
(* points of its timeline is left out.                                     *)
(***************************************************************************)
EXTENDS Feed

CONSTANT Engagement   \* [id of a post -> [score, comments, likes, views, upvoted]]

ASSUME EngagementAssumption ==
    \A id \in DOMAIN Engagement :
        LET g == Engagement[id] IN {g.score, g.comments, g.likes, g.views} \subseteq Int

PhysicalSources == {"opensky", "ais"}
CandidateLimit == 800
NarrativeLimit == 200
SignalLimit == 400
NewsShown == 50
NarrativesShown == 25
IsSocial(e) == e.type \in {"social", "video"}
IsPhysical(e) == e.source \in PhysicalSources

DistanceScore(place, at, otherPlace, otherAt) ==
    LET square == (at.lat - otherAt.lat) * (at.lat - otherAt.lat) + (at.lon - otherAt.lon) * (at.lon - otherAt.lon)
    IN  CASE place # None /\ place = otherPlace -> 200
          [] at = None \/ otherAt = None -> 0
          [] OTHER -> IF square <= 1 THEN 150 ELSE IF square <= 9 THEN 75 ELSE 0

\* The words of an event, its actors, tags and place.
BaseTerms(e) == e.words \cup NamesOf(e) \cup e.tags \cup ({e.place} \ {None})
MatchScore(base, e) ==
    LET actors == Cardinality(NamesOf(base) \cap NamesOf(e))
    IN  (IF actors > 0 THEN 250 + 40 * actors ELSE 0)
            + (IF base.tags \cap e.tags # {} THEN 150 ELSE 0)
            + Min({200, 50 * Cardinality(BaseTerms(base) \cap e.words)})
            + DistanceScore(base.place, base.at, e.place, e.at)
\* The candidates are the first events of the window.
Related(base, table, until) ==
    LET window == {x \in table : x.id # base.id /\ x.ts # None /\ x.ts >= base.ts /\ x.ts <= until}
    IN  {e \in {RowToEvent(r) : r \in Page(window, LAMBDA x : <<-x.ts, -x.id>>, CandidateLimit, 0)} :
            MatchScore(base, e) >= 150}

AmplificationScore(e) ==
    IF e.id \notin DOMAIN Engagement THEN 0
    ELSE LET g == Engagement[e.id] IN 100 * g.score + 150 * g.comments + 50 * g.likes + g.views
\* Posts that were voted down do not count.
InfluencerAmplification(posts) == SumOf([e \in posts |-> Max({0, AmplificationScore(e)})])

\* A mean mood, or one half of nothing.
MeanMood(events) ==
    LET felt == {e \in events : e.mood # None}
    IN  IF felt = {} THEN One \div 2 ELSE SumOf([e \in felt |-> e.mood]) \div Cardinality(felt)
Divergence(news, posts, amplification) ==
    LET apart == MeanMood(news) - MeanMood(posts)
        felt == {e \in news \cup posts : e.mood # None}
    IN  IF felt = {} THEN 0
        ELSE Min({One, (IF apart < 0 THEN -apart ELSE apart) + Min({350, amplification \div 40})})

\* By the cluster their signals were given; if none was, by the commonest words.
NarrativeClusters(signals, news, posts) ==
    LET clusters == {s.cluster : s \in signals} \ {None}
        all == news \cup posts
        words == UNION {e.words : e \in all}
        Count(w) == Cardinality({e \in all : w \in e.words})
        \* Counter.most_common keeps the first five; which of equals is left open.
        common == {w \in words : Cardinality({v \in words : Count(v) > Count(w)}) < 5}
    IN  IF clusters # {}
          THEN {[key |-> c, signals |-> Cardinality({s \in signals : s.cluster = c}),
                 sources |-> {s.source : s \in {x \in signals : x.cluster = c}}] : c \in clusters}
          ELSE {[key |-> w, signals |-> Count(w), sources |-> {e.source : e \in {x \in all : w \in x.words}}]
                  : w \in common}

\* Of the first narratives of the window those that share an actor or a word.
RelatedNarratives(base, narratives, until) ==
    LET Order(n) == <<-n.at, -n.nid>>
        told == Page({n \in narratives : n.at >= base.ts /\ n.at <= until}, Order, NarrativeLimit, 0)
        Shares(n) == Range(n.actors) \cap NamesOf(base) # {} \/ n.words \cap BaseTerms(base) # {}
    IN  Page({n \in told : Shares(n)}, Order, NarrativesShown, 0)

\* Six hours before the event count for assets.  Near an event without a place
\* name is anywhere.
RelatedAssets(base, assets, until) ==
    LET Order(a) == <<a.seen, a.aid>>
        seen == Page({a \in assets : a.seen # None /\ a.seen >= base.ts - 6 /\ a.seen <= until}, Order, 200, 0)
    IN  Page({a \in seen : base.place # None => DistanceScore(base.place, base.at, None, a.at) > 0}, Order, 25, 0)

\* Signals without a time are not found, and an analyst's notes have none.
RelatedSignals(ids, signals, from, until) ==
    Page({s \in signals : s.event \in ids /\ s.ts # None /\ s.ts >= from /\ s.ts <= until},
         LAMBDA s : <<-s.ts>>, SignalLimit, 0)

\* No time in it can be read back: every delta_minutes is empty.
Timeline(news, posts, physical, narratives) ==
    [kind : {"news"}, item : news] \cup [kind : {"social"}, item : posts]
        \cup [kind : {"physical"}, item : physical] \cup [kind : {"narrative"}, item : narratives]

\* What is put beside an event, given the events related to it.
EventView(base, related, narratives, assets, signals, until) ==
    LET news == Page({e \in related : ~IsSocial(e) /\ ~IsPhysical(e)},
                     LAMBDA e : <<MatchScore(base, e), e.ts, e.id>>, NewsShown, 0)
        posts == {e \in related : IsSocial(e)}
        physical == {e \in related : IsPhysical(e)}
        found == RelatedSignals({base.id} \cup {e.id : e \in related}, signals, base.ts, until)
        amplified == InfluencerAmplification(posts)
        told == RelatedNarratives(base, narratives, until)
    IN  [news |-> news, posts |-> posts, physical |-> physical, signals |-> found, narratives |-> told,
         assets |-> RelatedAssets(base, assets, until),
         timeline |-> Timeline(news, posts, physical, told),
         clusters |-> NarrativeClusters(found, news, posts),
         amplification |-> amplified, divergence |-> Divergence(news, posts, amplified)]
ViewSince(base, table, narratives, assets, signals, until) ==
    EventView(base, Related(base, table, until), narratives, assets, signals, until)
\* An event without a time is looked at from now on.
BuildEventView(id, table, narratives, assets, signals, horizon, now) ==
    LET row == RowToEvent(CHOOSE r \in table : r.id = id)
        from == FirstOf(<<row.ts, now>>)
    IN  ViewSince([row EXCEPT !.ts = from], table, narratives, assets, signals, from + horizon)

-----------------------------------------------------------------------------
(* Posts fetched for an event while its reader waits.                      *)

SocialKeywords(e) == e.words \cup NamesOf(e) \cup e.tags
Relevance(keywords, post) ==
    (One * Cardinality(keywords \cap post.words)) \div Max({Cardinality(keywords), 1})

Messaging(posts) ==
    LET pairs == {{x[1], x[2]} : x \in {y \in posts \X posts : y[1] # y[2] /\ y[1].words # {} /\ y[2].words # {}}}
        alike == {pq \in pairs : \E p, q \in pq : /\ p # q
                     /\ 100 * Cardinality(p.words \cap q.words) > 45 * Cardinality(p.words \cup q.words)}
        titled == {p \in posts : p.words # {}}
    IN  IF Cardinality(titled) >= 3 /\ 4 * Cardinality(alike) > Cardinality(pairs)
          THEN {[type |-> "propaganda",
                 confidence |-> Min({One, (2500 * Cardinality(alike)) \div Cardinality(pairs)})]} ELSE {}
\* The variance of the moods, in millionths.
Variance(felt) ==
    LET n == Cardinality(felt)
        sum == SumOf([p \in felt |-> p.mood])
    IN  (n * SumOf([p \in felt |-> p.mood * p.mood]) - sum * sum) \div (n * (n - 1))
Herd(posts) ==
    LET felt == {p \in posts : p.mood # None}
    IN  IF Cardinality(felt) >= 4 /\ Cardinality(posts) >= 5 /\ Variance(felt) < 60000
          THEN {[type |-> "herd_mentality", confidence |-> Max({0, One - (12 * Variance(felt)) \div One})]}
          ELSE {}
Influence(posts) ==
    LET loud == {p \in posts : p.id \in DOMAIN Engagement /\
                    (Engagement[p.id].score > 500 \/ Engagement[p.id].upvoted > 920)}
    IN  IF loud # {} THEN {[type |-> "influence",
                            confidence |-> Min({One, (3 * One * Cardinality(loud)) \div Cardinality(posts)})]}
        ELSE {}
Verdict(signals) ==
    IF signals = {} THEN [label |-> "organic", confidence |-> 750]
    ELSE LET top == CHOOSE s \in signals : \A t \in signals : t.confidence <= s.confidence
         IN  [label |-> top.type, confidence |-> top.confidence]
ClassifySocialNarrative(posts) ==
    IF posts = {} THEN [label |-> "insufficient_data", confidence |-> 0]
    ELSE Verdict(Messaging(posts) \cup Herd(posts) \cup Influence(posts))

\* Nothing is looked for without keywords.
EventSocial(e, fetched, narratives, limit) ==
    LET keywords == SocialKeywords(e)
        heard == IF keywords = {} THEN {} ELSE fetched
        posts == Page(heard, LAMBDA p : <<Relevance(keywords, p), p.id>>, limit, 0)
    IN  [posts |-> posts, narrative |-> ClassifySocialNarrative(posts),
         stored |-> Page({n \in narratives : keywords \cap (n.words \cup Range(n.actors)) # {}},
                         LAMBDA n : <<n.at, n.nid>>, 5, 0)]

GetEvent(id, table) ==
    LET found == {r \in table : r.id = id}
    IN  IF found = {} THEN None ELSE ApplyGeocoding(RowToEvent(CHOOSE r \in found : TRUE))

\* An analyst's note is a signal named after its text alone: the same text for
\* a second event is refused by the database.
EnrichEvent(signals, id, text) ==
    IF \E s \in signals : s.sid = text THEN signals
    ELSE signals \cup {[sid |-> text, event |-> id, source |-> "field_analyst", ts |-> None, cluster |-> None]}
=============================================================================
