----------------------------- MODULE MCServing ------------------------------
(* For the five subjects: jobs of which one shares ids with another and one  *)
(* source fails; two events that reach the table out of order; a reader of  *)
(* reports on one strike and of what is said about it.                        *)
EXTENDS Serving

E == [id |-> 0, source |-> "rss", type |-> "news", words |-> {"strike"}, url |-> TRUE, ts |-> 10, ingest |-> 10,
      label |-> None, mood |-> None, at |-> None, place |-> None, country |-> None, xcountry |-> None,
      sourcecountry |-> None, origin |-> None, region |-> None, domain |-> None, actors |-> <<>>, tags |-> {},
      trigger |-> "", echo |-> "", risk |-> 0, signals |-> 0, supporting |-> 0, influence |-> 0, readable |-> TRUE]
A(name, type) == [name |-> name, type |-> type]
Map(k, v) == [x \in {k} |-> v]

MCFolded == [x \in {"Kyiv", "Kiev"} |-> IF x = "Kyiv" THEN "kyiv" ELSE "kyiv"]
MCStarts == {<<"odesa", "od">>}
MCUnprefixed == Map("the hague", "hague")
MCCoords == <<<<"kyiv", [lat |-> 50, lon |-> 30]>>, <<"odesa", [lat |-> 46, lon |-> 31]>>, <<"ukraine", [lat |-> 48, lon |-> 31]>>>>
MCCountries == Map("UA", "ukraine")
MCAliases == Map("Ukrayina", "UA")
MCLastPart == Map("Kyiv, UA", "UA")
MCActorKey == Map("Zelensky", "Zelenskyy")
MCProper == Map("unknown", None)
MCFamily == [x \in {"rss", "reddit", "youtube", "usgs", "opensky"} |->
               IF x \in {"reddit", "youtube"} THEN x ELSE IF x = "rss" THEN "news" ELSE x]
MCSourceKey == [x \in {"rss", "usgs", "earthquakes"} |-> IF x = "rss" THEN "rss" ELSE "usgs"]
MCArticles == Map(1, {"siege"})
MCRecognised == [x \in {1, 2} |-> IF x = 1 THEN <<A("Zelensky", "PERSON"), A("Kyiv", "LOC")>> ELSE <<A("Odesa", "LOC")>>]
MCFelt == Map(1, [label |-> "NEGATIVE", mood |-> 200])
MCLikeness == [p \in {<<"Zelenskyy", "Zelensky">>, <<"Zelensky", "Zelenskyy">>} |-> 94]
MCEngagement == Map(4, [score |-> 600, comments |-> 2, likes |-> 0, views |-> 0, upvoted |-> 0])
MCFamilyOrder == <<"gdelt", "rss", "news", "social", "transport", "geospatial">>

\* Two events of one feed, the second without a place of its own; a quake; the
\* first event again from another source.
First == [E EXCEPT !.id = 1, !.actors = <<A("Zelenskyy", "PERSON")>>]
Second == [E EXCEPT !.id = 2, !.ts = 11, !.sourcecountry = "UA", !.actors = <<A("Zelenskyy", "PERSON")>>]
Quake == [E EXCEPT !.id = 3, !.source = "usgs", !.type = "disaster", !.ts = 9, !.at = [lat |-> 46, lon |-> 31]]
MCAnswers == [t \in {"rss", "usgs"} |->
    IF t = "rss" THEN {[ok |-> TRUE, events |-> <<First, Second>>]}
    ELSE {[ok |-> TRUE, events |-> <<Quake, [First EXCEPT !.source = "usgs"]>>], [ok |-> FALSE, events |-> <<>>]}]
MCRequests == {[sources |-> {"rss"}, enrich |-> TRUE, db |-> TRUE],
               [sources |-> {"rss", "earthquakes"}, enrich |-> FALSE, db |-> TRUE],
               [sources |-> {"usgs"}, enrich |-> FALSE, db |-> FALSE],
               [sources |-> {"nobody"}, enrich |-> FALSE, db |-> TRUE]}

MCArrivals == {[E EXCEPT !.id = n, !.ts = 0, !.ingest = 0, !.risk = 100 * n, !.xcountry = "UA",
                         !.source = IF n = 1 THEN "rss" ELSE "usgs", !.mood = IF n = 1 THEN 300 ELSE None] : n \in 1..2}
MCScopes == {[source |-> "rss", hours |-> 24]}

Strike == [E EXCEPT !.id = 1, !.actors = <<A("Zelensky", "PERSON")>>, !.place = "Kyiv", !.mood = 300, !.label = "NEGATIVE",
                    !.tags = {"war"}, !.xcountry = "UA"]
Reaction == [Strike EXCEPT !.id = 2, !.source = "usgs", !.ts = 12, !.risk = 300, !.mood = 700, !.label = "POSITIVE"]
Flight == [E EXCEPT !.id = 3, !.source = "opensky", !.type = "tracking", !.ts = 12, !.words = {"strike", "jet"},
                    !.at = [lat |-> 50, lon |-> 30], !.tags = {"war"}]
Post == [Strike EXCEPT !.id = 4, !.source = "reddit", !.type = "social", !.ts = 14, !.mood = 900]
Case1 == [sid |-> 1, events |-> {1, 2}, risk |-> 100, severity |-> "high", count |-> 2, sources |-> 2, active |-> TRUE, at |-> 12]
Alarm == [aid |-> 1, entity |-> "Zelensky", place |-> "Kyiv", type |-> "entity_spike", severity |-> "critical", z |-> 170,
          at |-> 23, resolved |-> FALSE, acknowledged |-> FALSE]
Story == [nid |-> 1, topic |-> "strike", words |-> {"strike"}, actors |-> <<"Zelensky">>, at |-> 15, strength |-> 9,
          severity |-> "high", active |-> TRUE]
Jet == [aid |-> 1, type |-> "aircraft", at |-> [lat |-> 50, lon |-> 30], seen |-> 11, speed |-> 30, grounded |-> FALSE]
Sign == [sid |-> "s1", event |-> 2, source |-> "usgs", ts |-> 12, cluster |-> "c1"]
I(kind, value) == [kind |-> kind, value |-> value]
MCEvidence == {I("event", Strike), I("event", Reaction), I("event", Flight), I("event", Post),
               I("event", [Strike EXCEPT !.ts = 16]),
               I("score", [id |-> 1, risk |-> 700, signals |-> 3]),
               I("situation", Case1), I("situation", [Case1 EXCEPT !.sid = 2, !.events = {1}, !.risk = 110, !.count = 1]),
               I("alert", Alarm), I("alert", [Alarm EXCEPT !.aid = 2, !.severity = "low", !.z = -40, !.at = 20]),
               I("narrative", Story), I("asset", Jet), I("signal", Sign)}
MCQuestions == {[queries |-> {"strike"}, seeds |-> {"Zelensky"}, sources |-> {}, hours |-> 12,
                 geo |-> [south |-> 40, north |-> 60, west |-> 20, east |-> 40]]}
MCVideos == {[E EXCEPT !.id = 5, !.source = "youtube", !.type = "video", !.ts = 15]}
MCFetched == {[Post EXCEPT !.id = n, !.mood = 500 + n] : n \in {4, 6, 7, 8, 9}}
MCLinks == {{"Zelensky", "Kyiv"}}
=============================================================================
