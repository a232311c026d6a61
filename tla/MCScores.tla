------------------------------ MODULE MCScores ------------------------------
(* A few rows for each of the three jobs, chosen to be near the thresholds.  *)
EXTENDS Scores, TLC

Report == [kind |-> "event", id |-> 0, n |-> 1, recent |-> TRUE, at |-> 0, place |-> "Aden",
           source |-> "rss", type |-> "news", actors |-> {}, title |-> "news", words |-> {}, tags |-> {},
           mood |-> Unknown, high |-> 0, medium |-> 0, disaster |-> 0, infosec |-> 0, protest |-> 0,
           located |-> FALSE, signals |-> 0, trigger |-> "", influence |-> 0, confidence |-> 0, cited |-> 0]
Story == [kind |-> "narrative", at |-> 1, topic |-> "strike", severity |-> "high", strength |-> 9000,
          confidence |-> 9000, events |-> 10, sources |-> 5, actors |-> {"Houthi"},
          spread |-> ("Aden" :> 6000), protest |-> 8]
Warning == [kind |-> "alert", at |-> 1, id |-> 0, severity |-> "critical", entity |-> "Houthi", place |-> "Aden",
            sources |-> 4, events |-> 6, z |-> 5]
Person == [kind |-> "actor", name |-> "Houthi", influence |-> 6000]

Attack == [Report EXCEPT !.id = 1, !.n = 6, !.at = 150, !.high = 4, !.mood = 10, !.protest = 2,
           !.actors = {"Houthi"}, !.words = {"strike"}, !.title = "strike in Aden", !.tags = {"anomaly", "strikes"},
           !.signals = 8, !.confidence = 9000]

RiskRows == {Attack,
    [Report EXCEPT !.id = 2, !.n = 2, !.mood = 0, !.medium = 2, !.source = "rss_reuters", !.at = 160,
        !.trigger = "auto_social", !.signals = 3, !.title = "strike in Aden", !.tags = {"alert"}],
    [Report EXCEPT !.id = 3, !.mood = 90, !.place = "Suez", !.source = "reddit", !.at = 170, !.type = "market",
        !.disaster = 1, !.infosec = 1, !.title = "strike in Aden", !.actors = {"Houthi", "Iran"}],
    [Report EXCEPT !.id = 4, !.n = 4, !.mood = 60, !.recent = FALSE, !.actors = {"Houthi"}],
    Story, [Story EXCEPT !.at = 2, !.topic = "Iran", !.severity = "low", !.strength = 2000, !.confidence = 3000,
                         !.events = 0, !.sources = 1, !.spread = <<>>, !.protest = 0],
    Warning, [Warning EXCEPT !.at = 2, !.id = 1, !.severity = "medium", !.entity = "none", !.sources = 1, !.events = 1, !.z = 2],
    Person}

Traffic == [Report EXCEPT !.n = 56, !.recent = FALSE, !.source = "opensky", !.place = "Ukraine"]
EscalationRows == {Traffic,
    [Traffic EXCEPT !.at = 100, !.n = 9, !.recent = TRUE, !.type = "market", !.mood = 95],
    [Report EXCEPT !.id = 6, !.n = 30, !.at = 120, !.source = "aisstream", !.located = TRUE, !.place = "Iran", !.tags = {"propaganda"}],
    Story}

InfluenceRows == {
    [Report EXCEPT !.id = 8, !.n = 4, !.actors = {"Houthi", "Iran"}, !.at = 130],
    [Report EXCEPT !.id = 9, !.n = 5, !.actors = {"Iran", "Oman"}, !.source = "reddit", !.at = 140],
    [Report EXCEPT !.id = 10, !.actors = {"Houthi", "Oman"}, !.source = "gdelt", !.title = "talks", !.at = 170],
    [Report EXCEPT !.id = 11, !.n = 3, !.actors = {"Houthi"}, !.source = "rss_reuters", !.title = "talks", !.at = 300],
    [Report EXCEPT !.id = 12, !.n = 30, !.actors = {"Iran"}, !.recent = FALSE]}

MCLimit == [watch_events |-> 3, watch_narratives |-> 1, watch_alerts |-> 2, watch_actors |-> 1,
            situations |-> 3, queue |-> 2, queue_narratives |-> 2, queue_alerts |-> 1,
            region |-> 2, corroborated |-> 3, influence |-> 2, pairs |-> 1]
MCJobs == {"risk", "escalation", "influence"}
MCCatalogue == ("risk" :> RiskRows) @@ ("escalation" :> EscalationRows) @@ ("influence" :> InfluenceRows)
MCCentrality == ("Iran" :> 10000) @@ ("Oman" :> 4000)
MCContains == {<<"Ukraine", "UK">>, <<"strike in Aden", "strike">>, <<"strike in Aden", "Aden">>,
               <<"rss_reuters", "rss">>, <<"aisstream", "ais">>, <<"strikes", "strike">>}
MCCountries == <<<<"Iran", "MENA">>, <<"UK", "EUROPE">>, <<"Ukraine", "EASTERN_EUROPE">>>>
MCRegions == <<"MENA", "EUROPE", "EASTERN_EUROPE">>
MCTiers == <<<<"opensky", 1>>, <<"ais", 1>>, <<"rss_reuters", 1>>, <<"gdelt", 2>>, <<"rss", 3>>, <<"reddit", 3>>>>
MCSourceType == [s \in {"rss", "rss_reuters"} |-> "rss"]
    @@ ("reddit" :> "social") @@ ("gdelt" :> "news") @@ ("opensky" :> "ais_flight") @@ ("aisstream" :> "ais_flight")
=============================================================================
