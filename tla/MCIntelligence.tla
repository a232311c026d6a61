--------------------------- MODULE MCIntelligence ---------------------------
(* Seven events in an hour and a half, against three histories.              *)
EXTENDS Intelligence, TLC

NoMood == -1
NoPlace == "Unspecified"

\* Dated and stored when, by what source, naming whom, where, in what mood.
Event(at, stored, source, actors, region, mood) ==
    [at |-> at, stored |-> stored, source |-> source, actors |-> actors, tags |-> {},
     bigrams |-> {"port_strike"}, cell |-> region, region |-> region, mood |-> mood]

Types == ("rss" :> "news") @@ ("gdelt" :> "other") @@ ("reddit" :> "social")
Past0 == [actor |-> <<>>, pair |-> <<>>, cell |-> <<>>, source |-> <<>>, mood |-> <<>>]
Story(events, history) == [event |-> events, past |-> history, typeOf |-> Types]

\* 1: two clusters in one hour, new actors, and then nothing; 2: known actors and places, a source
\* that falls silent and a mood that drops; 3: news and social media disagree
\* about a pair that is often named together, and an event arrives late.
MCWorlds == <<
    Story(<<Event(0, 1, "rss", {"Iran"}, "Aden", NoMood), Event(0, 1, "rss", {"Iran"}, "Aden", NoMood),
            Event(0, 1, "gdelt", {"Iran"}, "Aden", NoMood), Event(0, 2, "gdelt", {"Oman"}, "Suez", NoMood),
            Event(0, 2, "reddit", {"Oman"}, "Suez", NoMood), Event(0, 2, "rss", {"Oman"}, "Suez", NoMood),
            Event(0, 2, "rss", {"Oman", "Iran"}, "Suez", NoMood)>>,
          [Past0 EXCEPT !.cell = "Aden" :> 40]),
    Story(<<Event(1, 1, "rss", {"Iran"}, "Aden", 20), Event(1, 1, "rss", {"Iran"}, "Aden", 20),
            Event(1, 1, "rss", {"Iran"}, "Aden", 10), Event(2, 2, "rss", {"Iran"}, "Aden", 20),
            Event(2, 2, "gdelt", {"Iran"}, "Suez", 60), Event(3, 3, "gdelt", {"Iran"}, "Aden", 90)>>,
          [Past0 EXCEPT !.actor = "Iran" :> 30, !.source = ("reddit" :> 400) @@ ("gdelt" :> 1700),
                        !.mood = "Aden" :> <<10, 500>>]),
    Story(<<Event(1, 1, "rss", {"Oman", "Iran"}, "Aden", 80), Event(1, 1, "rss", {"Oman", "Iran"}, "Suez", 70),
            Event(1, 3, "rss", {"Oman", "Iran"}, "Aden", 80), Event(2, 2, "reddit", {"Oman"}, "Suez", 20),
            Event(2, 2, "reddit", {"Oman"}, "Aden", 20), Event(3, 3, "reddit", {"Oman", "Iran"}, NoPlace, 30)>>,
          [Past0 EXCEPT !.actor = ("Iran" :> 200) @@ ("Oman" :> 1700), !.pair = {"Oman", "Iran"} :> 30])>>
=============================================================================
