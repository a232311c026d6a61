-------------------------- MODULE EscalationScorer --------------------------
(***************************************************************************)
(* The escalation score of a world region                                  *)
(* (intelligence/escalation_scorer.py): six signals that compare the six   *)
(* hours of now with the week before.  The z-scores expect of six hours    *)
(* one 28th of a week.                                                     *)
(***************************************************************************)
EXTENDS Scoring, Sequences

CONSTANTS
    CountryToRegion,  \* <<country, region>>, in the order of the table
    AllRegions        \* the regions, in the order they are scored

ASSUME RegionsAssumption == AllRegions \in Seq(STRING)

None == "none"

\* The first country of the table whose name occurs in the place's: "UK"
\* occurs in "Ukraine", and is tried before it.
LocationToRegion(place) ==
    First([i \in DOMAIN CountryToRegion |->
             <<Occurs(CountryToRegion[i][1], place), CountryToRegion[i][2]>>], None)

RegionalEvents(region, es) == {e \in es : LocationToRegion(e.place) = region}

\* Too few for a baseline of one in six hours: presence counts by itself.
Spike(current, week, enough) ==
    IF week < 28 THEN Part(current, enough) ELSE Surprise(current, week, 28)

Vessels(es) == Copies({e \in es : Occurs("ais", e.source) /\ e.located})
AisAnomaly(recent, week) == Spike(Vessels(recent), Vessels(week), 10)

HateTags == {"hate_speech", "propaganda", "disinformation", "incitement"}
Hateful(es) == Copies({e \in es : e.tags \cap HateTags # {}})
HateSpeechSpike(recent, week) == Spike(Hateful(recent), Hateful(week), 5)

FlightKeys == {"opensky", "flight", "aviation", "aircraft"}
Flights(es) == Copies({e \in es : \E k \in FlightKeys : Occurs(k, e.source)})
SortieRate(recent, week) == Spike(Flights(recent), Flights(week), 10)

\* A mood of zero is read as none, 0.5.
MarketVolatility(recent) ==
    LET market == {e \in recent : e.type = "market" /\ e.mood # Unknown}
    IN  IF market = {} THEN 0
        ELSE Share(Copies({e \in market : e.mood \in (1..19) \cup (81..100)}), Copies(market))

\* Of the whole world, whichever the region.
NarrativeIntensity(narratives) ==
    Part(Cardinality({n \in narratives : n.severity \in {"high", "critical"}}), 10)

From(source, es) == Copies({e \in es : e.source = source})
SourceSilence(recent, week) ==
    LET sources == {e.source : e \in week}
        quiet == {s \in sources : From(s, week) >= 28 /\ 28 * 5 * From(s, recent) < From(s, week)}
        silence(s) == One - Share(28 * From(s, recent), From(s, week))
    IN  IF sources = {} THEN 0
        ELSE Capped(MapThenSumSet(silence, quiet) \div Cardinality(sources))

Weight == [ais_anomaly |-> 20, hate_speech_spike |-> 25, sortie_rate |-> 20,
           market_volatility |-> 15, narrative_intensity |-> 15, source_silence |-> 5]

Signals(recent, week, intensity) ==
    [ais_anomaly |-> AisAnomaly(recent, week), hate_speech_spike |-> HateSpeechSpike(recent, week),
     sortie_rate |-> SortieRate(recent, week), market_volatility |-> MarketVolatility(recent),
     narrative_intensity |-> intensity, source_silence |-> SourceSilence(recent, week)]

Composite(signal) == Clip(MapThenSumSet(LAMBDA s : Weight[s] * signal[s], DOMAIN signal) \div 100)

\* What contributes more than 0.05; the list is cut to the four largest.
Drivers(signal) == {s \in DOMAIN signal : Weight[s] * signal[s] > 500 * 100}

RiskLevel(score) ==
    First(<<<<score >= 7500, "CRITICAL">>, <<score >= 5500, "HIGH">>, <<score >= 3500, "ELEVATED">>>>, "LOW")

Zero == [score |-> 0, level |-> "LOW", drivers |-> {}, confidence |-> 0]

ScoreRegion(region, recent, week, intensity) ==
    LET es == RegionalEvents(region, recent)
        signal == Signals(es, RegionalEvents(region, week), intensity)
    IN  [score |-> Composite(signal), level |-> RiskLevel(Composite(signal)),
         drivers |-> Drivers(signal), confidence |-> Part(Copies(es), 50)]
=============================================================================
