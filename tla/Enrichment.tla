----------------------------- MODULE Enrichment -----------------------------
(***************************************************************************)
(* From the sources to a batch of events: the orchestrator's two pools     *)
(* (core/orchestrator.py), the scraping of short articles                  *)
(* (core/enricher.py) and the NLP pipeline (nlp/pipeline.py).  A batch is  *)
(* a sequence of events; what the models answer is given by constants.     *)
(***************************************************************************)
EXTENDS EventStore, SequencesExt

CONSTANTS
    SourceKey,     \* source_registry: [name or alias -> key]
    Articles,      \* [id of an event with a short body -> words of its page, if it can be read]
    NlpCap,        \* max_nlp: how many events of a batch the models see
    Recognised,    \* NER: [id -> sequence of [name, type] it finds in the event]
    Felt,          \* sentiment model: [id -> [label, mood]]
    Likeness       \* token_sort_ratio where it reaches the threshold: [<<name, name>> -> score]

ASSUME ModelsAssumption == \A id \in DOMAIN Recognised : AreActors(Recognised[id])

Unscraped == {"opensky", "yahoo_finance"}
QueryTasks == <<"news", "gdelt", "socials", "rss", "hackernews", "telegram", "who">>
LiveTasks == <<"usgs", "stocks", "crypto", "opensky", "ais", "firms", "nws">>

\* An empty list of sources, like none, stands for all of them.
Unknown(keys) == {k \in keys : k \notin DOMAIN SourceKey}
NormalizeMany(keys) == {SourceKey[k] : k \in keys \ Unknown(keys)}
Allowed(keys) == IF NormalizeMany(keys) = {} THEN Range(QueryTasks \o LiveTasks) ELSE NormalizeMany(keys)
Pool(tasks, allowed) == Range(tasks) \cap allowed

-----------------------------------------------------------------------------
(* Orchestrator.run.  answers: [task -> [ok, events]]; done: the tasks in   *)
(* the order in which they complete, the query tasks before the live ones.  *)

Reports(answers, done) ==
    UNION {{i} \X DOMAIN answers[done[i]].events : i \in {j \in DOMAIN done : answers[done[j]].ok}}
ReportedBefore(x, y) == x[1] < y[1] \/ (x[1] = y[1] /\ x[2] < y[2])
\* The first report of an id is kept; newest first, and the sort is stable.
OrchestratorRun(answers, done) ==
    LET reports == Reports(answers, done)
        Event(x) == answers[done[x[1]]].events[x[2]]
        kept == {x \in reports : \A y \in reports : ReportedBefore(y, x) => Event(y).id # Event(x).id}
        Ahead(x) == {y \in kept : \/ Later(Event(y).ts, Event(x).ts)
                                  \/ Event(y).ts = Event(x).ts /\ ReportedBefore(y, x)}
    IN  [events |-> [n \in 1..Cardinality(kept) |->
                        Event(CHOOSE x \in kept : Cardinality(Ahead(x)) = n - 1)],
         counts |-> [t \in {x \in Range(done) : answers[x].ok} |-> Len(answers[t].events)],
         errors |-> {t \in Range(done) : ~answers[t].ok}]

\* ArticleEnricher.enrich: the page replaces the body.
Enrich(events) ==
    [i \in DOMAIN events |->
        LET e == events[i]
        IN  IF e.source \notin Unscraped /\ e.url /\ e.id \in DOMAIN Articles
              THEN [e EXCEPT !.words = @ \cup Articles[e.id]] ELSE e]

-----------------------------------------------------------------------------
(* NLPPipeline.process.                                                    *)

DedupActors(e) == [e EXCEPT !.actors = NormalizeActorPayloads(@)]

\* New actors follow those the event has.
MergeActors(e, found) ==
    LET shown == Displayed(found)
        fresh(i) == /\ shown[i].name \notin {e.actors[j].name : j \in DOMAIN e.actors}
                    /\ \A j \in 1..(i - 1) : shown[j].name # shown[i].name
    IN  [e EXCEPT !.actors = @ \o Chosen(shown, {i \in DOMAIN shown : fresh(i)})]

\* The first place found names an event's location unless it has a name, or a
\* latitude other than 0.
MaybeGeotag(e, found) ==
    LET places == Named({"LOC"}, found)
    IN  IF places # <<>> /\ e.place = None /\ (e.at = None \/ e.at.lat = 0)
          THEN [e EXCEPT !.place = places[1].name] ELSE e
NerTransformer(e) ==
    LET found == IF e.id \in DOMAIN Recognised THEN Recognised[e.id] ELSE <<>>
    IN  MaybeGeotag(MergeActors(e, found), found)

\* Only of events that no extractor scored.
RunSentiment(e) ==
    IF e.mood = None /\ e.label = None /\ e.id \in DOMAIN Felt
      THEN [e EXCEPT !.label = Felt[e.id].label, !.mood = Felt[e.id].mood] ELSE e

\* EntityResolver.resolve: a name it knows, else the most alike of those it knew
\* before this batch or that stood for themselves in it, else itself.  The
\* registry, a sequence of [name, canonical, own], lives as long as the process
\* and every batch adds to it.  (Case, which the code folds, is left out.)
Registered(registry, name) == {i \in DOMAIN registry : registry[i].name = name}
MostAlike(registry, name) ==
    LET alike == {i \in DOMAIN registry : registry[i].own /\ <<name, registry[i].name>> \in DOMAIN Likeness}
        Score(i) == Likeness[<<name, registry[i].name>>]
    IN  {i \in alike : \A j \in alike : Score(i) > Score(j) \/ (Score(i) = Score(j) /\ i <= j)}
Registering(registry, name) ==
    IF Registered(registry, name) # {} THEN registry
    ELSE LET like == MostAlike(registry, name)
         IN  Append(registry, IF like = {} THEN [name |-> name, canonical |-> name, own |-> TRUE]
                              ELSE [name |-> name, own |-> FALSE,
                                    canonical |-> registry[CHOOSE i \in like : TRUE].canonical])
Canonical(registry, name) == registry[CHOOSE i \in Registered(registry, name) : TRUE].canonical

NamesIn(events) ==
    FlattenSeq([i \in DOMAIN events |-> [j \in DOMAIN events[i].actors |-> events[i].actors[j].name]])
Resolve(registry, events) ==
    FoldLeft(Registering, [i \in DOMAIN registry |-> [registry[i] EXCEPT !.own = TRUE]], NamesIn(events))
RunEntityResolution(registry, e) ==
    LET name(a) == LET c == Canonical(registry, a) IN FirstOf(<<Applied(Proper, c), c>>)
        actors == [j \in DOMAIN e.actors |-> [e.actors[j] EXCEPT !.name = name(@)]]
    IN  DedupActors([e EXCEPT !.actors = actors])

\* The last two steps, for every event of the batch.
Located(e) == ApplyGeocoding(ApplyCountry(e))

\* The models see the head of the batch; what follows is for all of it.
Seen(events) ==
    [i \in DOMAIN events |-> LET e == DedupActors(events[i])
                             IN  IF i <= NlpCap THEN RunSentiment(NerTransformer(e)) ELSE e]
Renamed(registry, events) ==
    [registry |-> registry,
     events |-> [i \in DOMAIN events |-> Located(RunEntityResolution(registry, events[i]))]]
Process(registry, events) ==
    LET seen == Seen(events) IN Renamed(Resolve(registry, seen), seen)
=============================================================================
