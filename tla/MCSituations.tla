---------------------------- MODULE MCSituations ----------------------------
(* Five events in five worlds.  The thresholds are scaled to five events;   *)
(* those that only concern clusters of dozens are out of reach.             *)
EXTENDS Situations, TLC

MCSymmetry == Permutations(Requests)

\* Of what source, naming whom, about what, how risky, where.
Event(source, actors, family, risk, place) ==
    [source |-> source, actors |-> actors, terms |-> {"strike", source}, family |-> family,
     thread |-> family, place |-> place, risk |-> risk, defense |-> FALSE,
     outdated |-> FALSE, aboutTracking |-> FALSE]

World(embedder, e1, e2, e3, e4, e5) ==
    [event |-> <<e1, e2, e3, e4, e5>>, embedder |-> embedder]

Thread(e, name) == [e EXCEPT !.thread = name]

\* 1: a story of two forces, 2: an ordinary actor everybody names, 3: incidents
\* along a line, of several topics, 4: with things the detector does not want,
\* 5: two stories of one topic that only their embeddings tell apart.
MCWorlds == {
    World(FALSE, Event("rss", {1, 2}, "conflict", 60, NoPlace),
        Event("gdelt", {1}, "conflict", 60, NoPlace), Event("un", {2}, "conflict", 50, NoPlace),
        Event("rss", {1}, "conflict", 40, NoPlace), Event("gdelt", {2}, "conflict", 40, NoPlace)),
    World(FALSE, Event("rss", {3}, "politics", 40, NoPlace),
        Event("gdelt", {3}, "politics", 40, NoPlace), Event("un", {3}, "politics", 40, NoPlace),
        Event("rss", {3, 4}, "politics", 40, 7), Event("gdelt", {4}, "politics", 40, 8)),
    World(TRUE, Event("rss", {}, "conflict", 40, 1), Event("gdelt", {}, "conflict", 40, 2),
        Event("un", {}, "market", 40, 3), Event("rss", {3}, "market", 40, 4),
        Event("gdelt", {}, "general", 2, 5)),
    World(TRUE, Thread(Event("rss", {4}, "rights", 40, 1), "other"),
        Event("ais", {4}, "rights", 40, 1),
        [Event("un", {4}, "rights", 40, 1) EXCEPT !.outdated = TRUE],
        Event("un", {4}, "rights", 5, 2), Event("gdelt", {4}, "general", 40, 2)),
    World(TRUE, Thread(Event("rss", {3}, "conflict", 40, 1), "raid"),
        Thread(Event("un", {4}, "conflict", 30, 1), "truce"),
        Thread(Event("gdelt", {3}, "conflict", 40, 1), "raid"),
        Thread(Event("un", {4}, "conflict", 30, 2), "other"),
        Thread(Event("rss", {4}, "conflict", 30, 2), "truce"))}
=============================================================================
