--------------------------- MODULE KnowledgeGraph ---------------------------
(***************************************************************************)
(* The graph of events, actors, places and themes in Neo4j                 *)
(* (storage/graph.py) and those who write it.                              *)
(*                                                                         *)
(* A job writes its signals, in two transactions, and then its events, in  *)
(* five; the API and the missions write events alone; detectors write      *)
(* narratives and situations, in one transaction each; a click in the user *)
(* interface creates an actor.  A call that fails is logged, its other     *)
(* transactions are skipped and its caller goes on.  Writers run in two    *)
(* processes and several threads, and no node or edge is ever removed.     *)
(*                                                                         *)
(* A pass over communities reads the graph of joint mentions, labels its   *)
(* components 0, 1, ... and writes the labels to the actors, while others  *)
(* extend the graph.  Each process may run a pipeline, and so a pass.      *)
(*                                                                         *)
(* Places and themes are treated alike, and called topics.  The counts of  *)
(* their edges and the times and titles of nodes are left out; an actor of *)
(* an event is one canonical name, for normalize_events removes the others.*)
(***************************************************************************)
EXTENDS Naturals, FiniteSets, Functions, Sequences

CONSTANTS
    Nothing,       \* null in Cypher
    Events, Actors, Topics,
    Names(_),      \* the actors an event names
    About(_),      \* its places and themes
    Batches,       \* sets of events that are collected and written together
    Writers,       \* callers that write the graph beside each other
    Pipelines,     \* processes that run an intelligence pipeline
    MaxWrites,     \* bound: writes begun
    MaxPasses      \* bound: passes over communities begun

ASSUME FiniteAssumption == IsFiniteSet(Events) /\ IsFiniteSet(Actors) /\ IsFiniteSet(Writers)
ASSUME NothingAssumption == Nothing \notin Nat
ASSUME BoundsAssumption == {MaxWrites, MaxPasses} \subseteq Nat
ASSUME BatchesAssumption == Batches \subseteq (SUBSET Events) \ {{}}
ASSUME EventsAssumption == \A e \in Events : Names(e) \subseteq Actors /\ About(e) \subseteq Topics

VARIABLES
    eventNodes,    \* events, topics and signals that have a node
    topicNodes,
    signalNodes,   \* there is one signal to an event and it bears its name
    derived,       \* signals that lead to their event
    mentions,      \* mentions[a]: mention_count of the actors that have a node
    edge,          \* edge[e][a]: count of the edge MENTIONS, 0 without one
    about,         \* edges of events to topics
    together,      \* together[{a, b}]: count of CO_MENTIONED_WITH
    community,     \* community[a]: the label of an actor, or Nothing
    write,         \* write[w]: what w has still to do
    cached,        \* the summary of communities in the cache
    pass,          \* pass[p]: the labels that p has computed
    writes, passes,
    log            \* for the properties: who implicated whom, what failed or ended

vars == <<eventNodes, topicNodes, signalNodes, derived, mentions, edge, about, together,
          community, cached, write, pass, writes, passes, log>>
drawn == <<eventNodes, topicNodes, signalNodes, derived, mentions, edge, about, together>>

-----------------------------------------------------------------------------
Pairs == {{p[1], p[2]} : p \in {q \in Actors \X Actors : q[1] # q[2]}}
Linked == {p \in Pairs : together[p] > 0}

\* MERGE of the actors in as: those without a node get one, with the given count.
Merged(as, count) ==
    [a \in DOMAIN mentions \cup as |-> IF a \in DOMAIN mentions THEN mentions[a] ELSE count]

\* Mutant of WriteEvents: relationships are matched before the nodes of topics.
WriteEventsMatchFirst == <<"events", "actors", "relations", "topics">>

WriteSignals == <<"signals", "links">>
WriteEvents == <<"events", "actors", "topics", "relations">>

\* The kinds of transactions.
Kinds == {"signals", "links", "events", "actors", "topics", "relations", "report", "click"}

Call(calls, es, as) == [todo |-> calls, of |-> es, actors |-> as]
Rest == Call(<<>>, {}, {})
NoPass == [stage |-> "idle", labels |-> <<>>, fresh |-> TRUE]

Labels == 0..(Cardinality(Actors) - 1)

TypeOK ==
    /\ eventNodes \subseteq Events /\ topicNodes \subseteq Topics
    /\ signalNodes \subseteq Events /\ derived \subseteq signalNodes \cap eventNodes
    /\ DOMAIN mentions \subseteq Actors
    /\ \A a \in DOMAIN mentions : mentions[a] \in Nat \cup {Nothing}
    /\ edge \in [Events -> [Actors -> Nat]]
    /\ about \subseteq eventNodes \X topicNodes
    /\ together \in [Pairs -> Nat]
    /\ community \in [Actors -> Labels \cup {Nothing}]
    /\ cached \in [count : Nat, shown : SUBSET Labels, calm : BOOLEAN]
    /\ write \in [Writers -> [todo : Seq(Seq(Kinds)), of : SUBSET Events, actors : SUBSET Actors]]
    /\ pass \in [Pipelines -> [stage : {"idle", "label", "snapshot"}, fresh : BOOLEAN,
                               labels : UNION {[as -> Labels] : as \in SUBSET Actors}]]
    /\ log \in [implicated : SUBSET Actors, failed : BOOLEAN, whole : SUBSET Events, calm : BOOLEAN]
    /\ writes \in 0..MaxWrites /\ passes \in 0..MaxPasses

Init ==
    /\ eventNodes = {} /\ topicNodes = {} /\ signalNodes = {} /\ derived = {}
    /\ mentions = <<>>
    /\ edge = [e \in Events |-> [a \in Actors |-> 0]]
    /\ about = {}
    /\ together = [p \in Pairs |-> 0]
    /\ community = [a \in Actors |-> Nothing]
    /\ cached = [count |-> 0, shown |-> {}, calm |-> TRUE]
    /\ write = [w \in Writers |-> Rest]
    /\ pass = [p \in Pipelines |-> NoPass]
    /\ writes = 0 /\ passes = 0
    /\ log = [implicated |-> {}, failed |-> FALSE, whole |-> {}, calm |-> TRUE]

-----------------------------------------------------------------------------
\* Writers.

Idle(w) == write[w].todo = <<>>

Begin(w, call) ==
    /\ Idle(w)
    /\ writes < MaxWrites
    /\ writes' = writes + 1
    /\ write' = [write EXCEPT ![w] = call]
    /\ UNCHANGED <<drawn, community, cached, pass, passes, log>>

\* A scheduled job writes signals first; ingestion on demand and missions do not.
Ingest(w) ==
    \E es \in Batches, calls \in {<<WriteSignals, WriteEvents>>, <<WriteEvents>>} :
        Begin(w, Call(calls, es, {}))

\* write_narrative_nodes, write_situation_nodes and ensure_actor.
Report(w) ==
    \E a \in Actors, kind \in {"report", "click"} : Begin(w, Call(<<<<kind>>>>, {}, {a}))

\* The transaction at the head of the call at the head of w's work.
Next1(w) == Head(Head(write[w].todo))
Turn(w, kind) == ~Idle(w) /\ Next1(w) = kind

After(w) ==
    LET call == Tail(Head(write[w].todo))
        more == Tail(write[w].todo)
        todo == IF call = <<>> THEN more ELSE <<call>> \o more
    IN  IF todo = <<>> THEN Rest ELSE [write[w] EXCEPT !.todo = todo]

Advance(w) == write' = [write EXCEPT ![w] = After(w)]

Named(w) == UNION {Names(e) : e \in write[w].of}
Count(w, a) == Cardinality({e \in write[w].of : a \in Names(e)})

WriteEventNodes(w) ==
    /\ Turn(w, "events")
    /\ eventNodes' = eventNodes \cup write[w].of
    /\ UNCHANGED <<topicNodes, signalNodes, derived, mentions, edge, about, together, log>>

\* One row for each mention: the first creates the node with 1, every other adds 1.
WriteActorNodes(w) ==
    /\ Turn(w, "actors")
    /\ mentions' = [a \in DOMAIN mentions \cup Named(w) |->
          IF a \notin DOMAIN mentions THEN Count(w, a)
          ELSE IF mentions[a] = Nothing THEN Nothing  \* null + 1
          ELSE mentions[a] + Count(w, a)]
    /\ UNCHANGED <<eventNodes, topicNodes, signalNodes, derived, edge, about, together, log>>

WriteTopicNodes(w) ==
    /\ Turn(w, "topics")
    /\ topicNodes' = topicNodes \cup UNION {About(e) : e \in write[w].of}
    /\ UNCHANGED <<eventNodes, signalNodes, derived, mentions, edge, about, together, log>>

\* MATCH finds the ends, or nothing is written.
WriteRelationships(w) ==
    LET es == write[w].of
        Ends(e) == Names(e) \cap DOMAIN mentions
    IN  /\ Turn(w, "relations")
        /\ edge' = [e \in Events |-> [a \in Actors |->
              edge[e][a] + IF e \in es \cap eventNodes /\ a \in Ends(e) THEN 1 ELSE 0]]
        /\ about' = about \cup {t \in (es \cap eventNodes) \X topicNodes : t[2] \in About(t[1])}
        /\ together' = [p \in Pairs |-> together[p] + Cardinality({e \in es : p \subseteq Ends(e)})]
        /\ log' = [log EXCEPT !.whole = @ \cup es]
        /\ UNCHANGED <<eventNodes, topicNodes, signalNodes, derived, mentions>>

WriteSignalNodes(w) ==
    /\ Turn(w, "signals")
    /\ signalNodes' = signalNodes \cup write[w].of
    /\ UNCHANGED <<eventNodes, topicNodes, derived, mentions, edge, about, together, log>>

\* Signals create the actors and topics they name, and lead to events that exist.
WriteSignalRelationships(w) ==
    LET es == write[w].of \cap signalNodes
    IN  /\ Turn(w, "links")
        /\ derived' = derived \cup (es \cap eventNodes)
        /\ mentions' = Merged(UNION {Names(e) : e \in es}, 1)
        /\ topicNodes' = topicNodes \cup UNION {About(e) : e \in es}
        /\ UNCHANGED <<eventNodes, signalNodes, edge, about, together, log>>

\* The nodes that narratives and situations create have no count; those that a
\* click creates have the count 0.
ReportCount == Nothing

WriteReport(w) ==
    /\ Turn(w, "report")
    /\ mentions' = Merged(write[w].actors, ReportCount)
    /\ log' = [log EXCEPT !.implicated = @ \cup write[w].actors]
    /\ UNCHANGED <<eventNodes, topicNodes, signalNodes, derived, edge, about, together>>

EnsureActor(w) ==
    /\ Turn(w, "click")
    /\ mentions' = Merged(write[w].actors, 0)
    /\ UNCHANGED <<eventNodes, topicNodes, signalNodes, derived, edge, about, together, log>>

Transact(w) ==
    /\ \/ WriteEventNodes(w) \/ WriteActorNodes(w) \/ WriteTopicNodes(w) \/ WriteRelationships(w)
       \/ WriteSignalNodes(w) \/ WriteSignalRelationships(w) \/ WriteReport(w) \/ EnsureActor(w)
    /\ Advance(w)
    /\ UNCHANGED <<community, cached, pass, writes, passes>>

\* Mutant of Skipped: the other transactions of the call go ahead.
SkippedOne(w) == After(w)

\* The call is over, the one behind it is not.
Skipped(w) ==
    LET todo == Tail(write[w].todo)
    IN  IF todo = <<>> THEN Rest ELSE [write[w] EXCEPT !.todo = todo]

Fail(w) ==
    /\ ~Idle(w)
    /\ write' = [write EXCEPT ![w] = Skipped(w)]
    /\ log' = [log EXCEPT !.failed = TRUE]
    /\ UNCHANGED <<drawn, community, cached, pass, writes, passes>>

-----------------------------------------------------------------------------
\* Passes over communities.

\* The actors that a path of joint mentions joins to a: whatever holds a, and
\* with one end of an edge the other, holds them.
Component(a) ==
    {b \in Actors : \A as \in SUBSET Actors :
        a \in as /\ (\A p \in Linked : p \cap as # {} => p \subseteq as) => b \in as}

\* Every edge is strong enough: one joint mention has the strength 0.1.
Joined == UNION Linked
Components == {Component(a) : a \in Joined}

\* Components are numbered in the order in which the query finds their actors.
Labellings ==
    {f \in [Joined -> 0..(Cardinality(Components) - 1)] :
        \A a, b \in Joined : f[a] = f[b] <=> Component(a) = Component(b)}

\* detect_communities.  Nothing is written if nobody is joined to anybody.
Detect(p) ==
    /\ pass[p].stage = "idle"
    /\ passes < MaxPasses
    /\ Joined # {}
    /\ passes' = passes + 1
    /\ \E f \in Labellings : pass' = [pass EXCEPT ![p] = [stage |-> "label", labels |-> f, fresh |-> TRUE]]
    /\ UNCHANGED <<drawn, community, cached, write, writes, log>>

\* Mutant of Labelled: actors that have a label keep it.
LabelledOnce(f, a) == IF a \in DOMAIN f /\ community[a] = Nothing THEN f[a] ELSE community[a]

Labelled(f, a) == IF a \in DOMAIN f THEN f[a] ELSE community[a]

\* write_community_memberships: one statement.
Label(p) ==
    /\ pass[p].stage = "label"
    /\ community' = [a \in Actors |-> Labelled(pass[p].labels, a)]
    /\ log' = [log EXCEPT !.calm = pass[p].fresh]
    /\ pass' = [q \in Pipelines |->
          IF q = p THEN [pass[p] EXCEPT !.stage = "snapshot"] ELSE [pass[q] EXCEPT !.fresh = FALSE]]
    /\ UNCHANGED <<drawn, cached, write, writes, passes>>

\* get_temporal_graph, of the last 48 hours, which no behaviour exceeds, and the
\* cache: how many communities were labelled, and the labels of the actors shown.
Snapshot(p) ==
    /\ pass[p].stage = "snapshot"
    /\ cached' = [count |-> Cardinality(Range(pass[p].labels)),
                  shown |-> {community[a] : a \in Joined} \ {Nothing},
                  calm |-> pass[p].fresh /\ log.calm]
    /\ pass' = [pass EXCEPT ![p] = NoPass]
    /\ UNCHANGED <<drawn, community, write, writes, passes, log>>

\* A statement fails, and with it the pass.
PassFails(p) ==
    /\ pass[p].stage # "idle"
    /\ pass' = [pass EXCEPT ![p] = NoPass]
    /\ UNCHANGED <<drawn, community, cached, write, writes, passes, log>>

Next ==
    \/ \E w \in Writers : Ingest(w) \/ Report(w) \/ Transact(w) \/ Fail(w)
    \/ \E p \in Pipelines : Detect(p) \/ Label(p) \/ Snapshot(p) \/ PassFails(p)

Spec == Init /\ [][Next]_vars

-----------------------------------------------------------------------------
\* Properties.

\* How often events mention a: the sum of the counts of its edges.
Mentions(a) == UNION {{e} \X (1..edge[e][a]) : e \in Events}
Mentioned(a) == Cardinality(Mentions(a))

\* The actors that actor_list shows to a client who asks for n mentions.
ActorList(n) == {a \in DOMAIN mentions : mentions[a] # Nothing /\ mentions[a] >= n}

\* Whichever transactions fail and however writers interleave, an actor that events
\* mention n times is listed among those with n mentions, unless a narrative or a
\* situation implicated it before it had a node.  While nothing fails, its count is
\* the number of mentions, or one more if a signal named it first.
MentionsCounted ==
    /\ \A a \in Actors : Mentioned(a) > 0 =>
          \/ a \in ActorList(Mentioned(a))
          \/ a \in log.implicated /\ mentions[a] = Nothing
    /\ ~log.failed /\ (\A w \in Writers : Idle(w)) =>
          \A a \in Actors : a \notin ActorList(Mentioned(a) + 2)

\* The five transactions of write_events come in an order in which each finds the
\* nodes it needs: an event whose last transaction was committed has an edge to
\* everything it names, and its actors are joined.
EdgesComplete ==
    \A e \in log.whole :
        /\ \A a \in Names(e) : edge[e][a] > 0
        /\ \A t \in About(e) : <<e, t>> \in about
        /\ \A p \in Pairs : p \subseteq Names(e) => p \in Linked

\* Every pass numbers from 0, over a graph that has grown, and writes what it
\* computed from an older one.  Unless the last pass overtook another, actors with
\* the same label are joined by a path all the same, and the cache counts at least
\* the communities whose labels it shows.
CommunitiesAgree ==
    /\ log.calm => \A a, b \in Actors :
          community[a] # Nothing /\ community[a] = community[b] => b \in Component(a)
    /\ cached.calm => Cardinality(cached.shown) <= cached.count
=============================================================================
