----------------------------- MODULE Situations -----------------------------
(***************************************************************************)
(* The life of situations: the table (storage/situation_repo.py), the two  *)
(* programs that detect and store them, and the nodes of the graph.        *)
(*                                                                         *)
(* The pipeline worker (_run_situation_detection) looks at the events of   *)
(* its window after every batch and upserts what it detects.  POST         *)
(* /situations/detect (detect_situations_endpoint) looks at the window its *)
(* client names, upserts, and marks stale every active row it did not      *)
(* detect.  Requests run beside each other and beside the pipeline.        *)
(*                                                                         *)
(* A pass reads events and detects (Read), then opens a transaction in     *)
(* which it selects the rows of its situations and, on request, the active *)
(* rows (Examine), and commits (Commit).  SQLAlchemy writes a column only  *)
(* if its value differs from the one selected: an active row that is       *)
(* upserted as active keeps whatever status another transaction gives it.  *)
(* The rest of a row follows from its members, its key; the tables differ  *)
(* in status alone, so they are the two sets active and stale.             *)
(***************************************************************************)
EXTENDS SituationDetector

CONSTANTS
    Requests,        \* clients of POST /situations/detect
    PipelineWindow,  \* events of six hours, at most the limit of 300
    MaxPasses        \* bound: passes begun in a behaviour

ASSUME RequestsAssumption == "pipeline" \notin Requests
ASSUME PassesAssumption == MaxPasses \in Nat

VARIABLES
    arrived,   \* events 1..arrived are stored
    active,    \* the situations whose row is active
    stale,     \* the situations whose row is stale
    graph,     \* situations that have a node
    pass,      \* pass[p]: what p is doing
    begun,     \* passes begun so far
    last       \* for the properties: the last commit

vars == <<world, arrived, active, stale, graph, pass, begun, last>>
outside == <<world, arrived>>

Passes == Requests \cup {"pipeline"}

Rows == active \cup stale
Situation == SUBSET Events
Changes == [insert : SUBSET Situation, revive : SUBSET Situation, drop : SUBSET Situation]
NoChange == [insert |-> {}, revive |-> {}, drop |-> {}]
Idle == [stage |-> "idle", found |-> {}, change |-> NoChange, calm |-> TRUE]

TypeOK ==
    /\ world \in Worlds
    /\ arrived \in 0..Cardinality(Events)
    /\ {active, stale, graph} \subseteq SUBSET Situation
    /\ active \cap stale = {}
    /\ pass \in [Passes -> [stage : {"idle", "detected", "writing", "stored"},
                            found : SUBSET Situation, change : Changes, calm : BOOLEAN]]
    /\ begun \in 0..MaxPasses
    /\ last \in [by : Passes \cup {"nobody"}, found : SUBSET Situation, calm : BOOLEAN]

Init ==
    /\ world \in Worlds
    /\ arrived = 0
    /\ active = {}
    /\ stale = {}
    /\ graph = {}
    /\ pass = [p \in Passes |-> Idle]
    /\ begun = 0
    /\ last = [by |-> "nobody", found |-> {}, calm |-> FALSE]

-----------------------------------------------------------------------------
\* The windows a pass may select when a events are stored.  Events come in at a
\* steady pace, so the six hours of the pipeline hold a constant number of them;
\* a request names its hours.  That it leaves out position reports makes no
\* difference, for the detector does not want them.
Window(p, a) ==
    IF p = "pipeline" THEN {{e \in 1..a : e > a - PipelineWindow}} ELSE {w..a : w \in 1..a}

\* Some events may have been stored since the last pass: nothing but this step
\* looks at them, so they arrive in it.  The pipeline returns when nothing is
\* detected; a request goes on.
Read(p) ==
    /\ pass[p].stage = "idle"
    /\ begun < MaxPasses
    /\ begun' = begun + 1
    /\ arrived' \in (arrived..Cardinality(Events)) \ {0}
    /\ \E w \in Window(p, arrived') :
          LET found == Detect(w)
          IN  /\ p = "pipeline" => found # {}
              /\ pass' = [pass EXCEPT ![p] =
                    [stage |-> "detected", found |-> found, change |-> NoChange, calm |-> TRUE]]
    /\ UNCHANGED <<world, active, stale, graph, last>>

\* What upsert_situation is about to do to the row of every situation found.
Upserts(found) == [insert |-> found \ Rows, revive |-> found \cap stale, drop |-> {}]

\* Mutant of Synced: rows that became stale once stay so.
SyncedForGood(found) == [Upserts(found) EXCEPT !.drop = active \ found, !.revive = {}]

\* The same with sync_active_situations behind it.
Synced(found) == [Upserts(found) EXCEPT !.drop = active \ found]

Examine(p) ==
    /\ pass[p].stage = "detected"
    /\ pass' = [pass EXCEPT ![p].stage = "writing", ![p].calm = TRUE, ![p].change =
          IF p = "pipeline" THEN Upserts(pass[p].found) ELSE Synced(pass[p].found)]
    /\ UNCHANGED <<outside, active, stale, graph, begun, last>>

\* A row that somebody else inserted in the meantime violates the unique
\* situation_id: nothing of the pass is stored, and it ends.
Commit(p) ==
    LET change == pass[p].change
    IN  /\ pass[p].stage = "writing"
        /\ change.insert \cap Rows = {}
        /\ active' = (active \cup change.insert \cup change.revive) \ change.drop
        /\ stale' = (stale \cup change.drop) \ change.revive
        /\ last' = [by |-> p, found |-> pass[p].found, calm |-> pass[p].calm]
        /\ pass' = [q \in Passes |->
              IF q = p THEN [pass[p] EXCEPT !.stage = "stored", !.change = NoChange]
              ELSE [pass[q] EXCEPT !.calm = FALSE]]
        /\ UNCHANGED <<outside, graph, begun>>

Collide(p) ==
    /\ pass[p].stage = "writing"
    /\ pass[p].change.insert \cap Rows # {}
    /\ pass' = [pass EXCEPT ![p] = Idle]
    /\ UNCHANGED <<outside, active, stale, graph, begun, last>>

\* Mutant of Drawn: the nodes are written before the rows.
DrawnEarly == {"detected", "writing", "stored"}

Drawn == {"stored"}

\* write_situation_nodes, then the announcement.
Draw(p) ==
    /\ pass[p].stage \in Drawn
    /\ graph' = graph \cup pass[p].found
    /\ pass' = [pass EXCEPT ![p] = Idle]
    /\ UNCHANGED <<outside, active, stale, begun, last>>

\* A statement fails, the detection takes more than 80 s, the graph is away or
\* the process dies: the pass ends where it is, an open transaction undone.
GiveUp(p) ==
    /\ pass[p].stage # "idle"
    /\ pass' = [pass EXCEPT ![p] = Idle]
    /\ UNCHANGED <<outside, active, stale, graph, begun, last>>

Done ==
    /\ begun = MaxPasses
    /\ \A p \in Passes : pass[p].stage = "idle"
    /\ UNCHANGED vars

Pass(p) == Read(p) \/ Examine(p) \/ Commit(p) \/ Collide(p) \/ Draw(p) \/ GiveUp(p)

Next == (\E p \in Passes : Pass(p)) \/ Done

Spec == Init /\ [][Next]_vars

-----------------------------------------------------------------------------
\* The active situations an event is shown with; get_situation_membership_map
\* picks the one of highest risk.
CasesOf(e) == {s \in active : e \in s}

\* Whatever the splits do to a cluster, no event ends up in two situations of
\* one pass, and every situation has a second event and a second source
\* (detect_situations).
PassDisjoint ==
    \A p \in Passes : \A s \in pass[p].found :
        /\ \A t \in pass[p].found : s = t \/ s \cap t = {}
        /\ Cardinality(SourcesOf(s)) >= 2

\* A pass in whose transaction no other committed leaves what it detected
\* active; and if it was a request, nothing else (sync_active_situations), so
\* that no event is shown with two cases.
CalmPassHolds ==
    last.calm =>
        /\ last.found \subseteq active
        /\ last.by # "pipeline" =>
              active = last.found /\ \A e \in Events : Cardinality(CasesOf(e)) <= 1

\* Every situation of the graph has a row: the nodes are written after the
\* transaction, and rows are never deleted.
GraphBacked == graph \subseteq Rows
=============================================================================
