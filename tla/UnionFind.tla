----------------------------- MODULE UnionFind -----------------------------
(***************************************************************************)
(* The disjoint-set forest with which a correlation pass groups its        *)
(* signals (intelligence/correlation_engine.py, _UnionFind): union by rank *)
(* and path halving.  correlate() unites every pair above the threshold,   *)
(* in the order a Python set yields them, and then asks for the clusters.  *)
(* One round of the loop in find() is one step here, so that what the loop *)
(* keeps true can be stated and proved without recursion.                  *)
(***************************************************************************)
EXTENDS Integers, FiniteSets

CONSTANT N      \* number of signals of the pass

ASSUME NAssumption == N \in Nat \ {0}

Nodes == 0..(N - 1)
Pairs == {p \in Nodes \X Nodes : p[1] < p[2]}

VARIABLES
    parent, rank,   \* the forest
    pending,        \* pairs not united yet
    joined,         \* pairs united so far
    stage,          \* "ready", or the call of find() under way
    pair,           \* the pair that is being united
    x,              \* the loop variable of find()
    rootA,          \* what find() returned for the first of the pair
    next,           \* the node clusters() looks at
    groups          \* groups[r]: the list clusters() collects at root r

forest == <<parent, rank>>
forestVars == <<forest, pending, joined, stage, pair, x, rootA, next, groups>>

ForestTypeOK ==
    /\ parent \in [Nodes -> Nodes]
    /\ rank \in [Nodes -> Nat]
    /\ pending \in SUBSET Pairs
    /\ joined \in SUBSET Pairs
    /\ stage \in {"ready", "find_a", "find_b", "collect", "done"}
    /\ pair \in Nodes \X Nodes
    /\ x \in Nodes
    /\ rootA \in Nodes
    /\ next \in 0..N
    /\ groups \in [Nodes -> SUBSET Nodes]

ForestInit ==
    /\ parent = [n \in Nodes |-> n]
    /\ rank = [n \in Nodes |-> 0]
    /\ pending \in SUBSET Pairs
    /\ joined = {}
    /\ stage = "ready"
    /\ pair = <<0, 0>>
    /\ x = 0
    /\ rootA = 0
    /\ next = 0
    /\ groups = [n \in Nodes |-> {}]

-----------------------------------------------------------------------------

Root(n) == parent[n] = n

\* Mutant of Halved: the grandparent is cut off from its own parent.
HalvedToChild(n) == [parent EXCEPT ![parent[n]] = n]

\* self.parent[x] = self.parent[self.parent[x]]
Halved(n) == [parent EXCEPT ![n] = parent[parent[n]]]

\* One round of the loop in find(), whoever called it.
Halve ==
    /\ stage \in {"find_a", "find_b", "collect"}
    /\ ~Root(x)
    /\ parent' = Halved(x)
    /\ x' = parent'[x]
    /\ UNCHANGED <<rank, pending, joined, stage, pair, rootA, next, groups>>

\* union(a, b) starts with find(a).
Unite(p) ==
    /\ stage = "ready"
    /\ p \in pending
    /\ pending' = pending \ {p}
    /\ pair' = p
    /\ x' = p[1]
    /\ stage' = "find_a"
    /\ UNCHANGED <<forest, joined, rootA, next, groups>>

FoundA ==
    /\ stage = "find_a"
    /\ Root(x)
    /\ rootA' = x
    /\ x' = pair[2]
    /\ stage' = "find_b"
    /\ UNCHANGED <<forest, pending, joined, pair, next, groups>>

\* Only a tie makes the tree higher.
RankAfter(top, child) ==
    IF rank[top] = rank[child] THEN [rank EXCEPT ![top] = @ + 1] ELSE rank

\* Mutant of Attach: the second node itself, and not its root, is moved.
AttachNode(a, b) ==
    /\ parent' = [parent EXCEPT ![pair[2]] = a]
    /\ rank' = RankAfter(a, b)

\* The root of lower rank becomes a child; a tie goes to the first.
Attach(a, b) ==
    LET top == IF rank[a] < rank[b] THEN b ELSE a
        child == IF rank[a] < rank[b] THEN a ELSE b
    IN  /\ parent' = [parent EXCEPT ![child] = top]
        /\ rank' = RankAfter(top, child)

FoundB ==
    /\ stage = "find_b"
    /\ Root(x)
    /\ IF rootA = x THEN UNCHANGED forest ELSE Attach(rootA, x)
    /\ joined' = joined \cup {pair}
    /\ stage' = "ready"
    /\ UNCHANGED <<pending, pair, x, rootA, next, groups>>

\* clusters(), after the last pair.
StartClusters ==
    /\ stage = "ready"
    /\ pending = {}
    /\ x' = 0
    /\ stage' = "collect"
    /\ UNCHANGED <<forest, pending, joined, pair, rootA, next, groups>>

\* groups.setdefault(root, []).append(i)
FoundMember ==
    /\ stage = "collect"
    /\ Root(x)
    /\ groups' = [groups EXCEPT ![x] = @ \cup {next}]
    /\ next' = next + 1
    /\ IF next + 1 < N THEN x' = next + 1 /\ UNCHANGED stage
                       ELSE stage' = "done" /\ UNCHANGED x
    /\ UNCHANGED <<forest, pending, joined, pair, rootA>>

Returned == stage = "done" /\ UNCHANGED forestVars

ForestNext ==
    \/ Halve \/ FoundA \/ FoundB \/ StartClusters \/ FoundMember \/ Returned
    \/ \E p \in Pairs : Unite(p)

ForestSpec == ForestInit /\ [][ForestNext]_forestVars

\* A sequential program: it runs on until it returns.
ForestFairSpec == ForestSpec /\ WF_forestVars(ForestNext)

-----------------------------------------------------------------------------

Edge(m, n, J) == <<m, n>> \in J \/ <<n, m>> \in J

ClosedSet(C, J) == \A m \in C, n \in Nodes : Edge(m, n, J) => n \in C

\* The reference: the connected component of n in the graph of the pairs J.
ComponentIn(n, J) ==
    {m \in Nodes : \A C \in SUBSET Nodes : n \in C /\ ClosedSet(C, J) => m \in C}

Component(n) == ComponentIn(n, joined)

\* What clusters() returns are exactly the connected components of the pairs.
ClustersAreComponents ==
    stage = "done" =>
        {groups[r] : r \in {n \in Nodes : groups[n] # {}}} = {Component(n) : n \in Nodes}

\* Ranks grow along every path: the loop of find() ends.
RankOrder == \A n \in Nodes : ~Root(n) => rank[n] < rank[parent[n]]

\* The algorithm returns.
Terminates == <>(stage = "done")
=============================================================================
