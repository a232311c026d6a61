------------------------- MODULE CorrelationProofs -------------------------
(***************************************************************************)
(* For every number of engines, signals and passes: the signals of a       *)
(* cluster that qualifies are clustered for good, and two such clusters    *)
(* overlap only for one of the two reasons OverlapExplained names.         *)
(*                                                                         *)
(* And for every number of nodes and every set and order of pairs: the     *)
(* forest by which a pass groups its signals answers with the connected    *)
(* components.  That needs no induction over paths: a component is the     *)
(* smallest closed set around a node, every parent stays inside the        *)
(* component, and a component has one root.                                *)
(***************************************************************************)
EXTENDS Correlation, UnionFind, TLAPS

\* The clusters a running pass knows of, or the detector found to qualify.
Known == detected \cup UNION {found[e] : e \in Engines}

Pending(c) == \E e \in Engines : c \in todo[e]

\* What assignment leaves behind: a cluster that is not waiting for its UPDATE
\* and did not lose it has no unclustered signal.
Settled ==
    \A c \in Known : \/ c \in missed
                     \/ Pending(c)
                     \/ \A s \in c.members : assigned[s] # NoCluster

Excused(c, d) ==
    \/ c \in missed \/ d \in missed
    \/ <<c.pass, d.pass>> \in raced \/ <<d.pass, c.pass>> \in raced

Explained ==
    \A c, d \in Known : c # d /\ c.members \cap d.members # {} => Excused(c, d)

IInv ==
    /\ TypeOK
    /\ \A c \in Known : c.pass <= passes
    /\ \A e \in Engines : todo[e] \subseteq found[e]
    /\ \A e \in Engines : pc[e] # "assigning" => todo[e] = {}
    /\ \A e, f \in Engines : e # f => found[e] \cap found[f] = {}
    /\ \A e \in Engines : todo[e] \cap detected = {}
    /\ Settled
    /\ Explained

\* A group is the smallest closed set around its signal: it is a part of S,
\* holds the signal, is closed, and lies in every closed set with the signal.
LEMMA GroupIsClosed ==
    ASSUME NEW S, NEW s \in S
    PROVE  /\ GroupOf(s, S) \in SUBSET S
           /\ s \in GroupOf(s, S)
           /\ Closed(GroupOf(s, S), S)
           /\ \A C \in SUBSET S : s \in C /\ Closed(C, S) => GroupOf(s, S) \subseteq C
  BY DEF GroupOf, Closed

\* Linked is symmetric, so what is left of S outside a closed set is closed.
LEMMA ComplementIsClosed ==
    ASSUME NEW S, NEW C \in SUBSET S, Closed(C, S)
    PROVE  Closed(S \ C, S)
  <1>1. \A l, m : Linked(l, m) => Linked(m, l)
    <2> TAKE l, m
    <2>1. {l, m} = {m, l}
      OBVIOUS
    <2> QED
      BY <2>1 DEF Linked
  <1> QED
    BY <1>1 DEF Closed

\* Two groups of one pass share no signal.
LEMMA GroupsDisjoint ==
    ASSUME NEW S, NEW g \in Groups(S), NEW h \in Groups(S), g # h
    PROVE  g \cap h = {}
  <1>1. PICK a \in S : g = GroupOf(a, S)
    BY DEF Groups
  <1>2. PICK b \in S : h = GroupOf(b, S)
    BY DEF Groups
  <1>3. \A u, v \in S : u \in GroupOf(v, S) => GroupOf(v, S) = GroupOf(u, S)
    <2> SUFFICES ASSUME NEW u \in S, NEW v \in S, u \in GroupOf(v, S)
                 PROVE  GroupOf(v, S) = GroupOf(u, S)
      OBVIOUS
    <2>1. GroupOf(u, S) \subseteq GroupOf(v, S)
      BY GroupIsClosed
    <2>2. v \in GroupOf(u, S)
      <3> SUFFICES ASSUME v \notin GroupOf(u, S)
                   PROVE  FALSE
        OBVIOUS
      <3> DEFINE Rest == S \ GroupOf(u, S)
      <3>1. Closed(Rest, S)
        BY GroupIsClosed, ComplementIsClosed
      <3>2. GroupOf(v, S) \subseteq Rest
        BY <3>1, GroupIsClosed
      <3> QED
        BY <3>2, GroupIsClosed
    <2>3. GroupOf(v, S) \subseteq GroupOf(u, S)
      BY <2>2, GroupIsClosed
    <2> QED
      BY <2>1, <2>3
  <1>4. g \subseteq S /\ h \subseteq S
    BY <1>1, <1>2, GroupIsClosed
  <1> SUFFICES ASSUME NEW z \in g \cap h
               PROVE  FALSE
    OBVIOUS
  <1>5. g = GroupOf(z, S) /\ h = GroupOf(z, S)
    BY <1>1, <1>2, <1>3, <1>4
  <1> QED
    BY <1>5

\* The initial state satisfies the invariant.
LEMMA InitIInv == Init => IInv
  <1> SUFFICES ASSUME Init
               PROVE  IInv
    OBVIOUS
  <1>1. TypeOK
    BY PassBound DEF Init, TypeOK
  <1>2. Known = {}
    BY DEF Init, Known
  <1> QED
    BY <1>1, <1>2 DEF Init, IInv, Settled, Explained

\* A pass that starts finds only signals no settled cluster holds.
LEMMA CorrelateStep ==
    ASSUME IInv, NEW e \in Engines, Correlate(e)
    PROVE  IInv'
  <1> DEFINE new == [pass : {passes + 1}, members : Groups(Unclustered)]
  <1> USE PassBound
  <1>1. passes + 1 \in Passes /\ passes \in Nat
    BY DEF Correlate, IInv, TypeOK, Passes
  <1>2. Groups(Unclustered) \subseteq SUBSET Unclustered /\ Unclustered \subseteq Signals
    BY DEF Groups, GroupOf, Unclustered
  <1>3. new \subseteq Clusters
    BY <1>1, <1>2 DEF Clusters
  <1>4. /\ found' = [found EXCEPT ![e] = new]
        /\ todo' = [todo EXCEPT ![e] = new]
        /\ passes' = passes + 1
        /\ pc' = [pc EXCEPT ![e] = "assigning"]
        /\ raced' = raced \cup (AssigningPasses \X {passes + 1})
        /\ UNCHANGED <<age, assigned, composites, detected, missed>>
        /\ pc[e] = "idle"
    BY DEF Correlate
  <1>5. AssigningPasses \subseteq Passes
    BY DEF AssigningPasses, IInv, TypeOK, Clusters
  <1>6. TypeOK'
    <2>1. raced' \in SUBSET (Passes \X Passes)
      BY <1>1, <1>4, <1>5 DEF IInv, TypeOK
    <2>2. found' \in [Engines -> SUBSET Clusters] /\ todo' \in [Engines -> SUBSET Clusters]
      BY <1>3, <1>4 DEF IInv, TypeOK
    <2> QED
      BY <1>1, <1>4, <2>1, <2>2 DEF IInv, TypeOK, Passes
  <1>7. todo[e] = {}
    BY <1>4 DEF IInv
  <1>8. \A c \in new : c.pass = passes + 1 /\ c.members \in Groups(Unclustered)
    OBVIOUS
  <1>9. Known' \subseteq Known \cup new
    BY <1>4 DEF Known, IInv, TypeOK
  <1>10. \A c \in Known : c \in Clusters /\ c.pass <= passes /\ c.pass \in Nat
    BY DEF Known, IInv, TypeOK, Clusters, Passes
  <1>11. \A c \in new : c \notin Known
    BY <1>1, <1>8, <1>10
  <1>12. \A c \in Known' : c.pass <= passes'
    BY <1>1, <1>4, <1>8, <1>9, <1>10
  <1>13. \A c \in Known : Pending(c) => Pending(c)'
    BY <1>4, <1>7 DEF Pending, IInv, TypeOK
  <1>14. \A c \in new : Pending(c)'
    BY <1>4 DEF Pending, IInv, TypeOK
  <1>15. Settled'
    BY <1>4, <1>9, <1>13, <1>14 DEF Settled, IInv
  <1>16. \A c \in Known, d \in new : c.members \cap d.members # {} =>
             c \in missed \/ <<c.pass, d.pass>> \in raced'
    <2> SUFFICES ASSUME NEW c \in Known, NEW d \in new,
                        c.members \cap d.members # {}, c \notin missed
                 PROVE  <<c.pass, d.pass>> \in raced'
      OBVIOUS
    <2>1. d.members \subseteq Unclustered
      BY <1>2, <1>8
    <2>2. \E s \in c.members : assigned[s] = NoCluster
      BY <2>1 DEF Unclustered
    <2>3. Pending(c)
      BY <2>2 DEF IInv, Settled
    <2>4. c.pass \in AssigningPasses
      BY <2>3 DEF Pending, AssigningPasses
    <2> QED
      BY <2>4, <1>4, <1>8
  <1>17. \A c, d \in new : c # d => c.members \cap d.members = {}
    <2> SUFFICES ASSUME NEW c \in new, NEW d \in new, c # d
                 PROVE  c.members \cap d.members = {}
      OBVIOUS
    <2>1. c.members # d.members
      OBVIOUS
    <2> QED
      BY <1>8, <2>1, GroupsDisjoint
  <1>18. Explained'
    <2> SUFFICES ASSUME NEW c \in Known', NEW d \in Known', c # d,
                        c.members \cap d.members # {}
                 PROVE  Excused(c, d)'
      BY DEF Explained
    <2>1. CASE c \in new /\ d \in new
      BY <2>1, <1>17
    <2>2. CASE c \in new /\ d \in Known
      BY <2>2, <1>4, <1>16 DEF Excused
    <2>3. CASE c \in Known /\ d \in new
      BY <2>3, <1>4, <1>16 DEF Excused
    <2>4. CASE c \in Known /\ d \in Known
      BY <2>4, <1>4 DEF Excused, Explained, IInv
    <2> QED
      BY <1>9, <2>1, <2>2, <2>3, <2>4
  <1>19. \A f, g \in Engines : f # g => found'[f] \cap found'[g] = {}
    <2>1. \A f \in Engines : found[f] \cap new = {}
      BY <1>11 DEF Known
    <2> QED
      BY <1>4, <2>1 DEF IInv, TypeOK
  <1>20. \A f \in Engines : todo'[f] \cap detected' = {}
    BY <1>4, <1>11 DEF Known, IInv, TypeOK
  <1>21. \A f \in Engines : /\ todo'[f] \subseteq found'[f]
                            /\ pc'[f] # "assigning" => todo'[f] = {}
    BY <1>4 DEF IInv, TypeOK
  <1> QED
    BY <1>6, <1>12, <1>15, <1>18, <1>19, <1>20, <1>21 DEF IInv

\* An UPDATE settles a cluster, a failed one is remembered in missed.
LEMMA UpdateStep ==
    ASSUME IInv, NEW e \in Engines, NEW c \in todo[e],
           UpdateCluster(e, c) \/ UpdateFails(e, c)
    PROVE  IInv'
  <1>1. AfterUpdate(e, c) /\ pc[e] = "assigning"
    BY DEF UpdateCluster, UpdateFails
  <1>2. c \in Clusters /\ c # NoCluster
    BY DEF IInv, TypeOK, Clusters, NoCluster, Passes
  <1>3. TypeOK'
    BY <1>1, <1>2 DEF AfterUpdate, UpdateCluster, UpdateFails, IInv, TypeOK
  <1>4. Known' = Known
    BY <1>1 DEF AfterUpdate, Known
  <1>5. \A d \in Known : Pending(d) => d = c \/ Pending(d)'
    BY <1>1 DEF AfterUpdate, Pending, IInv, TypeOK
  <1>6. missed \subseteq missed'
    BY DEF UpdateCluster, UpdateFails
  <1>7. \A s \in Signals : assigned[s] # NoCluster => assigned'[s] # NoCluster
    BY <1>2 DEF UpdateCluster, UpdateFails
  <1>8. c \in missed' \/ \A s \in c.members : assigned'[s] # NoCluster
    BY <1>2 DEF UpdateCluster, UpdateFails, Clusters
  <1>9. \A d \in Known : d.members \subseteq Signals
    BY DEF Known, IInv, TypeOK, Clusters
  <1>10. Settled'
    BY <1>4, <1>5, <1>6, <1>7, <1>8, <1>9 DEF Settled, IInv
  <1>11. Explained'
    BY <1>1, <1>4, <1>6 DEF AfterUpdate, Explained, Excused, IInv
  <1>12. \A f \in Engines : /\ todo'[f] \subseteq todo[f]
                            /\ pc'[f] # "assigning" => todo'[f] = {}
    BY <1>1 DEF AfterUpdate, IInv, TypeOK
  <1> QED
    BY <1>1, <1>3, <1>4, <1>10, <1>11, <1>12 DEF AfterUpdate, IInv

\* A step that forgets clusters of passes and adds some of those to detected.
LEMMA ForgetStep ==
    ASSUME IInv, TypeOK', UNCHANGED <<assigned, passes, missed, raced>>,
           \A e \in Engines :
               /\ found'[e] \in {found[e], {}}
               /\ todo'[e] = IF found'[e] = found[e] THEN todo[e] ELSE {}
               /\ pc'[e] = "assigning" => pc[e] = "assigning"
               /\ pc'[e] # "assigning" => todo'[e] = {},
           \A c \in detected' : c \in detected \/
               \E e \in Engines : c \in found[e] /\ todo[e] = {}
    PROVE  IInv'
  <1>1. Known' \subseteq Known
    BY DEF Known
  <1>2. \A c \in Known' : Pending(c) => Pending(c)'
    <2> SUFFICES ASSUME NEW c \in Known', NEW e \in Engines, c \in todo[e]
                 PROVE  Pending(c)'
      BY DEF Pending
    <2>1. \A f \in Engines : c \in found[f] => f = e
      BY DEF IInv
    <2>2. c \notin detected'
      BY <2>1 DEF IInv
    <2>3. c \in found'[e]
      BY <2>1, <2>2 DEF Known
    <2> QED
      BY <2>3 DEF Pending
  <1>3. Settled'
    BY <1>1, <1>2 DEF Settled, IInv
  <1>4. Explained'
    BY <1>1 DEF Explained, Excused, IInv
  <1>5. \A e \in Engines : todo'[e] \cap detected' = {}
    <2> SUFFICES ASSUME NEW e \in Engines, NEW c \in todo'[e], c \in detected'
                 PROVE  FALSE
      OBVIOUS
    <2>1. c \in todo[e] /\ c \in found[e]
      BY DEF IInv
    <2> QED
      BY <2>1 DEF IInv
  <1> QED
    BY <1>1, <1>3, <1>4, <1>5 DEF IInv

\* The invariant is inductive.
LEMMA IInvStep == IInv /\ [Next]_vars => IInv'
  <1> SUFFICES ASSUME IInv, [Next]_vars
               PROVE  IInv'
    OBVIOUS
  <1>1. ASSUME NEW s \in Signals, Arrive(s) \/ Expire(s)
        PROVE  IInv'
    <2>1. TypeOK' /\ UNCHANGED <<assigned, passes, engine, composites, detected, missed, raced>>
      BY <1>1 DEF Arrive, Expire, IInv, TypeOK, engine
    <2> QED
      BY <2>1, ForgetStep DEF engine, IInv
  <1>2. ASSUME NEW e \in Engines, Announce(e)
        PROVE  IInv'
    <2>1. TypeOK'
      BY <1>2 DEF Announce, IInv, TypeOK
    <2> QED
      BY <1>2, <2>1, ForgetStep DEF Announce, IInv, TypeOK
  <1>3. ASSUME NEW e \in Engines, Detect(e) \/ PassFails(e)
        PROVE  IInv'
    <2>1. /\ pc[e] \in {"announcing", "detecting"}
          /\ EndPass(e)
          /\ detected' \subseteq detected \cup found[e]
          /\ composites' \subseteq composites \cup found[e]
      BY <1>3 DEF Detect, PassFails, Written
    <2>2. todo[e] = {}
      BY <2>1 DEF IInv
    <2>3. TypeOK'
      BY <2>1 DEF EndPass, IInv, TypeOK
    <2>4. \A f \in Engines :
               /\ found'[f] \in {found[f], {}}
               /\ todo'[f] = IF found'[f] = found[f] THEN todo[f] ELSE {}
               /\ pc'[f] = "assigning" => pc[f] = "assigning"
               /\ pc'[f] # "assigning" => todo'[f] = {}
      BY <2>1, <2>2 DEF EndPass, IInv, TypeOK
    <2> QED
      BY <2>1, <2>2, <2>3, <2>4, ForgetStep DEF EndPass
  <1>4. CASE Crash
    <2>1. TypeOK'
      BY <1>4 DEF Crash, IInv, TypeOK
    <2>2. \A f \in Engines :
               /\ found'[f] \in {found[f], {}}
               /\ todo'[f] = IF found'[f] = found[f] THEN todo[f] ELSE {}
               /\ pc'[f] = "assigning" => pc[f] = "assigning"
               /\ pc'[f] # "assigning" => todo'[f] = {}
      BY <1>4 DEF Crash, IInv
    <2> QED
      BY <1>4, <2>1, <2>2, ForgetStep DEF Crash
  <1>5. CASE UNCHANGED vars
    <2>1. TypeOK'
      BY <1>5 DEF IInv, TypeOK, vars, engine
    <2> QED
      BY <1>5, <2>1, ForgetStep DEF vars, engine, IInv
  <1> QED
    BY <1>1, <1>2, <1>3, <1>4, <1>5, CorrelateStep, UpdateStep DEF Next, Pass, Exhausted

\* The inductive invariant holds in every reachable state.
THEOREM Inductive == Spec => []IInv
  BY InitIInv, IInvStep, PTL DEF Spec

\* No signal is in two qualifying clusters but for a failed UPDATE or two passes
\* that ran into each other.
THEOREM EveryOverlapExplained == Spec => []OverlapExplained
  <1>1. IInv => OverlapExplained
    BY DEF IInv, Explained, Excused, OverlapExplained, Known
  <1> QED
    BY <1>1, Inductive, PTL

\* The signals of a qualifying cluster are never unclustered again.
THEOREM DetectedSignalsClustered == Spec => []DetectedAreClustered
  <1>1. IInv => DetectedAreClustered
    BY DEF IInv, Settled, Pending, DetectedAreClustered, Known
  <1> QED
    BY <1>1, Inductive, PTL

-----------------------------------------------------------------------------
(* The forest.                                                             *)

ParentInside == \A n \in Nodes : parent[n] \in Component(n)

OneRoot == \A m, n \in Nodes : Root(m) /\ Root(n) /\ m \in Component(n) => m = n

\* Where the loop of find() may stand, by what called it.
Cursor ==
    /\ stage = "find_a" => x \in Component(pair[1])
    /\ stage = "find_b" => /\ x \in Component(pair[2])
                        /\ rootA \in Component(pair[1])
                        /\ Root(rootA)
    /\ stage \in {"find_a", "find_b"} => pair \in Pairs
    /\ stage = "collect" => next \in Nodes /\ x \in Component(next)

Collected ==
    /\ stage \notin {"collect", "done"} => next = 0
    /\ stage = "done" => next = N
    /\ \A r \in Nodes : groups[r] = {m \in 0..(next - 1) : Root(r) /\ r \in Component(m)}
    /\ \A m \in 0..(next - 1) : \E r \in Nodes : m \in groups[r]

ForestInv == ForestTypeOK /\ RankOrder /\ ParentInside /\ OneRoot /\ Cursor /\ Collected

\* A component is a closed set with its node in it, and the smallest one.
LEMMA ComponentIsClosed ==
    ASSUME NEW J, NEW n \in Nodes
    PROVE  /\ ComponentIn(n, J) \in SUBSET Nodes
           /\ n \in ComponentIn(n, J)
           /\ ClosedSet(ComponentIn(n, J), J)
           /\ \A C \in SUBSET Nodes :
                  n \in C /\ ClosedSet(C, J) => ComponentIn(n, J) \subseteq C
  BY DEF ComponentIn, ClosedSet

\* Every node of a component has that component.
LEMMA SameComponentIn ==
    ASSUME NEW J, NEW n \in Nodes, NEW m \in ComponentIn(n, J)
    PROVE  ComponentIn(m, J) = ComponentIn(n, J)
  <1>1. m \in Nodes
    BY ComponentIsClosed
  <1>2. ComponentIn(m, J) \subseteq ComponentIn(n, J)
    BY <1>1, ComponentIsClosed
  <1>3. n \in ComponentIn(m, J)
    <2> SUFFICES ASSUME n \notin ComponentIn(m, J)
                 PROVE  FALSE
      OBVIOUS
    <2> DEFINE Rest == Nodes \ ComponentIn(m, J)
    <2>1. ClosedSet(Rest, J)
      BY <1>1, ComponentIsClosed DEF ClosedSet, Edge
    <2>2. ComponentIn(n, J) \subseteq Rest
      BY <2>1, ComponentIsClosed
    <2> QED
      BY <2>2, <1>1, ComponentIsClosed
  <1> QED
    BY <1>1, <1>2, <1>3, ComponentIsClosed

\* K is J and the pair of a and b, whose components in J make up U.
Joins(J, K, a, b, U) ==
    /\ K = J \cup {<<a, b>>}
    /\ U = ComponentIn(a, J) \cup ComponentIn(b, J)

\* A new pair melts the components of its two nodes and touches no other.
LEMMA JoinMelts ==
    ASSUME NEW a \in Nodes, NEW b \in Nodes, NEW J, NEW K, NEW U, Joins(J, K, a, b, U)
    PROVE  \A n \in Nodes : ComponentIn(n, K) = IF n \in U THEN U ELSE ComponentIn(n, J)
  <1> USE DEF Joins
  <1> SUFFICES ASSUME NEW n \in Nodes
               PROVE  ComponentIn(n, K) = IF n \in U THEN U ELSE ComponentIn(n, J)
    OBVIOUS
  <1>1. \A l, m : Edge(l, m, J) => Edge(l, m, K)
    BY DEF Edge
  <1>2. \A l, m : Edge(l, m, K) => Edge(l, m, J) \/ (l \in {a, b} /\ m \in {a, b})
    BY DEF Edge
  <1>3. Edge(a, b, K) /\ Edge(b, a, K)
    BY DEF Edge
  <1>4. \A C : ClosedSet(C, K) => ClosedSet(C, J)
    BY <1>1 DEF ClosedSet
  <1>5. \A m \in Nodes : ComponentIn(m, J) \subseteq ComponentIn(m, K)
    BY <1>4 DEF ComponentIn
  <1>6. U \in SUBSET Nodes /\ a \in U /\ b \in U
    BY ComponentIsClosed
  <1>7. ClosedSet(U, K)
    <2>1. ClosedSet(U, J)
      BY ComponentIsClosed DEF ClosedSet
    <2> QED
      BY <1>2, <1>6, <2>1 DEF ClosedSet
  <1>8. CASE n \in U
    <2>1. ComponentIn(n, K) \subseteq U
      BY <1>6, <1>7, <1>8, ComponentIsClosed
    <2>2. a \in ComponentIn(n, K) \/ b \in ComponentIn(n, K)
      BY <1>5, <1>8, SameComponentIn, ComponentIsClosed
    <2>3. a \in ComponentIn(n, K) /\ b \in ComponentIn(n, K)
      BY <1>3, <2>2, ComponentIsClosed DEF ClosedSet
    <2>4. ComponentIn(a, K) = ComponentIn(n, K) /\ ComponentIn(b, K) = ComponentIn(n, K)
      BY <2>3, SameComponentIn
    <2>5. U \subseteq ComponentIn(n, K)
      BY <1>5, <2>4
    <2> QED
      BY <1>8, <2>1, <2>5
  <1>9. CASE n \notin U
    <2>1. a \notin ComponentIn(n, J) /\ b \notin ComponentIn(n, J)
      BY <1>9, SameComponentIn, ComponentIsClosed
    <2>2. ClosedSet(ComponentIn(n, J), K)
      BY <1>2, <2>1, ComponentIsClosed DEF ClosedSet
    <2>3. ComponentIn(n, K) \subseteq ComponentIn(n, J)
      BY <2>2, ComponentIsClosed
    <2> QED
      BY <1>5, <1>9, <2>3
  <1> QED
    BY <1>8, <1>9

\* The same facts about the pairs joined so far.
LEMMA Components ==
    ASSUME NEW n \in Nodes
    PROVE  /\ Component(n) \in SUBSET Nodes
           /\ n \in Component(n)
  BY ComponentIsClosed DEF Component

LEMMA SameComponent ==
    ASSUME NEW n \in Nodes, NEW m \in Component(n)
    PROVE  Component(m) = Component(n)
  BY SameComponentIn DEF Component

\* The initial forest has only roots, and no pair is joined.
LEMMA InitForestInv == ForestInit => ForestInv
  <1> SUFFICES ASSUME ForestInit
               PROVE  ForestInv
    OBVIOUS
  <1> USE NAssumption
  <1>1. 0 \in Nodes /\ 0 \in 0..N /\ 0 \in Nat /\ 0..(0 - 1) = {}
    BY DEF Nodes
  <1>2. ForestTypeOK
    BY <1>1 DEF ForestInit, ForestTypeOK
  <1>3. RankOrder /\ ParentInside
    BY Components DEF ForestInit, RankOrder, ParentInside, Root
  <1>4. \A n \in Nodes : ClosedSet({n}, joined) /\ {n} \in SUBSET Nodes
    BY DEF ForestInit, ClosedSet, Edge
  <1>5. OneRoot
    BY <1>4, ComponentIsClosed DEF OneRoot, Component
  <1>6. Cursor /\ Collected
    BY <1>1 DEF ForestInit, Cursor, Collected
  <1> QED
    BY <1>2, <1>3, <1>5, <1>6 DEF ForestInv

\* Components only depend on the joined pairs.
LEMMA ComponentsKept ==
    ASSUME UNCHANGED joined
    PROVE  \A n : Component(n)' = Component(n)
  BY DEF Component

\* Path halving moves a node up inside its tree, and no root.
LEMMA HalveStep ==
    ASSUME ForestInv, Halve
    PROVE  ForestInv'
  <1>1. x \in Nodes /\ parent[x] \in Nodes /\ parent[parent[x]] \in Nodes
    BY DEF ForestInv, ForestTypeOK
  <1>2. \A n : Component(n)' = Component(n)
    BY ComponentsKept DEF Halve
  <1>3. /\ parent' = [parent EXCEPT ![x] = parent[parent[x]]]
        /\ x' = parent[parent[x]]
        /\ ~Root(x)
        /\ UNCHANGED <<rank, pending, joined, stage, pair, rootA, next, groups>>
    BY <1>1 DEF Halve, Halved, ForestInv, ForestTypeOK
  <1>4. rank[x] < rank[parent[x]] /\ rank[parent[x]] <= rank[parent[parent[x]]]
    BY <1>1, <1>3 DEF ForestInv, RankOrder, ForestTypeOK, Root
  <1>5. /\ rank[x] \in Nat /\ rank[parent[x]] \in Nat
        /\ rank[parent[parent[x]]] \in Nat
    BY <1>1 DEF ForestInv, ForestTypeOK
  <1>6. rank[x] < rank[parent[parent[x]]] /\ parent[parent[x]] # x
    BY <1>4, <1>5
  <1>7. \A n \in Nodes : Root(n)' <=> Root(n)
    BY <1>1, <1>3, <1>6 DEF Root, ForestInv, ForestTypeOK
  <1>8. parent[parent[x]] \in Component(x)
    BY <1>1, SameComponent DEF ForestInv, ParentInside
  <1>9. ForestTypeOK'
    BY <1>1, <1>3 DEF ForestInv, ForestTypeOK
  <1>10. RankOrder'
    BY <1>1, <1>3, <1>6, <1>7 DEF ForestInv, ForestTypeOK, RankOrder, Root
  <1>11. ParentInside'
    BY <1>1, <1>2, <1>3, <1>8 DEF ForestInv, ForestTypeOK, ParentInside
  <1>12. OneRoot'
    BY <1>2, <1>7 DEF ForestInv, OneRoot
  <1>13. Cursor'
    <2>1. ASSUME NEW n \in Nodes, x \in Component(n)
          PROVE  x' \in Component(n)
      BY <1>3, <1>8, <2>1, SameComponent
    <2>2. pair[1] \in Nodes /\ pair[2] \in Nodes /\ rootA \in Nodes
      BY DEF ForestInv, ForestTypeOK
    <2> QED
      BY <1>2, <1>3, <1>7, <2>1, <2>2 DEF ForestInv, Cursor
  <1>14. Collected'
    BY <1>2, <1>3, <1>7 DEF ForestInv, Collected
  <1> QED
    BY <1>9, <1>10, <1>11, <1>12, <1>13, <1>14 DEF ForestInv

\* Two roots become one: the tree of one hangs below the other.
LEMMA AttachStep ==
    ASSUME ForestInv, FoundB, rootA # x
    PROVE  ForestInv'
  <1> DEFINE a == pair[1]  b == pair[2]
             U == Component(a) \cup Component(b)
  <1>1. a \in Nodes /\ b \in Nodes /\ pair = <<a, b>> /\ pair \in Pairs
    BY DEF ForestInv, ForestTypeOK, Cursor, FoundB
  <1>2. \A n \in Nodes : Component(n)' = IF n \in U THEN U ELSE Component(n)
    <2>1. joined' = joined \cup {<<a, b>>}
      BY <1>1 DEF FoundB
    <2>2. \A n \in Nodes : ComponentIn(n, joined') = IF n \in U THEN U ELSE ComponentIn(n, joined)
      <3>1. Joins(joined, joined', a, b, U)
        BY <2>1 DEF Component, Joins
      <3> HIDE DEF a, b, U
      <3> QED
        BY <1>1, <3>1, JoinMelts
    <2> QED
      BY <2>1, <2>2 DEF Component
  <1>3. /\ rootA \in Component(a) /\ Root(rootA) /\ rootA \in Nodes
        /\ x \in Component(b) /\ Root(x) /\ x \in Nodes
    BY DEF ForestInv, Cursor, FoundB, ForestTypeOK
  <1>4. PICK top \in {rootA, x}, child \in {rootA, x} :
           /\ top # child
           /\ rank[child] <= rank[top]
           /\ parent' = [parent EXCEPT ![child] = top]
           /\ rank' = RankAfter(top, child)
    <2>1. rank[rootA] \in Nat /\ rank[x] \in Nat
      BY <1>3 DEF ForestInv, ForestTypeOK
    <2> QED
      BY <2>1 DEF FoundB, Attach
  <1>5. top \in Nodes /\ child \in Nodes /\ Root(top) /\ Root(child)
    BY <1>3, <1>4
  <1>6. /\ UNCHANGED <<pending, pair, x, rootA, next, groups>>
        /\ stage = "find_b" /\ stage' = "ready" /\ joined' = joined \cup {pair}
    BY DEF FoundB
  <1>7. ForestTypeOK'
    BY <1>1, <1>4, <1>5, <1>6 DEF ForestInv, ForestTypeOK, RankAfter
  <1>8. \A n \in Nodes : Root(n)' <=> Root(n) /\ n # child
    BY <1>4, <1>5 DEF Root, ForestInv, ForestTypeOK
  <1>9. RankOrder'
    <2>1. \A n \in Nodes : rank[n] \in Nat /\ rank'[n] \in Nat
      BY <1>7 DEF ForestInv, ForestTypeOK
    <2>2. \A n \in Nodes : /\ rank[n] <= rank'[n]
                           /\ n # top => rank'[n] = rank[n]
      BY <1>4, <1>5, <2>1 DEF RankAfter, ForestInv, ForestTypeOK
    <2>3. rank'[child] < rank'[top]
      BY <1>4, <1>5, <2>1 DEF RankAfter, ForestInv, ForestTypeOK
    <2> SUFFICES ASSUME NEW n \in Nodes, ~Root(n)'
                 PROVE  rank'[n] < rank'[parent'[n]]
      BY DEF RankOrder
    <2>4. CASE n = child
      BY <2>4, <2>3, <1>4, <1>5 DEF ForestInv, ForestTypeOK
    <2>5. CASE n # child
      <3>1. ~Root(n) /\ n # top /\ parent'[n] = parent[n] /\ parent[n] \in Nodes
        BY <2>5, <1>4, <1>5, <1>8 DEF ForestInv, ForestTypeOK
      <3>2. rank[n] < rank[parent[n]]
        BY <3>1 DEF ForestInv, RankOrder
      <3>3. rank'[n] = rank[n] /\ rank[parent[n]] <= rank'[parent[n]]
        BY <3>1, <2>2
      <3> QED
        BY <3>1, <3>2, <3>3, <2>1
    <2> QED
      BY <2>4, <2>5
  <1>10. top \in U /\ child \in U
    BY <1>3, <1>4
  <1>11. ParentInside'
    <2> SUFFICES ASSUME NEW n \in Nodes
                 PROVE  parent'[n] \in Component(n)'
      BY DEF ParentInside
    <2>1. CASE n = child
      BY <2>1, <1>2, <1>4, <1>5, <1>10 DEF ForestInv, ForestTypeOK
    <2>2. CASE n # child
      <3>1. parent'[n] = parent[n] /\ parent[n] \in Component(n)
        BY <2>2, <1>4 DEF ForestInv, ForestTypeOK, ParentInside
      <3>2. n \in U => Component(n) \subseteq U
        BY <1>1, SameComponent
      <3> QED
        BY <3>1, <3>2, <1>2
    <2> QED
      BY <2>1, <2>2
  <1>12. \A n \in Nodes : Root(n) /\ n \in U => n \in {rootA, x}
    BY <1>1, <1>3, SameComponent, Components DEF ForestInv, OneRoot
  <1>13. OneRoot'
    <2> SUFFICES ASSUME NEW m \in Nodes, NEW n \in Nodes,
                        Root(m)', Root(n)', m \in Component(n)'
                 PROVE  m = n
      BY DEF OneRoot
    <2>1. CASE n \in U
      BY <2>1, <1>2, <1>4, <1>8, <1>12
    <2>2. CASE n \notin U
      BY <2>2, <1>2, <1>8 DEF ForestInv, OneRoot
    <2> QED
      BY <2>1, <2>2
  <1>14. Cursor'
    BY <1>6 DEF Cursor
  <1>15. Collected'
    BY <1>6 DEF ForestInv, Collected
  <1> QED
    BY <1>7, <1>9, <1>11, <1>13, <1>14, <1>15 DEF ForestInv

\* The pair was connected already: the forest stays, and so do the components.
LEMMA SameRootStep ==
    ASSUME ForestInv, FoundB, rootA = x
    PROVE  ForestInv'
  <1> DEFINE a == pair[1]  b == pair[2]
  <1>1. a \in Nodes /\ b \in Nodes /\ pair = <<a, b>> /\ pair \in Pairs
    BY DEF ForestInv, ForestTypeOK, Cursor, FoundB
  <1>2. Component(a) = Component(b)
    BY <1>1, SameComponent DEF ForestInv, Cursor, FoundB
  <1>3. \A n \in Nodes : Component(n)' = Component(n)
    <2>1. Joins(joined, joined', a, b, Component(a))
      BY <1>1, <1>2 DEF FoundB, Component, Joins
    <2>2. \A n \in Component(a) : Component(n) = Component(a)
      BY <1>1, SameComponent
    <2> HIDE DEF a, b
    <2>3. \A n \in Nodes : ComponentIn(n, joined') = IF n \in Component(a) THEN Component(a)
                                                    ELSE ComponentIn(n, joined)
      BY <1>1, <2>1, JoinMelts
    <2> QED
      BY <2>2, <2>3 DEF Component
  <1>4. /\ UNCHANGED <<forest, pending, pair, x, rootA, next, groups>>
        /\ stage = "find_b" /\ stage' = "ready" /\ joined' = joined \cup {pair}
    BY DEF FoundB
  <1>5. ForestTypeOK' /\ RankOrder'
    BY <1>1, <1>4 DEF ForestInv, ForestTypeOK, RankOrder, Root, forest
  <1>6. ParentInside' /\ OneRoot'
    BY <1>3, <1>4 DEF ForestInv, ParentInside, OneRoot, Root, forest
  <1>7. Cursor' /\ Collected'
    BY <1>4 DEF ForestInv, Cursor, Collected
  <1> QED
    BY <1>5, <1>6, <1>7 DEF ForestInv

\* The root clusters() found for the next node is the root of its component.
LEMMA FoundMemberStep ==
    ASSUME ForestInv, FoundMember
    PROVE  ForestInv'
  <1> USE NAssumption
  <1>1. next \in Nodes /\ x \in Nodes /\ x \in Component(next) /\ Root(x)
    BY DEF ForestInv, ForestTypeOK, Cursor, FoundMember
  <1>2. \A n : Component(n)' = Component(n)
    BY ComponentsKept DEF FoundMember
  <1>3. UNCHANGED <<forest, pending, joined, pair, rootA>> /\ stage = "collect"
    BY DEF FoundMember
  <1>4. \A n : Root(n)' <=> Root(n)
    BY <1>3 DEF Root, forest
  <1>5. groups' = [groups EXCEPT ![x] = @ \cup {next}] /\ next' = next + 1
    BY DEF FoundMember
  <1>6. \/ next + 1 \in Nodes /\ x' = next + 1 /\ stage' = "collect"
        \/ next + 1 = N /\ x' = x /\ stage' = "done"
    BY <1>1, <1>3 DEF FoundMember, Nodes
  <1>7. ForestTypeOK'
    <2>1. next' \in 0..N
      BY <1>1, <1>5 DEF Nodes
    <2>2. next \in Nodes /\ groups' \in [Nodes -> SUBSET Nodes]
      BY <1>1, <1>5 DEF ForestInv, ForestTypeOK
    <2>3. x' \in Nodes /\ stage' \in {"ready", "find_a", "find_b", "collect", "done"}
      BY <1>1, <1>6
    <2> QED
      BY <1>3, <2>1, <2>2, <2>3 DEF ForestInv, ForestTypeOK, forest
  <1>8. RankOrder' /\ ParentInside' /\ OneRoot'
    BY <1>2, <1>3, <1>4 DEF ForestInv, RankOrder, ParentInside, OneRoot, forest
  <1>9. Cursor'
    BY <1>2, <1>5, <1>6, Components DEF Cursor
  <1>10. 0..(next' - 1) = 0..(next - 1) \cup {next} /\ next \notin 0..(next - 1)
    BY <1>1, <1>5 DEF Nodes
  <1>11. \A r \in Nodes : Root(r) /\ r \in Component(next) <=> r = x
    <2>1. Component(x) = Component(next)
      BY <1>1, SameComponent
    <2> QED
      BY <1>1, <2>1 DEF ForestInv, OneRoot
  <1>12. \A r \in Nodes : groups'[r] =
             {m \in 0..(next' - 1) : Root(r)' /\ r \in Component(m)'}
    BY <1>1, <1>2, <1>4, <1>5, <1>10, <1>11 DEF ForestInv, ForestTypeOK, Collected
  <1>13. \A m \in 0..(next' - 1) : \E r \in Nodes : m \in groups'[r]
    BY <1>1, <1>5, <1>10 DEF ForestInv, ForestTypeOK, Collected
  <1>14. Collected'
    BY <1>5, <1>6, <1>12, <1>13 DEF Collected
  <1> QED
    BY <1>7, <1>8, <1>9, <1>14 DEF ForestInv

\* The steps that only start or end a call of find().
LEMMA CallStep ==
    ASSUME ForestInv, FoundA \/ StartClusters \/ (\E p \in Pairs : Unite(p))
    PROVE  ForestInv'
  <1> USE NAssumption
  <1>1. \A n : Component(n)' = Component(n)
    BY ComponentsKept DEF FoundA, StartClusters, Unite
  <1>2. UNCHANGED <<forest, joined, next, groups>> /\ next = 0
    BY DEF FoundA, StartClusters, Unite, ForestInv, Collected
  <1>3. ForestTypeOK'
    <2>1. CASE FoundA
      BY <2>1, <1>2 DEF FoundA, ForestInv, ForestTypeOK, forest
    <2>2. CASE StartClusters
      <3>1. 0 \in Nodes
        BY DEF Nodes
      <3> QED
        BY <2>2, <3>1, <1>2 DEF StartClusters, ForestInv, ForestTypeOK, forest
    <2>3. ASSUME NEW p \in Pairs, Unite(p)
          PROVE  ForestTypeOK'
      <3>1. p \in Nodes \X Nodes /\ p[1] \in Nodes
        BY DEF Pairs
      <3> QED
        BY <2>3, <3>1, <1>2 DEF Unite, ForestInv, ForestTypeOK, forest
    <2> QED
      BY <2>1, <2>2, <2>3
  <1>4. RankOrder' /\ ParentInside' /\ OneRoot'
    BY <1>1, <1>2 DEF ForestInv, RankOrder, ParentInside, OneRoot, Root, forest
  <1>5. Cursor'
    <2>1. CASE FoundA
      BY <2>1, <1>1, <1>2, Components DEF FoundA, ForestInv, ForestTypeOK, Cursor, Root, forest
    <2>2. CASE StartClusters
      BY <2>2, <1>1, <1>2, Components DEF StartClusters, Cursor, Nodes
    <2>3. CASE \E p \in Pairs : Unite(p)
      BY <2>3, <1>1, Components DEF Unite, Cursor, Pairs
    <2> QED
      BY <2>1, <2>2, <2>3
  <1>6. Collected'
    BY <1>1, <1>2 DEF FoundA, StartClusters, Unite, ForestInv, Collected, Root, forest
  <1> QED
    BY <1>3, <1>4, <1>5, <1>6 DEF ForestInv

\* The invariant is inductive.
LEMMA ForestInvStep == ForestInv /\ [ForestNext]_forestVars => ForestInv'
  <1> SUFFICES ASSUME ForestInv, [ForestNext]_forestVars
               PROVE  ForestInv'
    OBVIOUS
  <1>1. CASE UNCHANGED forestVars
    <2>1. \A n : Component(n)' = Component(n)
      BY <1>1, ComponentsKept DEF forestVars
    <2>2. ForestTypeOK' /\ RankOrder' /\ ParentInside' /\ OneRoot'
      BY <1>1, <2>1 DEF forestVars, forest, ForestInv, ForestTypeOK, RankOrder, ParentInside, OneRoot, Root
    <2>3. Cursor' /\ Collected'
      BY <1>1, <2>1 DEF forestVars, forest, ForestInv, Cursor, Collected, Root
    <2> QED
      BY <2>2, <2>3 DEF ForestInv
  <1> QED
    BY <1>1, HalveStep, AttachStep, SameRootStep, FoundMemberStep, CallStep
       DEF ForestNext, Returned

\* The inductive invariant holds in every reachable state.
THEOREM ForestInductive == ForestSpec => []ForestInv
  BY InitForestInv, ForestInvStep, PTL DEF ForestSpec

\* Ranks grow along every path, so the loop of find() cannot run in a circle.
THEOREM RanksOrdered == ForestSpec => []RankOrder
  BY ForestInductive, PTL DEF ForestInv

\* What clusters() returns are the connected components of the pairs.
THEOREM ClustersCorrect == ForestSpec => []ClustersAreComponents
  <1>1. ForestInv => ClustersAreComponents
    <2> SUFFICES ASSUME ForestInv, stage = "done"
                 PROVE  {groups[r] : r \in {n \in Nodes : groups[n] # {}}}
                            = {Component(n) : n \in Nodes}
      BY DEF ClustersAreComponents
    <2>1. 0..(next - 1) = Nodes
      BY DEF ForestInv, Collected, Nodes
    <2>2. \A r \in Nodes : groups[r] = {m \in Nodes : Root(r) /\ r \in Component(m)}
      BY <2>1 DEF ForestInv, Collected
    <2>3. \A m, r \in Nodes : r \in Component(m) <=> m \in Component(r)
      BY SameComponent, Components
    <2>4. \A r \in Nodes : groups[r] # {} => groups[r] = Component(r)
      <3> SUFFICES ASSUME NEW r \in Nodes, groups[r] # {}
                   PROVE  groups[r] = Component(r)
        OBVIOUS
      <3>1. Root(r)
        BY <2>2
      <3>2. groups[r] = {m \in Nodes : m \in Component(r)}
        BY <2>2, <2>3, <3>1
      <3> QED
        BY <3>2, Components
    <2>5. \A n \in Nodes : \E r \in Nodes : n \in groups[r]
      BY <2>1 DEF ForestInv, Collected
    <2>6. \A n \in Nodes : \E r \in Nodes : groups[r] # {} /\ Component(r) = Component(n)
      BY <2>2, <2>5, SameComponent
    <2> QED
      BY <2>4, <2>6
  <1> QED
    BY <1>1, ForestInductive, PTL

-----------------------------------------------------------------------------
(* Both together.                                                          *)

\* signal numbers the signals S, and J are the numbers of the linked pairs.
Numbering(signal, S, J) ==
    /\ signal \in [Nodes -> S]
    /\ \A l, m \in Nodes : signal[l] = signal[m] => l = m
    /\ \A s \in S : \E m \in Nodes : s = signal[m]
    /\ J = {p \in Pairs : Linked(signal[p[1]], signal[p[2]])}

\* Numbering the signals of a pass turns its groups into components.
LEMMA GroupIsComponent ==
    ASSUME NEW S, NEW signal, NEW J, Numbering(signal, S, J)
    PROVE  \A n \in Nodes : GroupOf(signal[n], S) = {signal[m] : m \in ComponentIn(n, J)}
  <1> SUFFICES ASSUME NEW n \in Nodes
               PROVE  GroupOf(signal[n], S) = {signal[m] : m \in ComponentIn(n, J)}
    OBVIOUS
  <1> USE DEF Numbering
  <1>1. \A l, m \in Nodes : Edge(l, m, J) <=> Linked(signal[l], signal[m])
    <2>1. ASSUME NEW l \in Nodes, NEW m \in Nodes
          PROVE  Linked(signal[l], signal[m]) => l # m /\ Linked(signal[m], signal[l])
      <3>1. {signal[l], signal[m]} = {signal[m], signal[l]}
        OBVIOUS
      <3> QED
        BY <3>1 DEF Linked
    <2>2. \A l, m \in Nodes : <<l, m>> \in J <=> l < m /\ Linked(signal[l], signal[m])
      BY DEF Pairs
    <2>3. \A l, m \in Nodes : l # m => l < m \/ m < l
      BY NAssumption DEF Nodes
    <2> QED
      BY <2>1, <2>2, <2>3 DEF Edge
  <1>2. ASSUME NEW C \in SUBSET Nodes, ClosedSet(C, J)
        PROVE  Closed({signal[m] : m \in C}, S)
    <2> SUFFICES ASSUME NEW l \in C, NEW t \in S, Linked(signal[l], t)
                 PROVE  \E m \in C : t = signal[m]
      BY DEF Closed
    <2>1. PICK m \in Nodes : t = signal[m]
      OBVIOUS
    <2>2. Edge(l, m, J)
      BY <1>1, <2>1
    <2> QED
      BY <1>2, <2>1, <2>2 DEF ClosedSet
  <1>3. ASSUME NEW D \in SUBSET S, Closed(D, S)
        PROVE  ClosedSet({m \in Nodes : signal[m] \in D}, J)
    BY <1>1, <1>3 DEF Closed, ClosedSet
  <1> DEFINE C == ComponentIn(n, J)
             G == GroupOf(signal[n], S)
  <1>4. C \in SUBSET Nodes /\ n \in C /\ ClosedSet(C, J)
    BY ComponentIsClosed
  <1>5. G \in SUBSET S /\ signal[n] \in G /\ Closed(G, S)
    BY GroupIsClosed
  <1>6. G \subseteq {signal[m] : m \in C}
    <2>1. Closed({signal[m] : m \in C}, S)
      BY <1>2, <1>4
    <2> HIDE DEF C
    <2>2. {signal[m] : m \in C} \in SUBSET S /\ signal[n] \in {signal[m] : m \in C}
      BY <1>4
    <2> QED
      BY <2>1, <2>2, GroupIsClosed
  <1>7. C \subseteq {m \in Nodes : signal[m] \in G}
    <2>1. ClosedSet({m \in Nodes : signal[m] \in G}, J)
      BY <1>3, <1>5
    <2>2. /\ {m \in Nodes : signal[m] \in G} \in SUBSET Nodes
          /\ n \in {m \in Nodes : signal[m] \in G}
      BY <1>5
    <2> HIDE DEF G
    <2> QED
      BY <2>1, <2>2, ComponentIsClosed
  <1> QED
    BY <1>6, <1>7

\* A pass that numbers its signals and unites the linked pairs gets from clusters(),
\* once groups of one signal are skipped, the very groups that Correlate assigns.
THEOREM ForestFindsGroups ==
    ASSUME NEW S, NEW signal, NEW J, Numbering(signal, S, J)
    PROVE  ForestSpec =>
             [](stage = "done" /\ joined = J =>
                  {{signal[m] : m \in groups[r]} :
                       r \in {n \in Nodes : \E l, m \in groups[n] : l # m}} = Groups(S))
  <1> DEFINE Image(C) == {signal[m] : m \in C}
             Found == {Image(groups[r]) : r \in {n \in Nodes : \E l, m \in groups[n] : l # m}}
  <1>1. ClustersAreComponents => (stage = "done" /\ joined = J => Found = Groups(S))
    <2> SUFFICES ASSUME ClustersAreComponents, stage = "done", joined = J
                 PROVE  Found = Groups(S)
      OBVIOUS
    <2>1. {groups[r] : r \in {n \in Nodes : groups[n] # {}}} = {ComponentIn(n, J) : n \in Nodes}
      BY DEF ClustersAreComponents, Component
    <2>2. \A n \in Nodes : GroupOf(signal[n], S) = Image(ComponentIn(n, J))
      BY GroupIsComponent
    <2>3. \A n \in Nodes : ComponentIn(n, J) \subseteq Nodes
      BY ComponentIsClosed
    <2>4. ASSUME NEW r \in Nodes, \E l, m \in groups[r] : l # m
          PROVE  Image(groups[r]) \in Groups(S)
      <3>1. PICK n \in Nodes : groups[r] = ComponentIn(n, J)
        BY <2>1, <2>4
      <3>2. Image(groups[r]) = GroupOf(signal[n], S)
        BY <2>2, <3>1
      <3>3. PICK l, m \in Nodes : l \in groups[r] /\ m \in groups[r] /\ l # m
        BY <2>3, <2>4, <3>1
      <3>4. signal[l] # signal[m]
        BY <3>3 DEF Numbering
      <3>5. \E s, t \in GroupOf(signal[n], S) : s # t
        BY <3>2, <3>3, <3>4
      <3> QED
        BY <3>2, <3>5 DEF Groups, Numbering
    <2>5. ASSUME NEW g \in Groups(S)
          PROVE  g \in Found
      <3>1. PICK n \in Nodes : g = GroupOf(signal[n], S)
        BY DEF Groups, Numbering
      <3>2. PICK r \in Nodes : groups[r] = ComponentIn(n, J)
        BY <2>1
      <3>3. g = Image(groups[r])
        BY <2>2, <3>1, <3>2
      <3>4. \E l, m \in groups[r] : l # m
        BY <3>3 DEF Groups
      <3> QED
        BY <3>3, <3>4
    <2> QED
      BY <2>4, <2>5
  <1> QED
    BY <1>1, ClustersCorrect, PTL
=============================================================================
