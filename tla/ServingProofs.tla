--------------------------- MODULE ServingProofs ---------------------------
(***************************************************************************)
(* For every set of arrivals, jobs, sources and evidence: what the screen  *)
(* of a session misses, what stands behind a job that is done, what a walk *)
(* through the pages of a window returns, that evidence sinks nothing, and *)
(* that what a reader is shown adds up.                                    *)
(***************************************************************************)
EXTENDS Serving, FiniteSetTheorems, SequenceTheorems, NaturalsInduction, WellFoundedInduction, TLAPS

\* A set of naturals that is not empty has a least one, and one that is bounded
\* has a greatest.
LEMMA Least ==
    ASSUME NEW T \in SUBSET Nat, T # {}
    PROVE  \E m \in T : \A n \in T : m <= n
  <1>1. \E m \in T : \A n \in T : ~(<<n, m>> \in OpToRel(<, Nat))
    BY NatLessThanWellFounded, WFMin
  <1>2. PICK m \in T : \A n \in T : ~(<<n, m>> \in OpToRel(<, Nat))
    BY <1>1
  <1>3. \A n \in T : ~(n < m)
    BY <1>2 DEF OpToRel
  <1>4. m \in Nat
    OBVIOUS
  <1> QED
    BY <1>3, <1>4

LEMMA Greatest ==
    ASSUME NEW T \in SUBSET Nat, T # {}, NEW b \in Nat, \A n \in T : n <= b
    PROVE  Max(T) \in T /\ \A n \in T : n <= Max(T)
  <1> DEFINE Bounds == {m \in Nat : \A n \in T : n <= m}
  <1>1. PICK m \in Bounds : \A n \in Bounds : m <= n
    <2>1. Bounds \in SUBSET Nat /\ Bounds # {}
      OBVIOUS
    <2> HIDE DEF Bounds
    <2> QED
      BY <2>1, Least
  <1>2. m \in T
    <2> SUFFICES ASSUME m \notin T
                 PROVE  FALSE
      OBVIOUS
    <2>1. \A n \in T : n < m
      BY <1>1
    <2>2. m > 0 /\ m - 1 \in Nat
      <3>1. PICK n \in T : TRUE
        OBVIOUS
      <3> QED
        BY <1>1, <2>1, <3>1
    <2>3. m - 1 \in Bounds
      BY <2>1, <2>2
    <2> QED
      BY <1>1, <2>2, <2>3
  <1> QED
    BY <1>1, <1>2 DEF Max

-----------------------------------------------------------------------------
(* Ranks, and the entries of a sequence.                                     *)

\* R orders the set S; Below is who comes before x.
Orders(R, S) ==
    /\ \A x \in S : <<x, x>> \notin R
    /\ \A x, y, z \in S : <<x, y>> \in R /\ <<y, z>> \in R => <<x, z>> \in R
    /\ \A x, y \in S : x # y => <<x, y>> \in R \/ <<y, x>> \in R
Below(x, R, S) == {y \in S : <<y, x>> \in R}

\* In a finite set that is ordered, ranks are different and every one is taken.
LEMMA RanksFill ==
    ASSUME NEW S, IsFiniteSet(S), NEW R, Orders(R, S)
    PROVE  /\ Cardinality(S) \in Nat
           /\ \A x \in S : Cardinality(Below(x, R, S)) \in 0..(Cardinality(S) - 1)
           /\ \A x, y \in S : Cardinality(Below(x, R, S)) = Cardinality(Below(y, R, S)) => x = y
           /\ \A n \in 1..Cardinality(S) : \E x \in S : Cardinality(Below(x, R, S)) = n - 1
  <1> DEFINE c == Cardinality(S)
             rank == [x \in S |-> Cardinality(Below(x, R, S))]
  <1>1. c \in Nat
    BY FS_CardinalityType
  <1>2. ASSUME NEW x \in S
        PROVE  IsFiniteSet(Below(x, R, S)) /\ Cardinality(Below(x, R, S)) \in 0..(c - 1)
    <2>1. Below(x, R, S) \in SUBSET S /\ x \in S \ Below(x, R, S)
      BY DEF Below, Orders
    <2>2. /\ IsFiniteSet(Below(x, R, S)) /\ Cardinality(Below(x, R, S)) \in Nat
          /\ Cardinality(Below(x, R, S)) <= c
      BY <2>1, FS_Subset, FS_CardinalityType
    <2>3. Cardinality(Below(x, R, S)) # c
      BY <2>1, FS_Subset
    <2> QED
      BY <1>1, <2>2, <2>3
  <1>3. rank \in [S -> 0..(c - 1)]
    BY <1>2
  <1>4. ASSUME NEW x \in S, NEW y \in S, <<x, y>> \in R
        PROVE  rank[x] # rank[y]
    <2>1. Below(x, R, S) \in SUBSET Below(y, R, S) /\ x \in Below(y, R, S) \ Below(x, R, S)
      BY <1>4 DEF Below, Orders
    <2>2. Cardinality(Below(x, R, S)) # Cardinality(Below(y, R, S))
      BY <1>2, <2>1, FS_Subset
    <2> QED
      BY <2>2
  <1>5. ASSUME NEW x \in S, NEW y \in S, rank[x] = rank[y]
        PROVE  x = y
    <2> HIDE DEF rank
    <2> QED
      BY <1>4, <1>5 DEF Orders
  <1>6. rank \in Surjection(S, 0..(c - 1))
    <2>1. IsFiniteSet(0..(c - 1)) /\ Cardinality(0..(c - 1)) = c
      BY <1>1, FS_Interval
    <2> HIDE DEF rank, c
    <2>2. rank \in Injection(S, 0..(c - 1))
      BY <1>3, <1>5 DEF Injection, IsInjective
    <2> QED
      BY <2>1, <2>2, FS_Injection DEF c
  <1>7. ASSUME NEW n \in 1..c
        PROVE  \E x \in S : rank[x] = n - 1
    <2>1. n - 1 \in 0..(c - 1)
      BY <1>1
    <2> HIDE DEF rank
    <2> QED
      BY <1>6, <2>1 DEF Surjection
  <1> QED
    BY <1>1, <1>2, <1>5, <1>7

LEMMA NthProperties ==
    ASSUME NEW S \in SUBSET Nat, IsFiniteSet(S)
    PROVE  /\ Cardinality(S) \in Nat
           /\ \A n \in 1..Cardinality(S) : Nth(S, n) \in S
           /\ \A m, n \in 1..Cardinality(S) : Nth(S, m) = Nth(S, n) => m = n
           /\ \A i \in S : \E n \in 1..Cardinality(S) : Nth(S, n) = i
  <1> DEFINE R == {p \in S \X S : p[1] < p[2]}
             rank(i) == Cardinality({j \in S : j < i})
  <1>1. \A i, j \in S : <<i, j>> \in R <=> i < j
    OBVIOUS
  <1>2. \A i \in S : Below(i, R, S) = {j \in S : j < i}
    BY <1>1 DEF Below
  <1>3. Orders(R, S)
    BY <1>1 DEF Orders
  <1> HIDE DEF R
  <1>4. /\ Cardinality(S) \in Nat
        /\ \A i \in S : rank(i) \in 0..(Cardinality(S) - 1)
        /\ \A i, j \in S : rank(i) = rank(j) => i = j
        /\ \A n \in 1..Cardinality(S) : \E i \in S : rank(i) = n - 1
    <2>1. \A i \in S : rank(i) = Cardinality(Below(i, R, S))
      BY <1>2
    <2>2. /\ Cardinality(S) \in Nat
          /\ \A i \in S : Cardinality(Below(i, R, S)) \in 0..(Cardinality(S) - 1)
          /\ \A i, j \in S : Cardinality(Below(i, R, S)) = Cardinality(Below(j, R, S)) => i = j
          /\ \A n \in 1..Cardinality(S) : \E i \in S : Cardinality(Below(i, R, S)) = n - 1
      BY <1>3, RanksFill
    <2> HIDE DEF rank
    <2> QED
      BY <2>1, <2>2
  <1>5. \A n : Nth(S, n) = CHOOSE i \in S : rank(i) = n - 1
    BY DEF Nth
  <1> HIDE DEF rank
  <1>6. ASSUME NEW n \in 1..Cardinality(S)
        PROVE  Nth(S, n) \in S /\ rank(Nth(S, n)) = n - 1
    BY <1>4, <1>5
  <1>7. ASSUME NEW i \in S
        PROVE  \E n \in 1..Cardinality(S) : Nth(S, n) = i
    <2>1. rank(i) + 1 \in 1..Cardinality(S) /\ (rank(i) + 1) - 1 = rank(i)
      BY <1>4
    <2>2. rank(Nth(S, rank(i) + 1)) = rank(i)
      BY <1>6, <2>1
    <2> QED
      BY <1>4, <1>6, <2>1, <2>2
  <1>8. ASSUME NEW m \in 1..Cardinality(S), NEW n \in 1..Cardinality(S), Nth(S, m) = Nth(S, n)
        PROVE  m = n
    BY <1>4, <1>6, <1>8
  <1> QED
    BY <1>4, <1>6, <1>7, <1>8

\* c lists the entries of s at S, each once.
Lists(c, s, S) ==
    /\ c \in Seq({c[k] : k \in DOMAIN c})
    /\ \E at \in [DOMAIN c -> S] :
         /\ \A k \in DOMAIN c : c[k] = s[at[k]]
         /\ \A k, l \in DOMAIN c : at[k] = at[l] => k = l
         /\ \A i \in S : \E k \in DOMAIN c : at[k] = i

LEMMA IsSequence ==
    ASSUME NEW n \in Nat, NEW c, c = [k \in 1..n |-> c[k]]
    PROVE  /\ c \in Seq({c[k] : k \in DOMAIN c})
           /\ Len(c) = n /\ DOMAIN c = 1..n
  <1>1. DOMAIN c = 1..n
    OBVIOUS
  <1>2. c \in [1..n -> {c[k] : k \in DOMAIN c}]
    BY <1>1
  <1>3. c \in Seq({c[k] : k \in DOMAIN c})
    BY <1>2, SeqDef
  <1>4. Len(c) \in Nat /\ DOMAIN c = 1..Len(c)
    BY <1>3, LenProperties
  <1> QED
    BY <1>1, <1>3, <1>4

LEMMA SequenceIs ==
    ASSUME NEW S, NEW c \in Seq(S)
    PROVE  /\ Len(c) \in Nat /\ DOMAIN c = 1..Len(c) /\ c = [k \in 1..Len(c) |-> c[k]]
           /\ \A k \in DOMAIN c : c[k] \in S
           /\ c \in Seq({c[k] : k \in DOMAIN c})
  <1>1. Len(c) \in Nat /\ c \in [1..Len(c) -> S]
    BY LenProperties
  <1>2. c = [k \in 1..Len(c) |-> c[k]]
    BY <1>1
  <1> QED
    BY <1>1, <1>2, IsSequence

\* A set of indices chooses each of its entries once.
LEMMA ChosenLists ==
    ASSUME NEW s, NEW n \in Nat, NEW S \in SUBSET (1..n)
    PROVE  Lists(Chosen(s, S), s, S)
  <1> DEFINE c == Chosen(s, S)
             at == [k \in 1..Cardinality(S) |-> Nth(S, k)]
  <1>1. S \in SUBSET Nat /\ IsFiniteSet(S)
    <2>1. IsFiniteSet(1..n)
      BY FS_Interval
    <2>2. IsFiniteSet(S)
      BY <2>1, FS_Subset
    <2>3. S \in SUBSET Nat
      OBVIOUS
    <2> QED
      BY <2>2, <2>3
  <1>2. /\ Cardinality(S) \in Nat
        /\ \A k \in 1..Cardinality(S) : Nth(S, k) \in S
        /\ \A k, l \in 1..Cardinality(S) : Nth(S, k) = Nth(S, l) => k = l
        /\ \A i \in S : \E k \in 1..Cardinality(S) : Nth(S, k) = i
    BY <1>1, NthProperties
  <1>3. c = [k \in 1..Cardinality(S) |-> s[Nth(S, k)]]
    BY DEF Chosen
  <1>4. c = [k \in 1..Cardinality(S) |-> c[k]] /\ DOMAIN c = 1..Cardinality(S)
    BY <1>3
  <1>5. c \in Seq({c[k] : k \in DOMAIN c})
    <2> HIDE DEF c
    <2> QED
      BY <1>2, <1>4, IsSequence
  <1>6. at \in [DOMAIN c -> S]
    BY <1>2, <1>4
  <1>7. \A k \in DOMAIN c : c[k] = s[at[k]]
    BY <1>3
  <1>8. \A k, l \in DOMAIN c : at[k] = at[l] => k = l
    BY <1>2, <1>4
  <1>9. \A i \in S : \E k \in DOMAIN c : at[k] = i
    BY <1>2, <1>4
  <1> HIDE DEF c, at
  <1>10. Lists(c, s, S)
    BY <1>5, <1>6, <1>7, <1>8, <1>9 DEF Lists
  <1> QED
    BY <1>10 DEF c

\* A sequence without a repetition has as many entries as its length says.
LEMMA EachOnce ==
    ASSUME NEW n \in Nat, NEW f, DOMAIN f = 1..n, f = [k \in 1..n |-> f[k]],
           \A k, l \in 1..n : f[k] = f[l] => k = l
    PROVE  Cardinality({f[k] : k \in 1..n}) = n
  <1> DEFINE T == {f[k] : k \in 1..n}
  <1>1. IsFiniteSet(1..n) /\ Cardinality(1..n) = n
    <2> HIDE DEF T
    <2>1. 1 \in Int /\ n \in Int
      OBVIOUS
    <2>2. IsFiniteSet(1..n) /\ Cardinality(1..n) = IF 1 > n THEN 0 ELSE n - 1 + 1
      BY <2>1, FS_Interval
    <2> QED
      BY <2>2
  <1>2. f \in Surjection(1..n, T) /\ f \in Injection(1..n, T)
    BY DEF Surjection, Injection, IsInjective
  <1> HIDE DEF T
  <1>3. Cardinality(T) = Cardinality(1..n)
    BY <1>1, <1>2, FS_Surjection
  <1> QED
    BY <1>1, <1>3 DEF T

-----------------------------------------------------------------------------
(* The screen.                                                             *)

\* A request that is under way asks for no more than there is.
IsPull(p) ==
    /\ {"phase", "full", "scope", "since", "to", "rows", "missed", "base"} \subseteq DOMAIN p
    /\ p.phase \in {"asked", "answered", "moving"} => p.to \in Nat /\ p.to <= now
    /\ p.phase \in {"asked", "answered"} /\ ~p.full => p.since \in Nat /\ p.since <= now

\* Where a session can stand: no cursor is ahead of the clock.
SessionInv ==
    /\ now \in Nat
    /\ cursor \in Nat \cup {None} /\ (cursor # None => cursor <= now)
    /\ DOMAIN pulls = Slots /\ \A s \in Slots : IsPull(pulls[s])

\* What is on the list or about to be, or is lost with a reason.
Known == list \cup lost \cup Merging
Covered(to) == \A e \in Coming : e.ingest <= to => e.id \in Known

\* What the cursor of the session, or of a request under way, is past.
Accounted(p) ==
    /\ p.phase \in {"asked", "answered"} /\ ~p.full => Covered(p.since)
    /\ p.phase = "moving" => Covered(p.to)
    /\ p.phase = "answered" => \A e \in Coming : e.ingest <= p.to => e.id \in Known \cup p.rows \cup p.missed
ComingInv ==
    /\ \A e \in inFlight : EventFields \subseteq DOMAIN e
    /\ \A e \in Coming : e.ingest \in Nat /\ e.ingest <= now
    /\ \A e, f \in Coming : e.id = f.id => e = f
    /\ \A e \in inFlight, r \in table : e.id # r.id
    /\ cursor # None => Covered(cursor)
    /\ \A s \in Slots : Accounted(pulls[s])

ScreenInv == IF subject = "screen" THEN SessionInv /\ ComingInv ELSE cursor = None

LEMMA MergingIs ==
    ASSUME NEW id
    PROVE  id \in Merging <=> \E t \in Slots : pulls[t].phase = "merging" /\ id \in pulls[t].rows
  BY DEF Merging

LEMMA InitScreen == Init => ScreenInv
  <1> SUFFICES ASSUME Init, subject = "screen" PROVE SessionInv /\ ComingInv
    BY DEF Init, LiveInit, ScreenInv
  <1>1. now = 0 /\ Coming = {} /\ inFlight = {} /\ table = {} /\ cursor = None
    BY DEF Init, LiveInit, Coming
  <1>2. DOMAIN pulls = Slots /\ \A s \in Slots : pulls[s].phase \in {"new", "idle"}
    BY DEF Init, LiveInit, Nothing
  <1>3. \A s \in Slots : {"phase", "full", "scope", "since", "to", "rows", "missed", "base"} \subseteq DOMAIN pulls[s]
    BY DEF Init, LiveInit, Nothing
  <1> QED
    BY <1>1, <1>2, <1>3, NoneAssumption DEF SessionInv, ComingInv, IsPull, Accounted

\* Steps of others touch neither the session nor, if it is followed, the table.
LEMMA OtherScreen ==
    ASSUME ScreenInv, UNCHANGED <<subject, screenVars, now, inFlight>>,
           subject = "screen" => UNCHANGED table
    PROVE  ScreenInv'
  <1>1. CASE subject = "screen"
    <2>1. UNCHANGED <<subject, table, now, inFlight, list, lost, cursor, pulls>>
      BY <1>1 DEF screenVars
    <2> QED
      BY <1>1, <2>1
         DEF ScreenInv, SessionInv, ComingInv, Coming, IsPull, Known, Covered, Accounted, Merging
  <1>2. CASE subject # "screen"
    BY <1>2 DEF ScreenInv, screenVars
  <1> QED
    BY <1>1, <1>2

\* Where the events that come keep their ids and their times, or come later than
\* every cursor, everything stays accounted for.
LEMMA ComingMoves ==
    ASSUME SessionInv, ComingInv, UNCHANGED <<list, lost, cursor, pulls>>, now' \in Nat, now <= now',
           \A e \in Coming' : e.ingest > now \/ \E f \in Coming : f.id = e.id /\ f.ingest = e.ingest,
           \A e \in inFlight' : EventFields \subseteq DOMAIN e,
           \A e \in Coming' : e.ingest \in Nat /\ e.ingest <= now',
           \A e, f \in Coming' : e.id = f.id => e = f,
           \A e \in inFlight', r \in table' : e.id # r.id
    PROVE  SessionInv' /\ ComingInv'
  <1>1. UNCHANGED <<list, lost, cursor, pulls>> /\ Known' = Known
    BY DEF Known, Merging
  <1>2. SessionInv'
    BY <1>1 DEF SessionInv, IsPull
  <1>3. ASSUME NEW to \in Nat, to <= now, Covered(to)
        PROVE  Covered(to)'
    <2> SUFFICES ASSUME NEW e \in Coming', e.ingest <= to PROVE e.id \in Known'
      BY DEF Covered
    <2>1. PICK f \in Coming : f.id = e.id /\ f.ingest = e.ingest
      BY <1>3 DEF SessionInv
    <2> QED
      BY <1>1, <1>3, <2>1 DEF Covered
  <1>4. ASSUME NEW s \in Slots
        PROVE  Accounted(pulls[s])'
    <2> DEFINE p == pulls[s]
    <2>1. p' = p /\ IsPull(p) /\ Accounted(p)
      BY <1>1 DEF SessionInv, ComingInv
    <2> HIDE DEF p
    <2>2. p.phase \in {"asked", "answered"} /\ ~p.full => Covered(p.since)'
      BY <1>3, <2>1 DEF IsPull, Accounted
    <2>3. p.phase = "moving" => Covered(p.to)'
      BY <1>3, <2>1 DEF IsPull, Accounted
    <2>4. ASSUME p.phase = "answered", NEW e \in Coming', e.ingest <= p.to
          PROVE  e.id \in Known \cup p.rows \cup p.missed
      <3>1. p.to \in Nat /\ p.to <= now
        BY <2>1, <2>4 DEF IsPull
      <3>2. PICK f \in Coming : f.id = e.id /\ f.ingest = e.ingest
        BY <2>4, <3>1 DEF SessionInv
      <3> QED
        BY <2>1, <2>4, <3>2 DEF Accounted
    <2>5. Accounted(p)'
      BY <1>1, <2>1, <2>2, <2>3, <2>4 DEF Accounted, Covered
    <2> QED
      BY <2>5 DEF p
  <1>5. cursor' # None => Covered(cursor)'
    BY <1>1, <1>3 DEF SessionInv, ComingInv, Covered
  <1> QED
    BY <1>2, <1>4, <1>5 DEF ComingInv

\* An event is stamped after every cursor, and keeps its stamp in the table.
LEMMA StampScreen ==
    ASSUME ScreenInv, NEW e \in Arrivals, Stamp(e), UNCHANGED <<subject, table>>
    PROVE  ScreenInv'
  <1> DEFINE f == [e EXCEPT !.ingest = now']
  <1>1. EventFields \subseteq DOMAIN e
    BY ArrivalsAssumption DEF IsEvent
  <1>2. /\ f.ingest = now' /\ f.id = e.id
        /\ EventFields \subseteq DOMAIN f
    BY <1>1 DEF EventFields
  <1>3. now' = now + 1 /\ inFlight' = inFlight \cup {f} /\ UNCHANGED screenVars /\ \A g \in Coming : g.id # f.id
    BY <1>2 DEF Stamp, Ids
  <1>4. Coming' = Coming \cup {f}
    BY <1>3 DEF Coming
  <1> HIDE DEF f
  <1>5. ASSUME SessionInv, ComingInv
        PROVE  SessionInv' /\ ComingInv'
    <2>1. now \in Nat /\ now' \in Nat /\ now <= now' /\ f.ingest > now
      BY <1>2, <1>3, <1>5 DEF SessionInv
    <2>2. \A g \in inFlight' : EventFields \subseteq DOMAIN g
      BY <1>2, <1>3, <1>5 DEF ComingInv
    <2>3. \A g \in Coming' : g.ingest \in Nat /\ g.ingest <= now'
      BY <1>2, <1>3, <1>4, <1>5, <2>1 DEF ComingInv
    <2>4. \A g, h \in Coming' : g.id = h.id => g = h
      BY <1>3, <1>4, <1>5 DEF ComingInv
    <2>5. \A g \in inFlight', r \in table' : g.id # r.id
      BY <1>3, <1>5 DEF ComingInv, Coming
    <2>6. \A g \in Coming' : g.ingest > now \/ \E h \in Coming : h.id = g.id /\ h.ingest = g.ingest
      BY <1>4, <2>1
    <2> QED
      BY <1>3, <1>5, <2>1, <2>2, <2>3, <2>4, <2>5, <2>6, ComingMoves DEF screenVars
  <1> QED
    BY <1>3, <1>5 DEF ScreenInv, screenVars

LEMMA CommitScreen ==
    ASSUME ScreenInv, NEW e \in inFlight, Commit(e), UNCHANGED subject
    PROVE  ScreenInv'
  <1>1. UNCHANGED <<now, list, cursor, pulls, lost>>
    BY DEF Commit
  <1> DEFINE row == EventToRow(e)
  <1>2. ASSUME SessionInv, ComingInv
        PROVE  SessionInv' /\ ComingInv'
    <2>1. EventFields \subseteq DOMAIN e /\ e \in Coming
      BY <1>2 DEF ComingInv, Coming
    <2>2. row.id = e.id /\ row.ingest = e.ingest
      BY <2>1 DEF EventToRow, EventFields
    <2>3. inFlight' = inFlight \ {e}
      BY DEF Commit
    <2>4. table' = table \cup {row}
      <3>1. \A r \in table : r.id # e.id
        BY <1>2 DEF ComingInv
      <3>2. {r \in table : \A f \in {e} : f.id # r.id} = table
        BY <3>1
      <3>3. {r \in table : r.id = e.id} = {}
        BY <3>1
      <3> HIDE DEF row
      <3>4. UpsertMany(table, {e}) = table \cup {row}
        BY <3>2, <3>3 DEF UpsertMany, row
      <3> QED
        BY <3>4 DEF Commit
    <2> HIDE DEF row
    <2>5. Coming' = (Coming \ {e}) \cup {row}
      BY <1>2, <2>3, <2>4 DEF ComingInv, Coming
    <2>6. \A f \in Coming : f # e => f.id # e.id
      BY <1>2, <2>1 DEF ComingInv
    <2>7. \A f \in Coming' : \E g \in Coming : g.id = f.id /\ g.ingest = f.ingest
      BY <2>1, <2>2, <2>5
    <2>8. \A f, g \in Coming' : f.id = g.id => f = g
      BY <1>2, <2>2, <2>5, <2>6 DEF ComingInv
    <2>9. \A f \in inFlight', r \in table' : f.id # r.id
      BY <1>2, <2>2, <2>3, <2>4, <2>6 DEF ComingInv, Coming
    <2>10. /\ \A f \in inFlight' : EventFields \subseteq DOMAIN f
           /\ \A f \in Coming' : f.ingest \in Nat /\ f.ingest <= now
      BY <1>2, <2>3, <2>7 DEF ComingInv
    <2> QED
      BY <1>1, <1>2, <2>7, <2>8, <2>9, <2>10, ComingMoves DEF SessionInv
  <1> QED
    BY <1>1, <1>2 DEF ScreenInv

\* A step of the session that loses nothing without a reason: what is known
\* grows, only one request moves on, and the cursor moves to what is covered.
Followed == subject = "screen" /\ SessionInv /\ ComingInv /\ UNCHANGED <<subject, table, now, inFlight>>
LEMMA SessionMoves ==
    ASSUME Followed, Known \subseteq Known', NEW s \in Slots, DOMAIN pulls' = Slots,
           \A t \in Slots \ {s} : pulls'[t] = pulls[t],
           IsPull(pulls[s])', Accounted(pulls[s])',
           cursor' = cursor \/ (cursor' \in Nat /\ cursor' <= now /\ Covered(cursor)')
    PROVE  ScreenInv'
  <1>1. SessionInv /\ ComingInv /\ Coming' = Coming /\ now' = now
    BY DEF Followed, Coming
  <1>2. \A to : Covered(to) => Covered(to)'
    BY <1>1 DEF Covered
  <1>3. ASSUME NEW t \in Slots
        PROVE  IsPull(pulls[t])' /\ Accounted(pulls[t])'
    <2>1. CASE t = s
      BY <2>1
    <2>2. CASE t # s
      <3>1. pulls'[t] = pulls[t] /\ IsPull(pulls[t]) /\ Accounted(pulls[t])
        BY <1>1, <2>2 DEF SessionInv, ComingInv
      <3>2. IsPull(pulls[t])'
        BY <1>1, <3>1 DEF IsPull
      <3>3. Accounted(pulls[t])'
        BY <1>1, <1>2, <3>1 DEF Accounted
      <3> QED
        BY <3>2, <3>3
    <2> QED
      BY <2>1, <2>2
  <1>4. cursor' # None => Covered(cursor)'
    <2>1. CASE cursor' = cursor
      BY <1>1, <1>2, <2>1 DEF ComingInv, Covered
    <2> QED
      BY <2>1
  <1>5. SessionInv'
    BY <1>1, <1>3 DEF SessionInv
  <1>6. ComingInv'
    BY <1>1, <1>3, <1>4 DEF ComingInv, Followed
  <1> QED
    BY <1>5, <1>6 DEF ScreenInv, Followed

\* Merging keeps the rows of the requests that do not move.
LEMMA MergingStays ==
    ASSUME NEW s \in Slots, \A t \in Slots \ {s} : pulls'[t] = pulls[t],
           pulls[s].phase # "merging"
    PROVE  Merging \subseteq Merging'
  <1> SUFFICES ASSUME NEW id \in Merging PROVE id \in Merging'
    OBVIOUS
  <1>1. PICK t \in Slots : pulls[t].phase = "merging" /\ id \in pulls[t].rows
    BY MergingIs
  <1>2. pulls'[t] = pulls[t]
    BY <1>1
  <1> QED
    BY <1>1, <1>2 DEF Merging

LEMMA ListGrows ==
    /\ \A ids, passes : SetEvents(ids, passes) => list \cup lost \cup passes \cup ids \subseteq list' \cup lost'
    /\ \A delta, base : AppendEvents(delta, base) => list \cup lost \cup delta \cup base \subseteq list' \cup lost'
  BY DEF SetEvents, AppendEvents

\* Where no cursor and no request moves.
LEMMA NothingMoves ==
    ASSUME Followed, UNCHANGED <<cursor, pulls>>, list \cup lost \subseteq list' \cup lost'
    PROVE  ScreenInv'
  <1>1. Known \subseteq Known'
    BY DEF Known, Merging
  <1>2. PICK s \in Slots : TRUE
    BY DEF Slots
  <1>3. SessionInv /\ ComingInv /\ Coming' = Coming /\ now' = now
    BY DEF Followed, Coming
  <1>4. IsPull(pulls[s])'
    BY <1>3 DEF SessionInv, IsPull
  <1>5. Accounted(pulls[s])'
    BY <1>1, <1>3 DEF ComingInv, Accounted, Covered
  <1> QED
    BY <1>1, <1>3, <1>4, <1>5, SessionMoves DEF SessionInv

\* Where a request begins or ends, or the reply to one is made.
LEMMA PullMoves ==
    ASSUME Followed, NEW s \in Slots, NEW p, pulls' = [pulls EXCEPT ![s] = p], UNCHANGED <<cursor, list, lost>>,
           pulls[s].phase # "merging", IsPull(p), Accounted(p)
    PROVE  ScreenInv'
  <1>1. SessionInv /\ ComingInv /\ Coming' = Coming /\ now' = now
    BY DEF Followed, Coming
  <1>2. pulls'[s] = p /\ DOMAIN pulls' = Slots /\ \A t \in Slots \ {s} : pulls'[t] = pulls[t]
    BY <1>1 DEF SessionInv
  <1>3. Known \subseteq Known'
    BY <1>2, MergingStays DEF Known
  <1>4. IsPull(pulls[s])'
    BY <1>1, <1>2 DEF IsPull
  <1>5. Accounted(pulls[s])'
    BY <1>1, <1>2, <1>3 DEF Accounted, Covered
  <1> QED
    BY <1>2, <1>3, <1>4, <1>5, SessionMoves

\* A delta is asked for from a cursor that is covered.
LEMMA RequestIs ==
    ASSUME SessionInv, ComingInv, NEW full \in BOOLEAN, NEW sc, cursor = None => full
    PROVE  Request(full, sc).phase = "asked" /\ IsPull(Request(full, sc)) /\ Accounted(Request(full, sc))
  <1> DEFINE p == Request(full, sc)
  <1>1. /\ {"phase", "full", "scope", "since", "to", "rows", "missed", "base"} \subseteq DOMAIN p
        /\ p.phase = "asked" /\ p.full = full /\ p.to = now /\ p.since = IF full THEN None ELSE cursor
    BY DEF Request, Nothing
  <1> HIDE DEF p
  <1>2. ~full => cursor \in Nat /\ cursor <= now /\ Covered(cursor)
    BY DEF SessionInv, ComingInv
  <1>3. IsPull(p)
    BY <1>1, <1>2 DEF IsPull, SessionInv
  <1>4. Accounted(p)
    BY <1>1, <1>2 DEF Accounted
  <1> QED
    BY <1>1, <1>3, <1>4 DEF p
LEMMA DeltaRequestIs ==
    ASSUME SessionInv, ComingInv
    PROVE  FetchEventDelta.phase = "asked" /\ IsPull(FetchEventDelta) /\ Accounted(FetchEventDelta)
  BY RequestIs DEF FetchEventDelta

\* The next cursor of a delta is no later than the clock.
LEMMA DeltaNext ==
    ASSUME now \in Nat, \A e \in Coming : e.ingest \in Nat /\ e.ingest <= now,
           NEW since \in Nat, since <= now
    PROVE  EventsDelta(since).next \in Nat /\ EventsDelta(since).next <= now
  <1> DEFINE rows == Page({r \in table : Later(r.ingest, since)}, LAMBDA r : <<r.ingest, r.id>>, DeltaLimit, 0)
             times == {r.ingest : r \in rows}
  <1>1. EventsDelta(since).next = IF rows = {} THEN since ELSE Max(times)
    BY DEF EventsDelta
  <1>2. rows \subseteq table
    BY DEF Page
  <1> HIDE DEF rows
  <1>3. times \in SUBSET Nat /\ \A t \in times : t <= now
    BY <1>2 DEF Coming
  <1>4. rows # {} => times # {}
    OBVIOUS
  <1>5. rows # {} => Max(times) \in times
    BY <1>3, <1>4, Greatest
  <1> QED
    BY <1>1, <1>3, <1>5

\* A reply accounts for everything its cursor passes.
LEMMA AnswerScreen ==
    ASSUME Followed, NEW s \in Slots, Answer(s)
    PROVE  ScreenInv'
  <1> DEFINE p == pulls[s]
             reply == IF p.full THEN [rows |-> FullPull(p.scope, p.to), next |-> p.to] ELSE EventsDelta(p.since)
             passes == {e \in Coming : e.ingest <= reply.next /\ (p.full \/ e.ingest > p.since)}
             q == [p EXCEPT !.phase = "answered", !.rows = reply.rows, !.to = reply.next, !.missed = Ids(passes) \ reply.rows]
  <1>1. SessionInv /\ ComingInv /\ p.phase = "asked" /\ IsPull(p) /\ Accounted(p)
    BY DEF Followed, Answer, SessionInv, ComingInv
  <1>2. pulls' = [pulls EXCEPT ![s] = q] /\ UNCHANGED <<cursor, list, lost>>
    BY DEF Answer
  <1>3. reply.next \in Nat /\ reply.next <= now
    BY <1>1, DeltaNext DEF IsPull, SessionInv, ComingInv
  <1>4. /\ {"phase", "full", "scope", "since", "to", "rows", "missed", "base"} \subseteq DOMAIN q
        /\ q.phase = "answered" /\ q.rows = reply.rows /\ q.missed = Ids(passes) \ reply.rows
        /\ q.to = reply.next /\ q.full = p.full /\ q.since = p.since
    BY <1>1 DEF IsPull
  <1> HIDE DEF reply, q
  <1>5. IsPull(q)
    BY <1>1, <1>3, <1>4 DEF IsPull
  <1>6. ASSUME NEW e \in Coming, e.ingest <= reply.next
        PROVE  e.id \in Known \cup q.rows \cup q.missed
    <2>1. CASE e \in passes
      BY <1>4, <2>1 DEF Ids
    <2>2. CASE e \notin passes
      <3>1. ~p.full /\ p.since \in Nat /\ e.ingest \in Nat /\ ~(e.ingest > p.since) /\ Covered(p.since)
        BY <1>1, <1>6, <2>2 DEF IsPull, ComingInv, Accounted
      <3> QED
        BY <3>1 DEF Covered
    <2> QED
      BY <2>1, <2>2
  <1>7. Accounted(q)
    BY <1>1, <1>4, <1>6 DEF Accounted
  <1> QED
    BY <1>1, <1>2, <1>5, <1>7, PullMoves

LEMMA NothingIs == Nothing.phase = "idle" /\ IsPull(Nothing) /\ Accounted(Nothing)
  BY DEF Nothing, IsPull, Accounted

\* What a full pull brings or misses is accounted for when the list is replaced,
\* before the cursor moves.
LEMMA AllScreen ==
    ASSUME Followed, NEW s \in Slots, NEW ok \in BOOLEAN, ReceiveAll(s, ok)
    PROVE  ScreenInv'
  <1> DEFINE p == pulls[s]
             q == [Nothing EXCEPT !.phase = "moving", !.to = p.to]
             passes == IF ok THEN p.missed ELSE Ids({e \in Coming : e.ingest <= p.to})
  <1>1. SessionInv /\ ComingInv /\ p.phase = "answered" /\ IsPull(p) /\ Accounted(p)
    BY DEF Followed, ReceiveAll, SessionInv, ComingInv
  <1>2. PICK ids \in IF ok /\ p.rows # {} THEN {p.rows} ELSE SUBSET Ids(table) : SetEvents(ids, passes)
    BY DEF ReceiveAll
  <1>3. list \cup lost \cup passes \cup ids \subseteq list' \cup lost'
    BY <1>2, ListGrows
  <1>4. pulls' = [pulls EXCEPT ![s] = q] /\ UNCHANGED cursor
    BY DEF ReceiveAll
  <1>5. /\ {"phase", "full", "scope", "since", "to", "rows", "missed", "base"} \subseteq DOMAIN q
        /\ q.phase = "moving" /\ q.to = p.to
    BY DEF Nothing
  <1>6. pulls'[s] = q /\ DOMAIN pulls' = Slots /\ \A t \in Slots \ {s} : pulls'[t] = pulls[t]
    BY <1>1, <1>4 DEF SessionInv
  <1>7. Known \subseteq Known'
    BY <1>1, <1>3, <1>6, MergingStays DEF Known
  <1>8. Coming' = Coming /\ now' = now
    BY DEF Followed, Coming
  <1>9. ASSUME NEW e \in Coming, e.ingest <= p.to
        PROVE  e.id \in Known'
    <2>1. CASE ok
      BY <1>1, <1>2, <1>3, <1>7, <1>9, <2>1 DEF Accounted, Known
    <2>2. CASE ~ok
      <3>1. e.id \in passes
        BY <1>9, <2>2 DEF Ids
      <3> QED
        BY <1>3, <3>1 DEF Known
    <2> QED
      BY <2>1, <2>2
  <1> HIDE DEF q
  <1>10. IsPull(pulls[s])'
    BY <1>1, <1>5, <1>6, <1>8 DEF IsPull
  <1>11. Accounted(pulls[s])'
    BY <1>5, <1>6, <1>8, <1>9 DEF Accounted, Covered
  <1> QED
    BY <1>4, <1>6, <1>7, <1>10, <1>11, SessionMoves

LEMMA CursorScreen ==
    ASSUME Followed, NEW s \in Slots, MoveCursor(s)
    PROVE  ScreenInv'
  <1>1. SessionInv /\ ComingInv /\ pulls[s].phase = "moving" /\ IsPull(pulls[s]) /\ Accounted(pulls[s])
    BY DEF Followed, MoveCursor, SessionInv, ComingInv
  <1>2. cursor' = pulls[s].to /\ pulls' = [pulls EXCEPT ![s] = Nothing] /\ UNCHANGED <<list, lost>>
    BY DEF MoveCursor
  <1>3. pulls'[s] = Nothing /\ DOMAIN pulls' = Slots /\ \A t \in Slots \ {s} : pulls'[t] = pulls[t]
    BY <1>1, <1>2 DEF SessionInv
  <1>4. Known \subseteq Known'
    BY <1>1, <1>2, <1>3, MergingStays DEF Known
  <1>5. Coming' = Coming /\ now' = now
    BY DEF Followed, Coming
  <1>6. cursor' \in Nat /\ cursor' <= now /\ Covered(cursor)'
    BY <1>1, <1>2, <1>4, <1>5 DEF IsPull, Accounted, Covered
  <1>7. IsPull(pulls[s])' /\ Accounted(pulls[s])'
    BY <1>3 DEF Nothing, IsPull, Accounted
  <1> QED
    BY <1>3, <1>4, <1>6, <1>7, SessionMoves

\* A delta moves the cursor to where the reply accounted for everything, and
\* what it brings is about to be on the list.
LEMMA DeltaScreen ==
    ASSUME Followed, NEW s \in Slots, NEW ok \in BOOLEAN, ReceiveDelta(s, ok)
    PROVE  ScreenInv'
  <1> DEFINE p == pulls[s]
             merging == [Nothing EXCEPT !.phase = "merging", !.rows = p.rows, !.base = list]
             q == IF ok /\ p.rows # {} THEN merging ELSE Nothing
  <1>1. SessionInv /\ ComingInv /\ p.phase = "answered" /\ IsPull(p) /\ Accounted(p)
    BY DEF Followed, ReceiveDelta, SessionInv, ComingInv
  <1>2. /\ cursor' = (IF ok THEN p.to ELSE cursor) /\ UNCHANGED list
        /\ lost' = IF ok THEN (lost \cup (p.missed \ list)) \ p.rows ELSE lost
        /\ pulls' = [pulls EXCEPT ![s] = q]
    BY DEF ReceiveDelta
  <1>3. /\ {"phase", "full", "scope", "since", "to", "rows", "missed", "base"} \subseteq DOMAIN q
        /\ q.phase \in {"merging", "idle"} /\ (ok /\ p.rows # {} => q.phase = "merging" /\ q.rows = p.rows)
    BY DEF Nothing
  <1> HIDE DEF q
  <1>4. pulls'[s] = q /\ DOMAIN pulls' = Slots /\ \A t \in Slots \ {s} : pulls'[t] = pulls[t]
    BY <1>1, <1>2 DEF SessionInv
  <1>5. Merging \subseteq Merging' /\ (ok => p.rows \subseteq Merging')
    <2>1. Merging \subseteq Merging'
      BY <1>1, <1>4, MergingStays
    <2>2. ASSUME ok, NEW id \in p.rows
          PROVE  id \in Merging'
      BY <1>3, <1>4, <2>2 DEF Merging
    <2> QED
      BY <2>1, <2>2
  <1>6. list \cup lost \subseteq Known' /\ (ok => p.rows \cup p.missed \subseteq Known')
    BY <1>2, <1>5 DEF Known
  <1>7. Known \subseteq Known'
    BY <1>5, <1>6 DEF Known
  <1>8. Coming' = Coming /\ now' = now
    BY DEF Followed, Coming
  <1>9. cursor' = cursor \/ (cursor' \in Nat /\ cursor' <= now /\ Covered(cursor)')
    <2>1. ASSUME ok
          PROVE  \A e \in Coming : e.ingest <= p.to => e.id \in Known'
      BY <1>1, <1>6, <1>7, <2>1 DEF Accounted
    <2>2. ok => Covered(cursor)'
      BY <1>2, <1>8, <2>1 DEF Covered
    <2> QED
      BY <1>1, <1>2, <2>2 DEF IsPull
  <1>10. IsPull(pulls[s])' /\ Accounted(pulls[s])'
    BY <1>3, <1>4 DEF IsPull, Accounted
  <1> QED
    BY <1>4, <1>7, <1>9, <1>10, SessionMoves

LEMMA MergeScreen ==
    ASSUME Followed, NEW s \in Slots, Merge(s)
    PROVE  ScreenInv'
  <1>1. SessionInv /\ ComingInv /\ pulls[s].phase = "merging"
    BY DEF Followed, Merge
  <1>2. pulls' = [pulls EXCEPT ![s] = Nothing] /\ UNCHANGED cursor
    BY DEF Merge
  <1>3. pulls'[s] = Nothing /\ DOMAIN pulls' = Slots /\ \A t \in Slots \ {s} : pulls'[t] = pulls[t]
    BY <1>1, <1>2 DEF SessionInv
  <1>4. list \cup lost \cup pulls[s].rows \subseteq list' \cup lost'
    BY ListGrows DEF Merge
  <1>5. ASSUME NEW id \in Merging
        PROVE  id \in Known'
    <2>1. PICK t \in Slots : pulls[t].phase = "merging" /\ id \in pulls[t].rows
      BY MergingIs
    <2>2. CASE t = s
      BY <1>4, <2>1, <2>2 DEF Known
    <2>3. CASE t # s
      <3>1. pulls'[t] = pulls[t]
        BY <1>3, <2>3
      <3> QED
        BY <2>1, <3>1 DEF Known, Merging
    <2> QED
      BY <2>2, <2>3
  <1>6. Known \subseteq Known'
    BY <1>4, <1>5 DEF Known
  <1>7. IsPull(pulls[s])' /\ Accounted(pulls[s])'
    BY <1>3 DEF Nothing, IsPull, Accounted
  <1> QED
    BY <1>2, <1>3, <1>6, <1>7, SessionMoves

\* A request begins where none is under way.
LEMMA BeginsScreen ==
    ASSUME Followed, Drain \/ Warm \/ RefreshEvents
    PROVE  ScreenInv'
  <1>1. SessionInv /\ ComingInv
    BY DEF Followed
  <1>2. {"drain", "warm", "page"} = Slots
    BY DEF Slots
  <1>3. CASE Drain
    <2>1. UNCHANGED <<list, cursor, lost>> /\ pulls["drain"].phase = "idle"
      BY <1>3 DEF Drain
    <2>2. CASE timer.pending
      BY <1>1, <1>2, <1>3, <2>1, <2>2, DeltaRequestIs, PullMoves DEF Drain
    <2>3. CASE ~timer.pending
      BY <1>3, <2>1, <2>3, NothingMoves DEF Drain
    <2> QED
      BY <2>2, <2>3
  <1>4. CASE Warm
    BY <1>1, <1>2, <1>4, DeltaRequestIs, PullMoves DEF Warm
  <1>5. CASE RefreshEvents
    <2>1. PICK sc \in Scopes : pulls' = [pulls EXCEPT !["page"] = Request(TRUE, sc)]
      BY <1>5 DEF RefreshEvents
    <2>2. UNCHANGED <<list, cursor, lost>> /\ pulls["page"].phase = "idle"
      BY <1>5 DEF RefreshEvents
    <2>3. Request(TRUE, sc).phase = "asked" /\ IsPull(Request(TRUE, sc)) /\ Accounted(Request(TRUE, sc))
      BY <1>1, RequestIs
    <2> QED
      BY <1>2, <2>1, <2>2, <2>3, PullMoves
  <1> QED
    BY <1>3, <1>4, <1>5

\* The other steps of the session move neither its cursor nor a request, and the
\* other sessions take nothing off the list without a reason.
LEMMA OthersScreen ==
    ASSUME Followed, Elapse \/ Recovery \/ Reconnect \/ Disconnect \/ Others
    PROVE  ScreenInv'
  <1>1. UNCHANGED <<cursor, pulls>>
    BY DEF Elapse, Recovery, Reconnect, Disconnect, Others, ScheduleRefresh
  <1>2. list \cup lost \subseteq list' \cup lost'
    <2>1. CASE Others
      <3>1. \/ UNCHANGED <<list, lost>>
            \/ \E delta : AppendEvents(delta, other)
            \/ \E ids : SetEvents(ids, {})
        BY <2>1 DEF Others
      <3> QED
        BY <3>1, ListGrows
    <2>2. CASE ~Others
      BY <2>2 DEF Elapse, Recovery, Reconnect, Disconnect, ScheduleRefresh
    <2> QED
      BY <2>1, <2>2
  <1> QED
    BY <1>1, <1>2, NothingMoves

LEMMA ScreenStep ==
    ASSUME ScreenInv, [Next]_vars
    PROVE  ScreenInv'
  <1>1. CASE JobsServed
    BY <1>1, OtherScreen DEF JobsServed, Serve, liveVars
  <1>2. CASE Stored
    <2>1. CASE \E e \in Arrivals : Stamp(e) /\ UNCHANGED table
      BY <1>2, <2>1, StampScreen DEF Stored
    <2>2. CASE \E e \in inFlight : Commit(e)
      BY <1>2, <2>2, CommitScreen DEF Stored
    <2> QED
      BY <1>2, <2>1, <2>2 DEF Stored
  <1>3. CASE ScreenServed
    <2>1. Followed
      BY <1>3 DEF ScreenServed, Session, Serve, Followed, ScreenInv
    <2>2. SessionStep \/ SessionIncident
      BY <1>3 DEF ScreenServed, Session
    <2>3. CASE \E s \in Slots : PullStep(s)
      BY <2>1, <2>3, AnswerScreen, CursorScreen, MergeScreen DEF PullStep
    <2>4. CASE \E s \in Slots : Receive(s)
      <3>1. PICK s \in Slots, ok \in BOOLEAN : ReceiveAll(s, ok) \/ ReceiveDelta(s, ok)
        BY <2>4 DEF Receive
      <3> QED
        BY <2>1, <3>1, AllScreen, DeltaScreen
    <2> QED
      BY <2>1, <2>2, <2>3, <2>4, BeginsScreen, OthersScreen DEF SessionStep, SessionIncident
  <1>4. CASE ViewsServed
    BY <1>4, OtherScreen DEF ViewsServed, Serve
  <1>5. CASE ReaderServed
    BY <1>5, OtherScreen DEF ReaderServed, Serve, liveVars
  <1>6. CASE WalkerServed
    BY <1>6, OtherScreen DEF WalkerServed, Serve, liveVars
  <1>7. CASE UNCHANGED vars
    BY <1>7, OtherScreen DEF vars, liveVars
  <1> QED
    BY <1>1, <1>2, <1>3, <1>4, <1>5, <1>6, <1>7 DEF Next

\* An event in the table that the cursor of a session passed is on the list or
\* about to be, or it was passed or displaced for one of the reasons there are.
THEOREM EveryMissExplained == Spec => []MissesExplained
  <1>1. ScreenInv => MissesExplained
    BY DEF ScreenInv, SessionInv, ComingInv, Covered, Known, Coming, MissesExplained
  <1> QED
    BY <1>1, InitScreen, ScreenStep, PTL DEF Spec

-----------------------------------------------------------------------------
(* Actors and places.                                                      *)

LEMMA ActorsAre ==
    ASSUME NEW actors, AreActors(actors)
    PROVE  /\ Len(actors) \in Nat /\ DOMAIN actors = 1..Len(actors)
           /\ actors = [i \in 1..Len(actors) |-> actors[i]]
           /\ \A i \in DOMAIN actors : "name" \in DOMAIN actors[i] /\ "type" \in DOMAIN actors[i]
  BY SequenceIs DEF AreActors

\* kept are some of the actors, under their proper names.
Shows(kept, actors) ==
    /\ AreActors(kept)
    /\ \A k \in DOMAIN kept : \E i \in DOMAIN actors :
         /\ kept[k].name = Applied(Proper, actors[i].name)
         /\ kept[k].type = actors[i].type

LEMMA DisplayedActors ==
    ASSUME NEW actors, AreActors(actors)
    PROVE  Shows(Displayed(actors), actors)
  <1> DEFINE shown == [i \in DOMAIN actors |-> [actors[i] EXCEPT !.name = Applied(Proper, @)]]
             S == {i \in DOMAIN shown : shown[i].name # None}
             kept == Chosen(shown, S)
  <1>1. Displayed(actors) = kept
    BY DEF Displayed
  <1>2. DOMAIN shown = 1..Len(actors) /\ Len(actors) \in Nat
    BY ActorsAre
  <1>3. \A i \in DOMAIN actors :
           /\ "name" \in DOMAIN shown[i] /\ "type" \in DOMAIN shown[i]
           /\ shown[i].name = Applied(Proper, actors[i].name)
           /\ shown[i].type = actors[i].type
    BY ActorsAre
  <1>4. S \in SUBSET (1..Len(actors)) /\ S \subseteq DOMAIN actors
    BY <1>2
  <1> HIDE DEF shown, S
  <1>5. Lists(kept, shown, S)
    BY <1>2, <1>4, ChosenLists
  <1> HIDE DEF kept
  <1>6. kept \in Seq({kept[k] : k \in DOMAIN kept})
    BY <1>5 DEF Lists
  <1>7. ASSUME NEW k \in DOMAIN kept
        PROVE  /\ {"name", "type"} \subseteq DOMAIN kept[k]
               /\ \E i \in DOMAIN actors : /\ kept[k].name = Applied(Proper, actors[i].name)
                                           /\ kept[k].type = actors[i].type
    <2>1. PICK i \in S : kept[k] = shown[i]
      BY <1>5 DEF Lists
    <2> QED
      BY <1>3, <1>4, <2>1
  <1> QED
    BY <1>1, <1>6, <1>7 DEF AreActors, Shows

NamedOnce(actors) == \A k, l \in DOMAIN actors : actors[k].name = actors[l].name => k = l

\* And no name is left twice.
LEMMA NormalizedActors ==
    ASSUME NEW actors, AreActors(actors)
    PROVE  Shows(NormalizeActorPayloads(actors), actors) /\ NamedOnce(NormalizeActorPayloads(actors))
  <1> DEFINE shown == Displayed(actors)
             Key(i) == Applied(ActorKey, shown[i].name)
             S == {i \in DOMAIN shown : \A j \in 1..(i - 1) : Key(j) # Key(i)}
             kept == Chosen(shown, S)
  <1>1. NormalizeActorPayloads(actors) = kept
    BY DEF NormalizeActorPayloads
  <1>2. Shows(shown, actors)
    BY DisplayedActors
  <1>3. Len(shown) \in Nat /\ DOMAIN shown = 1..Len(shown)
    <2> HIDE DEF shown
    <2> QED
      BY <1>2, ActorsAre DEF Shows
  <1>4. S \in SUBSET (1..Len(shown)) /\ S \subseteq DOMAIN shown
    BY <1>3
  <1>5. \A i, j \in S : Key(i) = Key(j) => i = j
    BY <1>3
  <1>6. \A i, j \in S : shown[i].name = shown[j].name => i = j
    BY <1>5
  <1> HIDE DEF shown, S
  <1>7. Lists(kept, shown, S)
    BY <1>3, <1>4, ChosenLists
  <1> HIDE DEF kept
  <1>8. PICK at \in [DOMAIN kept -> S] :
           /\ \A k \in DOMAIN kept : kept[k] = shown[at[k]]
           /\ \A k, l \in DOMAIN kept : at[k] = at[l] => k = l
    BY <1>7 DEF Lists
  <1>9. kept \in Seq({kept[k] : k \in DOMAIN kept})
    BY <1>7 DEF Lists
  <1>10. ASSUME NEW k \in DOMAIN kept
         PROVE  /\ {"name", "type"} \subseteq DOMAIN kept[k]
                /\ \E i \in DOMAIN actors : /\ kept[k].name = Applied(Proper, actors[i].name)
                                            /\ kept[k].type = actors[i].type
    BY <1>2, <1>4, <1>8 DEF Shows, AreActors
  <1>11. NamedOnce(kept)
    BY <1>6, <1>8 DEF NamedOnce
  <1> QED
    BY <1>1, <1>9, <1>10, <1>11 DEF AreActors, Shows

\* The first of a sequence of values is there unless none is.
LEMMA FirstOfNone ==
    ASSUME NEW xs, DOMAIN xs \subseteq Nat
    PROVE  FirstOf(xs) = None <=> \A i \in DOMAIN xs : xs[i] = None
  <1> DEFINE there == {i \in DOMAIN xs : xs[i] # None}
  <1>1. there \in SUBSET Nat
    OBVIOUS
  <1>2. ASSUME there # {}
        PROVE  Min(there) \in there
    <2>1. \E m \in there : \A n \in there : m <= n
      <3> HIDE DEF there
      <3> QED
        BY <1>1, <1>2, Least
    <2> HIDE DEF there
    <2> QED
      BY <2>1 DEF Min
  <1> QED
    BY <1>2 DEF FirstOf

\* Nothing tells where the event is.
Nowhere(e) ==
    /\ e.at = None
    /\ Geocode(e.place) = None
    /\ \A i \in DOMAIN e.actors : e.actors[i].type \in {"LOC", "GPE"} => Geocode(e.actors[i].name) = None
    /\ Geocode(e.sourcecountry) = None /\ Geocode(e.region) = None
    /\ Geocode(e.country) = None /\ Geocode(e.domain) = None

\* c holds nothing when x, y and z hold nothing.
HoldsThree(c, x, y, z) ==
    /\ DOMAIN c \subseteq Nat
    /\ (\A i \in DOMAIN c : c[i] = None)
         <=> /\ \A i \in DOMAIN x : x[i] = None
             /\ \A i \in DOMAIN y : y[i] = None
             /\ \A i \in DOMAIN z : z[i] = None

LEMMA AllNone ==
    ASSUME NEW V, NEW x \in Seq(V), NEW y \in Seq(V), NEW z \in Seq(V)
    PROVE  HoldsThree(x \o y \o z, x, y, z)
  <1> DEFINE w == x \o y
             c == w \o z
  <1>1. /\ w \in Seq(V) /\ Len(w) = Len(x) + Len(y)
        /\ \A i \in 1..(Len(x) + Len(y)) : w[i] = IF i <= Len(x) THEN x[i] ELSE y[i - Len(x)]
    BY ConcatProperties
  <1> HIDE DEF w
  <1>2. /\ c \in Seq(V) /\ Len(c) = Len(w) + Len(z)
        /\ \A i \in 1..(Len(w) + Len(z)) : c[i] = IF i <= Len(w) THEN w[i] ELSE z[i - Len(w)]
    <2>1. w \in Seq(V) /\ z \in Seq(V)
      BY <1>1
    <2> QED
      BY <2>1, ConcatProperties
  <1> HIDE DEF c
  <1>3. /\ Len(x) \in Nat /\ DOMAIN x = 1..Len(x)
        /\ Len(y) \in Nat /\ DOMAIN y = 1..Len(y)
        /\ Len(z) \in Nat /\ DOMAIN z = 1..Len(z)
        /\ DOMAIN w = 1..(Len(x) + Len(y))
        /\ DOMAIN c = 1..(Len(x) + Len(y) + Len(z))
    BY <1>1, <1>2, LenProperties
  <1>4. ASSUME \A i \in DOMAIN c : c[i] = None
        PROVE  /\ \A i \in DOMAIN x : x[i] = None
               /\ \A i \in DOMAIN y : y[i] = None
               /\ \A i \in DOMAIN z : z[i] = None
    <2>1. \A i \in DOMAIN w : w[i] = None
      BY <1>1, <1>2, <1>3, <1>4
    <2>2. ASSUME NEW i \in DOMAIN z PROVE z[i] = None
      <3>1. i + Len(w) \in DOMAIN c /\ ~(i + Len(w) <= Len(w)) /\ (i + Len(w)) - Len(w) = i
        BY <1>1, <1>3
      <3> QED
        BY <1>1, <1>2, <1>3, <1>4, <3>1
    <2>3. ASSUME NEW i \in DOMAIN y PROVE y[i] = None
      <3>1. i + Len(x) \in DOMAIN w /\ ~(i + Len(x) <= Len(x)) /\ (i + Len(x)) - Len(x) = i
        BY <1>3
      <3> QED
        BY <1>1, <1>3, <2>1, <3>1
    <2>4. ASSUME NEW i \in DOMAIN x PROVE x[i] = None
      <3>1. i \in DOMAIN w /\ i <= Len(x)
        BY <1>3
      <3> QED
        BY <1>1, <1>3, <2>1, <3>1
    <2> QED
      BY <2>2, <2>3, <2>4
  <1>5. ASSUME /\ \A i \in DOMAIN x : x[i] = None
               /\ \A i \in DOMAIN y : y[i] = None
               /\ \A i \in DOMAIN z : z[i] = None
        PROVE  \A i \in DOMAIN c : c[i] = None
    <2>1. ASSUME NEW i \in DOMAIN w PROVE w[i] = None
      <3>1. i <= Len(x) => i \in DOMAIN x
        BY <1>3
      <3>2. ~(i <= Len(x)) => i - Len(x) \in DOMAIN y
        BY <1>3
      <3> QED
        BY <1>1, <1>3, <1>5, <3>1, <3>2
    <2>2. ASSUME NEW i \in DOMAIN c PROVE c[i] = None
      <3>1. i <= Len(w) => i \in DOMAIN w
        BY <1>1, <1>3
      <3>2. ~(i <= Len(w)) => i - Len(w) \in DOMAIN z
        BY <1>1, <1>3
      <3> QED
        BY <1>1, <1>2, <1>3, <1>5, <2>1, <3>1, <3>2
    <2> QED
      BY <2>2
  <1>6. DOMAIN c \subseteq Nat
    BY <1>3
  <1>7. (\A i \in DOMAIN c : c[i] = None)
          <=> /\ \A i \in DOMAIN x : x[i] = None
              /\ \A i \in DOMAIN y : y[i] = None
              /\ \A i \in DOMAIN z : z[i] = None
    BY <1>4, <1>5
  <1>8. HoldsThree(c, x, y, z)
    BY <1>6, <1>7 DEF HoldsThree
  <1> QED
    BY <1>8 DEF c, w

LEMMA CoordsNone ==
    ASSUME NEW e, AreActors(e.actors)
    PROVE  ResolveEventCoords(e) = None <=> Nowhere(e)
  <1> DEFINE S == {i \in DOMAIN e.actors : e.actors[i].type \in {"LOC", "GPE"}}
             places == Chosen(e.actors, S)
             first == <<e.at, Geocode(e.place)>>
             named == [i \in DOMAIN places |-> Geocode(places[i].name)]
             last == <<Geocode(e.sourcecountry), Geocode(e.region), Geocode(e.country), Geocode(e.domain)>>
             xs == first \o named \o last
             V == {e.at, Geocode(e.place), Geocode(e.sourcecountry), Geocode(e.region),
                   Geocode(e.country), Geocode(e.domain)} \cup {named[i] : i \in DOMAIN named}
  <1>1. ResolveEventCoords(e) = FirstOf(xs)
    BY DEF ResolveEventCoords, Named
  <1>2. DOMAIN e.actors = 1..Len(e.actors) /\ Len(e.actors) \in Nat
    BY ActorsAre
  <1>3. S \in SUBSET (1..Len(e.actors))
    BY <1>2
  <1>4. Lists(places, e.actors, S)
    <2> HIDE DEF S
    <2> QED
      BY <1>2, <1>3, ChosenLists
  <1> HIDE DEF places
  <1>5. (\A i \in DOMAIN named : named[i] = None) <=> \A i \in S : Geocode(e.actors[i].name) = None
    <2> HIDE DEF S
    <2>1. PICK at \in [DOMAIN places -> S] :
             /\ \A k \in DOMAIN places : places[k] = e.actors[at[k]]
             /\ \A i \in S : \E k \in DOMAIN places : at[k] = i
      BY <1>4 DEF Lists
    <2> QED
      BY <2>1
  <1>6. named \in Seq(V)
    <2>1. Len(places) \in Nat /\ DOMAIN places = 1..Len(places)
      BY <1>4, LenProperties DEF Lists
    <2>2. DOMAIN named = 1..Len(places) /\ named = [k \in 1..Len(places) |-> named[k]]
      BY <2>1
    <2>3. named \in [1..Len(places) -> V]
      BY <2>2
    <2> HIDE DEF named, V
    <2> QED
      BY <2>1, <2>3, SeqDef
  <1>7. /\ first \in Seq(V)
        /\ (\A i \in DOMAIN first : first[i] = None) <=> e.at = None /\ Geocode(e.place) = None
    <2> HIDE DEF named
    <2>1. first \in Seq(V) /\ DOMAIN first = 1..2 /\ first[1] = e.at /\ first[2] = Geocode(e.place)
      OBVIOUS
    <2> HIDE DEF first
    <2> QED
      BY <2>1
  <1>8. /\ last \in Seq(V)
        /\ (\A i \in DOMAIN last : last[i] = None)
             <=> /\ Geocode(e.sourcecountry) = None /\ Geocode(e.region) = None
                 /\ Geocode(e.country) = None /\ Geocode(e.domain) = None
    <2> HIDE DEF named
    <2>1. /\ last \in Seq(V) /\ DOMAIN last = 1..4
          /\ last[1] = Geocode(e.sourcecountry) /\ last[2] = Geocode(e.region)
          /\ last[3] = Geocode(e.country) /\ last[4] = Geocode(e.domain)
      OBVIOUS
    <2> HIDE DEF last
    <2> QED
      BY <2>1
  <1> HIDE DEF first, named, last, V
  <1>9. HoldsThree(xs, first, named, last)
    BY <1>6, <1>7, <1>8, AllNone
  <1> HIDE DEF xs
  <1>10. FirstOf(xs) = None <=> \A i \in DOMAIN xs : xs[i] = None
    BY <1>9, FirstOfNone DEF HoldsThree
  <1>11. (\A i \in S : Geocode(e.actors[i].name) = None)
           <=> \A i \in DOMAIN e.actors : e.actors[i].type \in {"LOC", "GPE"} => Geocode(e.actors[i].name) = None
    OBVIOUS
  <1> HIDE DEF S
  <1> QED
    BY <1>1, <1>5, <1>7, <1>8, <1>9, <1>10, <1>11 DEF Nowhere, HoldsThree

-----------------------------------------------------------------------------
(* Events.                                                                 *)
Wide(e) ==
    /\ EventFields \subseteq DOMAIN e /\ AreActors(e.actors)
    /\ e.id \in Int /\ {e.ts, e.ingest} \subseteq Int \cup {None}

\* Normalising a name again makes no place of it.
Settled(actors) ==
    \A i \in DOMAIN actors : Geocode(actors[i].name) = None => Geocode(Applied(Proper, actors[i].name)) = None

LEMMA NormalizedSettled ==
    ASSUME NEW actors, AreActors(actors)
    PROVE  Settled(NormalizeActorPayloads(actors))
  <1> DEFINE kept == NormalizeActorPayloads(actors)
  <1>1. Shows(kept, actors)
    BY NormalizedActors
  <1> HIDE DEF kept
  <1>2. ASSUME NEW k \in DOMAIN kept, Geocode(kept[k].name) = None
        PROVE  Geocode(Applied(Proper, kept[k].name)) = None
    <2>1. PICK i \in DOMAIN actors : kept[k].name = Applied(Proper, actors[i].name)
      BY <1>1 DEF Shows
    <2> DEFINE n == actors[i].name
    <2>2. kept[k].name = Applied(Proper, n)
      BY <2>1
    <2> HIDE DEF n
    <2>3. CASE n \in DOMAIN Proper
      <3>1. kept[k].name = Proper[n]
        BY <2>2, <2>3 DEF Applied
      <3> QED
        BY <1>2, <2>3, <3>1, RenamingAssumption
    <2>4. CASE n \notin DOMAIN Proper
      <3>1. kept[k].name = n /\ Applied(Proper, kept[k].name) = kept[k].name
        BY <2>2, <2>4 DEF Applied
      <3> QED
        BY <1>2, <3>1
    <2> QED
      BY <2>3, <2>4
  <1>3. Settled(kept)
    BY <1>2 DEF Settled
  <1> QED
    BY <1>3 DEF kept

\* A row of an event that is nowhere is nowhere.
LEMMA RowNowhere ==
    ASSUME NEW e, Wide(e), Settled(e.actors), Nowhere(e),
           NEW r, r.at = e.at, r.place = e.place, r.sourcecountry = e.sourcecountry,
           r.region = e.region, r.domain = e.domain, r.country = None,
           r.actors = NormalizeActorPayloads(e.actors)
    PROVE  AreActors(r.actors) /\ Nowhere(r)
  <1>1. AreActors(e.actors)
    BY DEF Wide
  <1>2. Shows(r.actors, e.actors)
    BY <1>1, NormalizedActors
  <1>3. ASSUME NEW k \in DOMAIN r.actors, r.actors[k].type \in {"LOC", "GPE"}
        PROVE  Geocode(r.actors[k].name) = None
    <2>1. PICK i \in DOMAIN e.actors : /\ r.actors[k].name = Applied(Proper, e.actors[i].name)
                                       /\ r.actors[k].type = e.actors[i].type
      BY <1>2 DEF Shows
    <2>2. Geocode(e.actors[i].name) = None
      BY <1>3, <2>1 DEF Nowhere
    <2>3. Geocode(Applied(Proper, e.actors[i].name)) = None
      BY <2>2 DEF Settled
    <2> QED
      BY <2>1, <2>3
  <1>4. Geocode(r.country) = None
    BY DEF Geocode
  <1> QED
    BY <1>2, <1>3, <1>4 DEF Nowhere, Shows

\* What the last two steps of the pipeline make of an event whose names are
\* settled has a place if one can be told, and so has its row.
ReadyEvent(e) ==
    /\ Wide(e) /\ NamedOnce(e.actors) /\ Placed(e)
    /\ EventToRow(e).id = e.id /\ Placed(EventToRow(e))
    /\ \A row : Updated(row, e).id = e.id /\ Placed(Updated(row, e))

LEMMA LocatedReady ==
    ASSUME NEW x, Wide(x), NamedOnce(x.actors), Settled(x.actors)
    PROVE  ReadyEvent(Located(x)) /\ Located(x).id = x.id
  <1> DEFINE y == ApplyCountry(x)
             e == Located(x)
             r == EventToRow(e)
  <1>1. /\ Wide(y) /\ y.actors = x.actors /\ y.id = x.id
    BY DEF ApplyCountry, Wide, EventFields
  <1>2. e = [y EXCEPT !.at = ResolveEventCoords(y)]
    BY DEF Located, ApplyGeocoding
  <1> HIDE DEF y, e
  <1>3. /\ e.at = ResolveEventCoords(y) /\ Wide(e) /\ e.actors = x.actors /\ e.id = x.id
        /\ e.place = y.place /\ e.sourcecountry = y.sourcecountry /\ e.region = y.region
        /\ e.country = y.country /\ e.domain = y.domain
    BY <1>1, <1>2 DEF Wide, EventFields
  <1>4. e.at = None => Nowhere(e)
    <2>1. AreActors(y.actors)
      BY <1>1 DEF Wide
    <2>2. ResolveEventCoords(y) = None => Nowhere(y)
      BY <2>1, CoordsNone
    <2> QED
      BY <1>1, <1>3, <2>2 DEF Nowhere
  <1>5. Placed(e)
    BY <1>3, <1>4, CoordsNone DEF Placed, Wide
  <1>6. ASSUME NEW q, q.at = e.at, q.place = e.place, q.sourcecountry = e.sourcecountry,
               q.region = e.region, q.domain = e.domain, q.country = None,
               q.actors = NormalizeActorPayloads(e.actors)
        PROVE  Placed(q)
    <2>1. ASSUME e.at = None PROVE ResolveEventCoords(q) = None
      <3>1. Settled(e.actors) /\ Wide(e) /\ Nowhere(e)
        BY <1>3, <1>4, <2>1
      <3>2. AreActors(q.actors) /\ Nowhere(q)
        BY <1>6, <3>1, RowNowhere
      <3> QED
        BY <3>2, CoordsNone
    <2> QED
      BY <1>6, <2>1 DEF Placed
  <1>7. /\ r.id = e.id /\ r.at = e.at /\ r.place = e.place /\ r.sourcecountry = e.sourcecountry
        /\ r.region = e.region /\ r.domain = e.domain /\ r.country = None
        /\ r.actors = NormalizeActorPayloads(e.actors) /\ EventFields \subseteq DOMAIN r
    BY <1>3 DEF EventToRow, Wide, EventFields
  <1> HIDE DEF r
  <1>8. ASSUME NEW row
        PROVE  Updated(row, e).id = e.id /\ Placed(Updated(row, e))
    <2> DEFINE u == Updated(row, e)
    <2>1. u = [r EXCEPT !.ingest = row.ingest, !.risk = row.risk, !.signals = row.signals,
                        !.supporting = row.supporting, !.influence = row.influence]
      BY DEF Updated, r
    <2> HIDE DEF u
    <2>2. /\ u.id = e.id /\ u.at = e.at /\ u.place = e.place /\ u.sourcecountry = e.sourcecountry
          /\ u.region = e.region /\ u.domain = e.domain /\ u.country = None
          /\ u.actors = NormalizeActorPayloads(e.actors)
      BY <1>7, <2>1 DEF EventFields
    <2>3. Placed(u)
      BY <1>6, <2>2
    <2> QED
      BY <2>2, <2>3 DEF u
  <1>9. r.id = e.id /\ Placed(r)
    BY <1>6, <1>7
  <1>10. EventToRow(e).id = e.id /\ Placed(EventToRow(e))
    BY <1>9 DEF r
  <1>11. NamedOnce(e.actors)
    BY <1>3
  <1>12. ReadyEvent(e)
    BY <1>3, <1>5, <1>8, <1>10, <1>11 DEF ReadyEvent
  <1> QED
    BY <1>3, <1>12 DEF e

-----------------------------------------------------------------------------
(* Batches.                                                                *)
Batch(b) ==
    /\ b \in Seq({b[k] : k \in DOMAIN b})
    /\ \A k \in DOMAIN b : Wide(b[k])
    /\ \A k, l \in DOMAIN b : b[k].id = b[l].id => k = l
Ready(b) == Batch(b) /\ \A k \in DOMAIN b : ReadyEvent(b[k])

\* A step over the whole of a batch leaves its ids alone.
Follows(c, b) ==
    /\ DOMAIN c = DOMAIN b /\ c = [k \in DOMAIN b |-> c[k]]
    /\ \A k \in DOMAIN b : Wide(c[k]) /\ c[k].id = b[k].id

LEMMA BatchFollows ==
    ASSUME NEW b, Batch(b), NEW c, Follows(c, b)
    PROVE  Batch(c)
  <1>1. Len(b) \in Nat /\ DOMAIN b = 1..Len(b)
    BY SequenceIs DEF Batch
  <1>2. c = [k \in 1..Len(b) |-> c[k]]
    BY <1>1 DEF Follows
  <1>3. c \in Seq({c[k] : k \in DOMAIN c})
    BY <1>1, <1>2, IsSequence
  <1> QED
    BY <1>3 DEF Batch, Follows

LEMMA EnrichFollows ==
    ASSUME NEW b, Batch(b)
    PROVE  Follows(Enrich(b), b)
  BY DEF Batch, Follows, Enrich, Wide, EventFields

LEMMA DedupWide ==
    ASSUME NEW e, Wide(e)
    PROVE  LET d == DedupActors(e)
           IN  Wide(d) /\ d.id = e.id /\ NamedOnce(d.actors) /\ Settled(d.actors)
  <1> DEFINE d == DedupActors(e)
             actors == NormalizeActorPayloads(e.actors)
  <1>1. AreActors(e.actors)
    BY DEF Wide
  <1>2. AreActors(actors) /\ NamedOnce(actors) /\ Settled(actors)
    BY <1>1, NormalizedActors, NormalizedSettled DEF Shows
  <1>3. d = [e EXCEPT !.actors = actors]
    BY DEF DedupActors
  <1> HIDE DEF d, actors
  <1>4. Wide(d) /\ d.id = e.id /\ d.actors = actors
    BY <1>2, <1>3 DEF Wide, EventFields
  <1> QED
    BY <1>2, <1>4 DEF d

LEMMA ActorsJoined ==
    ASSUME NEW xs, AreActors(xs), NEW ys, ys \in Seq({ys[i] : i \in DOMAIN ys}),
           \A i \in DOMAIN ys : {"name", "type"} \subseteq DOMAIN ys[i]
    PROVE  AreActors(xs \o ys)
  <1> DEFINE V == {xs[i] : i \in DOMAIN xs} \cup {ys[i] : i \in DOMAIN ys}
             zs == xs \o ys
  <1>1. xs \in Seq({xs[i] : i \in DOMAIN xs})
    BY DEF AreActors
  <1>2. xs \in Seq(V) /\ ys \in Seq(V)
    BY <1>1, SeqMonotonic
  <1>3. \A v \in V : {"name", "type"} \subseteq DOMAIN v
    BY DEF AreActors
  <1> HIDE DEF V
  <1>4. zs \in Seq(V)
    BY <1>2, ConcatProperties
  <1> HIDE DEF zs
  <1>5. zs \in Seq({zs[i] : i \in DOMAIN zs}) /\ \A i \in DOMAIN zs : zs[i] \in V
    BY <1>4, SequenceIs
  <1>6. AreActors(zs)
    BY <1>3, <1>5 DEF AreActors
  <1> QED
    BY <1>6 DEF zs

LEMMA NerWide ==
    ASSUME NEW e, Wide(e)
    PROVE  Wide(NerTransformer(e)) /\ NerTransformer(e).id = e.id
  <1> DEFINE found == IF e.id \in DOMAIN Recognised THEN Recognised[e.id] ELSE <<>>
             m == MergeActors(e, found)
  <1>1. NerTransformer(e) = MaybeGeotag(m, found)
    BY DEF NerTransformer
  <1>2. AreActors(found)
    <2>1. AreActors(<< >>)
      <3>1. << >> \in Seq({<< >>[i] : i \in DOMAIN << >>})
        OBVIOUS
      <3> QED
        BY <3>1 DEF AreActors
    <2> QED
      BY <2>1, ModelsAssumption
  <1> HIDE DEF found
  <1> DEFINE shown == Displayed(found)
             firstHeard(i) == /\ shown[i].name \notin {e.actors[j].name : j \in DOMAIN e.actors}
                              /\ \A j \in 1..(i - 1) : shown[j].name # shown[i].name
             S == {i \in DOMAIN shown : firstHeard(i)}
             more == Chosen(shown, S)
  <1>3. AreActors(shown)
    BY <1>2, DisplayedActors DEF Shows
  <1>4. m = [e EXCEPT !.actors = @ \o more]
    BY DEF MergeActors
  <1> HIDE DEF shown
  <1>5. Len(shown) \in Nat /\ DOMAIN shown = 1..Len(shown) /\ \A i \in DOMAIN shown : {"name", "type"} \subseteq DOMAIN shown[i]
    BY <1>3, ActorsAre
  <1>6. S \in SUBSET (1..Len(shown))
    BY <1>5
  <1> HIDE DEF S
  <1>7. Lists(more, shown, S)
    BY <1>5, <1>6, ChosenLists
  <1> HIDE DEF more
  <1>8. /\ more \in Seq({more[i] : i \in DOMAIN more})
        /\ \A i \in DOMAIN more : {"name", "type"} \subseteq DOMAIN more[i]
    <2>1. more \in Seq({more[i] : i \in DOMAIN more})
      BY <1>7 DEF Lists
    <2>2. ASSUME NEW i \in DOMAIN more PROVE {"name", "type"} \subseteq DOMAIN more[i]
      <3>1. PICK j \in S : more[i] = shown[j]
        BY <1>7 DEF Lists
      <3> QED
        BY <1>5, <1>6, <3>1
    <2> QED
      BY <2>1, <2>2
  <1>9. AreActors(e.actors \o more)
    BY <1>8, ActorsJoined DEF Wide
  <1>10. Wide(m) /\ m.id = e.id
    <2> DEFINE joined == e.actors \o more
    <2>1. m = [e EXCEPT !.actors = joined] /\ AreActors(joined)
      BY <1>4, <1>9
    <2> HIDE DEF joined, m
    <2> QED
      BY <2>1 DEF Wide, EventFields
  <1> HIDE DEF m
  <1>11. Wide(MaybeGeotag(m, found)) /\ MaybeGeotag(m, found).id = m.id
    <2> DEFINE places == Named({"LOC"}, found)
               tag == places[1].name
    <2>1. MaybeGeotag(m, found) = m \/ MaybeGeotag(m, found) = [m EXCEPT !.place = tag]
      BY DEF MaybeGeotag
    <2> HIDE DEF tag
    <2> QED
      BY <1>10, <2>1 DEF Wide, EventFields
  <1> QED
    BY <1>1, <1>10, <1>11

LEMMA SentimentWide ==
    ASSUME NEW e, Wide(e)
    PROVE  Wide(RunSentiment(e)) /\ RunSentiment(e).id = e.id
  BY DEF RunSentiment, Wide, EventFields

LEMMA SeenFollows ==
    ASSUME NEW b, Batch(b)
    PROVE  Follows(Seen(b), b)
  <1>1. ASSUME NEW k \in DOMAIN b
        PROVE  Wide(Seen(b)[k]) /\ Seen(b)[k].id = b[k].id
    <2> DEFINE e == DedupActors(b[k])
    <2>1. Wide(e) /\ e.id = b[k].id
      BY DedupWide DEF Batch
    <2>2. Seen(b)[k] = e \/ Seen(b)[k] = RunSentiment(NerTransformer(e))
      BY DEF Seen
    <2> HIDE DEF e
    <2>3. Wide(NerTransformer(e)) /\ NerTransformer(e).id = e.id
      BY <2>1, NerWide
    <2>4. Wide(RunSentiment(NerTransformer(e))) /\ RunSentiment(NerTransformer(e)).id = e.id
      BY <2>3, SentimentWide
    <2> QED
      BY <2>1, <2>2, <2>4
  <1>2. DOMAIN Seen(b) = DOMAIN b /\ Seen(b) = [k \in DOMAIN b |-> Seen(b)[k]]
    BY DEF Seen
  <1> QED
    BY <1>1, <1>2 DEF Follows

LEMMA ResolvedWide ==
    ASSUME NEW reg, NEW e, Wide(e)
    PROVE  LET d == RunEntityResolution(reg, e)
           IN  Wide(d) /\ d.id = e.id /\ NamedOnce(d.actors) /\ Settled(d.actors)
  <1> DEFINE name(a) == LET c == Canonical(reg, a) IN FirstOf(<<Applied(Proper, c), c>>)
             renamed == [j \in DOMAIN e.actors |-> [e.actors[j] EXCEPT !.name = name(@)]]
             f == [e EXCEPT !.actors = renamed]
  <1>1. RunEntityResolution(reg, e) = DedupActors(f)
    BY DEF RunEntityResolution
  <1> HIDE DEF name
  <1>2. Len(e.actors) \in Nat /\ DOMAIN e.actors = 1..Len(e.actors)
        /\ \A i \in DOMAIN e.actors : "name" \in DOMAIN e.actors[i] /\ "type" \in DOMAIN e.actors[i]
    BY ActorsAre DEF Wide
  <1>3. AreActors(renamed)
    <2>1. DOMAIN renamed = 1..Len(e.actors) /\ renamed = [j \in 1..Len(e.actors) |-> renamed[j]]
      BY <1>2
    <2>2. \A i \in DOMAIN renamed : {"name", "type"} \subseteq DOMAIN renamed[i]
      BY <1>2
    <2> HIDE DEF renamed
    <2>3. renamed \in Seq({renamed[j] : j \in DOMAIN renamed})
      BY <1>2, <2>1, IsSequence
    <2> QED
      BY <2>2, <2>3 DEF AreActors
  <1> HIDE DEF renamed
  <1>4. Wide(f) /\ f.id = e.id
    BY <1>3 DEF Wide, EventFields
  <1> HIDE DEF f
  <1> QED
    BY <1>1, <1>4, DedupWide

\* A batch that went through the pipeline is ready.
LEMMA ProcessReady ==
    ASSUME NEW reg, NEW b, Batch(b)
    PROVE  Ready(Process(reg, b).events)
  <1> DEFINE seen == Seen(b)
             made == Resolve(reg, seen)
             done == [i \in DOMAIN seen |-> Located(RunEntityResolution(made, seen[i]))]
  <1>1. Process(reg, b).events = done
    BY DEF Process, Renamed
  <1>2. Follows(seen, b) /\ Batch(seen)
    BY SeenFollows, BatchFollows
  <1> HIDE DEF seen, made
  <1>3. ASSUME NEW k \in DOMAIN seen
        PROVE  ReadyEvent(done[k]) /\ done[k].id = seen[k].id
    <2> DEFINE x == RunEntityResolution(made, seen[k])
    <2>1. Wide(x) /\ x.id = seen[k].id /\ NamedOnce(x.actors) /\ Settled(x.actors)
      BY <1>2, ResolvedWide DEF Batch
    <2>2. done[k] = Located(x)
      OBVIOUS
    <2> HIDE DEF x, done
    <2> QED
      BY <2>1, <2>2, LocatedReady
  <1>4. DOMAIN done = DOMAIN seen /\ done = [k \in DOMAIN seen |-> done[k]]
    OBVIOUS
  <1> HIDE DEF done
  <1>5. Follows(done, seen)
    BY <1>3, <1>4 DEF Follows, ReadyEvent
  <1>6. Batch(done)
    BY <1>2, <1>5, BatchFollows
  <1> QED
    BY <1>1, <1>3, <1>4, <1>6 DEF Ready

LEMMA PermutationSeq ==
    ASSUME NEW S, IsFiniteSet(S), NEW q \in SetToAllKPermutations(S)
    PROVE  q \in Seq(S)
  <1>1. PICK s \in SUBSET S : q \in SetToSeqs(s)
    BY DEF SetToAllKPermutations
  <1>2. q \in [1..Cardinality(s) -> s]
    BY <1>1 DEF SetToSeqs
  <1>3. Cardinality(s) \in Nat
    BY <1>1, FS_Subset, FS_CardinalityType
  <1>4. q \in [1..Cardinality(s) -> S]
    BY <1>2
  <1> QED
    BY <1>3, <1>4, SeqDef

\* The tasks of a run are done in some order.
LEMMA TasksDone ==
    ASSUME NEW allowed, NEW q \in SetToAllKPermutations(Pool(QueryTasks, allowed)),
           NEW l \in SetToAllKPermutations(Pool(LiveTasks, allowed))
    PROVE  \E n \in Nat : DOMAIN (q \o l) = 1..n
  <1> DEFINE V == Pool(QueryTasks, allowed) \cup Pool(LiveTasks, allowed)
  <1>1. IsFiniteSet(Range(QueryTasks)) /\ IsFiniteSet(Range(LiveTasks))
    <2>1. ASSUME NEW s, DOMAIN s = 1..7 PROVE IsFiniteSet(Range(s))
      <3>1. IsFiniteSet(1..7)
        <4>1. 1 \in Int /\ 7 \in Int
          OBVIOUS
        <4> QED
          BY <4>1, FS_Interval
      <3>2. [i \in 1..7 |-> s[i]] \in Surjection(1..7, Range(s))
        BY <2>1 DEF Surjection, Range
      <3> QED
        BY <3>1, <3>2, FS_Surjection
    <2>2. DOMAIN QueryTasks = 1..7 /\ DOMAIN LiveTasks = 1..7
      BY DEF QueryTasks, LiveTasks
    <2> QED
      BY <2>1, <2>2
  <1>2. IsFiniteSet(Pool(QueryTasks, allowed)) /\ IsFiniteSet(Pool(LiveTasks, allowed))
    BY <1>1, FS_Subset DEF Pool
  <1>3. q \in Seq(Pool(QueryTasks, allowed)) /\ l \in Seq(Pool(LiveTasks, allowed))
    BY <1>2, PermutationSeq
  <1>4. q \in Seq(V) /\ l \in Seq(V)
    BY <1>3, SeqMonotonic
  <1> HIDE DEF V
  <1>5. q \o l \in Seq(V)
    BY <1>4, ConcatProperties
  <1> QED
    BY <1>5, LenProperties

\* What the sources report are events.
Reporting(answers, done) ==
    /\ \E n \in Nat : DOMAIN done = 1..n
    /\ \A i \in DOMAIN done : LET events == answers[done[i]].events
                              IN  /\ events \in Seq(Range(events))
                                  /\ \A e \in Range(events) : IsEvent(e)

LEMMA ReportsFinite ==
    ASSUME NEW answers, NEW done, Reporting(answers, done)
    PROVE  /\ IsFiniteSet(Reports(answers, done))
           /\ \A x \in Reports(answers, done) :
                /\ x = <<x[1], x[2]>> /\ x[1] \in Nat /\ x[2] \in Nat
                /\ IsEvent(answers[done[x[1]]].events[x[2]])
  <1> DEFINE I == {j \in DOMAIN done : answers[done[j]].ok}
             Of(i) == answers[done[i]].events
             parts == {{i} \X DOMAIN Of(i) : i \in I}
  <1>1. Reports(answers, done) = UNION parts
    BY DEF Reports
  <1>2. PICK n \in Nat : DOMAIN done = 1..n
    BY DEF Reporting
  <1>3. IsFiniteSet(I)
    <2>1. IsFiniteSet(1..n)
      BY FS_Interval
    <2> QED
      BY <1>2, <2>1, FS_Subset
  <1>4. ASSUME NEW i \in DOMAIN done
        PROVE  /\ Len(Of(i)) \in Nat /\ DOMAIN Of(i) = 1..Len(Of(i))
               /\ \A k \in DOMAIN Of(i) : IsEvent(Of(i)[k])
    <2>1. Of(i) \in Seq(Range(Of(i))) /\ \A e \in Range(Of(i)) : IsEvent(e)
      BY DEF Reporting
    <2> HIDE DEF Of
    <2> QED
      BY <2>1, LenProperties DEF Range
  <1>5. ASSUME NEW i \in I
        PROVE  IsFiniteSet({i} \X DOMAIN Of(i))
    <2>1. IsFiniteSet(DOMAIN Of(i))
      BY <1>4, FS_Interval
    <2>2. IsFiniteSet({i})
      BY FS_Singleton
    <2> HIDE DEF Of
    <2> QED
      BY <2>1, <2>2, FS_Product
  <1>6. IsFiniteSet(parts)
    <2> DEFINE f == [i \in I |-> {i} \X DOMAIN Of(i)]
    <2>1. f \in Surjection(I, parts)
      BY DEF Surjection
    <2> HIDE DEF f, parts
    <2> QED
      BY <1>3, <2>1, FS_Surjection
  <1>7. IsFiniteSet(UNION parts)
    <2>1. \A T \in parts : IsFiniteSet(T)
      BY <1>5
    <2> HIDE DEF parts
    <2> QED
      BY <1>6, <2>1, FS_UNION
  <1>8. ASSUME NEW x \in UNION parts
        PROVE  /\ x = <<x[1], x[2]>> /\ x[1] \in Nat /\ x[2] \in Nat
               /\ IsEvent(Of(x[1])[x[2]])
    <2>1. PICK i \in I : x \in {i} \X DOMAIN Of(i)
      OBVIOUS
    <2>2. x = <<x[1], x[2]>> /\ x[1] = i /\ x[2] \in DOMAIN Of(i)
      BY <2>1
    <2>3. i \in DOMAIN done /\ i \in Nat
      BY <1>2
    <2> HIDE DEF Of
    <2> QED
      BY <1>4, <2>2, <2>3
  <1> HIDE DEF parts
  <1> QED
    BY <1>1, <1>7, <1>8

\* A run keeps of every id one report: its batch is one.
LEMMA RunBatch ==
    ASSUME NEW answers, NEW done, Reporting(answers, done)
    PROVE  Batch(OrchestratorRun(answers, done).events)
  <1> DEFINE reports == Reports(answers, done)
             Event(x) == answers[done[x[1]]].events[x[2]]
             kept == {x \in reports : \A y \in reports : ReportedBefore(y, x) => Event(y).id # Event(x).id}
             Taken(y, x) == \/ Later(Event(y).ts, Event(x).ts)
                            \/ Event(y).ts = Event(x).ts /\ ReportedBefore(y, x)
             Ahead(x) == {y \in kept : Taken(y, x)}
             R == {p \in kept \X kept : Taken(p[1], p[2])}
             At(n) == CHOOSE x \in kept : Cardinality(Ahead(x)) = n - 1
             events == [n \in 1..Cardinality(kept) |-> Event(At(n))]
  <1>1. OrchestratorRun(answers, done).events = events
    BY DEF OrchestratorRun
  <1>2. /\ IsFiniteSet(reports)
        /\ \A x \in reports : /\ x = <<x[1], x[2]>> /\ x[1] \in Nat /\ x[2] \in Nat
                              /\ IsEvent(Event(x))
    BY ReportsFinite
  <1> HIDE DEF reports, Event
  <1>3. IsFiniteSet(kept) /\ kept \subseteq reports
    BY <1>2, FS_Subset
  <1>4. \A x, y \in kept : x # y => ReportedBefore(x, y) \/ ReportedBefore(y, x)
    BY <1>2, <1>3 DEF ReportedBefore
  <1>5. \A x, y \in kept : Event(x).id = Event(y).id => x = y
    BY <1>3, <1>4
  <1>6. \A x \in kept : Event(x).ts \in Int \cup {None} /\ x[1] \in Int /\ x[2] \in Int
    BY <1>2, <1>3 DEF IsEvent
  <1> HIDE DEF kept
  <1>7. \A x, y \in kept : <<x, y>> \in R <=> Taken(x, y)
    <2> HIDE DEF Taken
    <2> QED
      OBVIOUS
  <1>8. Orders(R, kept)
    <2>1. \A x \in kept : ~Taken(x, x)
      BY <1>6, NoneAssumption DEF Later, ReportedBefore
    <2>2. ASSUME NEW x \in kept, NEW y \in kept, NEW z \in kept, Taken(x, y), Taken(y, z)
          PROVE  Taken(x, z)
      BY <1>6, <2>2, NoneAssumption DEF Later, ReportedBefore
    <2>3. ASSUME NEW x \in kept, NEW y \in kept, x # y
          PROVE  Taken(x, y) \/ Taken(y, x)
      BY <1>4, <1>6, <2>3, NoneAssumption DEF Later
    <2> HIDE DEF Taken, R
    <2> QED
      BY <1>7, <2>1, <2>2, <2>3 DEF Orders
  <1>9. \A x \in kept : Below(x, R, kept) = Ahead(x)
    <2> HIDE DEF Taken, R
    <2> QED
      BY <1>7 DEF Below
  <1>10. /\ Cardinality(kept) \in Nat
         /\ \A n \in 1..Cardinality(kept) : \E x \in kept : Cardinality(Ahead(x)) = n - 1
    <2> HIDE DEF Taken, R, Ahead
    <2>1. /\ Cardinality(kept) \in Nat
          /\ \A n \in 1..Cardinality(kept) : \E x \in kept : Cardinality(Below(x, R, kept)) = n - 1
      BY <1>3, <1>8, RanksFill
    <2> QED
      BY <1>9, <2>1
  <1> HIDE DEF Ahead, R
  <1>11. ASSUME NEW n \in 1..Cardinality(kept)
         PROVE  At(n) \in kept /\ Cardinality(Ahead(At(n))) = n - 1
    BY <1>10
  <1>12. \A m, n \in 1..Cardinality(kept) : At(m) = At(n) => m = n
    <2> HIDE DEF At
    <2>1. ASSUME NEW m \in 1..Cardinality(kept), NEW n \in 1..Cardinality(kept), At(m) = At(n)
          PROVE  m = n
      <3>1. m - 1 = n - 1
        BY <1>11, <2>1
      <3> QED
        BY <1>10, <3>1
    <2> QED
      BY <2>1
  <1> HIDE DEF At
  <1>13. DOMAIN events = 1..Cardinality(kept) /\ events = [n \in 1..Cardinality(kept) |-> events[n]]
         /\ \A n \in 1..Cardinality(kept) : events[n] = Event(At(n))
    OBVIOUS
  <1> HIDE DEF events
  <1>14. events \in Seq({events[n] : n \in DOMAIN events})
    BY <1>10, <1>13, IsSequence
  <1>15. \A k \in DOMAIN events : Wide(events[k])
    BY <1>2, <1>3, <1>11, <1>13 DEF Wide, IsEvent
  <1>16. \A k, l \in DOMAIN events : events[k].id = events[l].id => k = l
    BY <1>5, <1>11, <1>12, <1>13
  <1>17. Batch(events)
    BY <1>14, <1>15, <1>16 DEF Batch
  <1> QED
    BY <1>1, <1>17

-----------------------------------------------------------------------------
(* Jobs.                                                                   *)

\* The table has a placed row of every event of the batch, or none was meant to
\* be stored, or the record says that they were not.
Backed(j, record) ==
    \/ ~asked[j].db \/ "DB persist" \in record.warnings
    \/ \A k \in DOMAIN batch[j] : \E r \in table : r.id = batch[j][k].id /\ Placed(r)

Fields == {"status", "started", "warnings", "kept"}
DoneIn(j, record, phases) ==
    record # None /\ record.status = "done" =>
        phase[j] \in phases /\ Ready(batch[j]) /\ Backed(j, record)

JobInv(j) ==
    /\ phase[j] = "idle" => mirror[j] = None /\ redis[j] = None
    /\ phase[j] # "idle" => Fields \subseteq DOMAIN mirror[j]
    /\ redis[j] # None => Fields \subseteq DOMAIN redis[j]
    /\ phase[j] \in {"accepted", "begun"} => asked[j] \in Requests /\ Unknown(asked[j].sources) = {}
    /\ phase[j] \in {"accepted", "begun", "gathered", "prepared", "stored"} => mirror[j].status # "done"
    /\ phase[j] = "gathered" => Batch(batch[j])
    /\ phase[j] \in {"prepared", "stored"} => Ready(batch[j])
    /\ phase[j] = "stored" => Backed(j, mirror[j])
    /\ DoneIn(j, mirror[j], {"done", "failing", "ended"})
    /\ phase[j] = "done" => mirror[j].status = "done"
    /\ DoneIn(j, redis[j], {"ended"})

JobsInv ==
    /\ DOMAIN phase = Jobs /\ DOMAIN asked = Jobs /\ DOMAIN redis = Jobs
    /\ DOMAIN mirror = Jobs /\ DOMAIN batch = Jobs
    /\ subject # "jobs" => \A j \in Jobs : phase[j] = "idle"
    /\ subject = "jobs" => \A r \in table : Placed(r)
    /\ \A j \in Jobs : JobInv(j)

LEMMA InitJobs ==
    ASSUME Init
    PROVE  JobsInv
  <1>1. \A j \in Jobs : phase[j] = "idle" /\ mirror[j] = None /\ redis[j] = None
    BY DEF Init, JobsInit
  <1>2. \A j \in Jobs : JobInv(j)
    BY <1>1 DEF JobInv, DoneIn
  <1>3. table = {}
    BY DEF Init
  <1> QED
    BY <1>1, <1>2, <1>3 DEF Init, JobsInit, JobsInv

\* The rows of a table that has one of every event stay, in one form or another.
KeepsRows == \A r \in table : Placed(r) => \E s \in table' : s.id = r.id /\ Placed(s)
RowsPlaced == \A r \in table : Placed(r)

LEMMA UpsertKeeps ==
    ASSUME NEW b, Ready(b), RowsPlaced, table' = UpsertMany(table, Range(b))
    PROVE  /\ KeepsRows /\ RowsPlaced'
           /\ \A k \in DOMAIN b : \E r \in table' : r.id = b[k].id /\ Placed(r)
  <1> DEFINE known(e) == {r \in table : r.id = e.id}
             row(e) == IF known(e) = {} THEN EventToRow(e) ELSE Updated(CHOOSE r \in known(e) : TRUE, e)
  <1>1. table' = {r \in table : \A e \in Range(b) : e.id # r.id} \cup {row(e) : e \in Range(b)}
    BY DEF UpsertMany
  <1>2. ASSUME NEW e \in Range(b)
        PROVE  row(e).id = e.id /\ Placed(row(e))
    <2>1. PICK k \in DOMAIN b : e = b[k]
      BY DEF Range
    <2>2. ReadyEvent(e)
      BY <2>1 DEF Ready
    <2> QED
      BY <2>2 DEF ReadyEvent
  <1> HIDE DEF row
  <1>3. ASSUME NEW s \in table' PROVE Placed(s)
    BY <1>1, <1>2, <1>3 DEF RowsPlaced
  <1>4. ASSUME NEW r \in table PROVE \E s \in table' : s.id = r.id /\ Placed(s)
    <2>1. CASE \A e \in Range(b) : e.id # r.id
      BY <1>1, <2>1 DEF RowsPlaced
    <2>2. CASE \E e \in Range(b) : e.id = r.id
      BY <1>1, <1>2, <2>2
    <2> QED
      BY <2>1, <2>2
  <1>5. ASSUME NEW k \in DOMAIN b PROVE \E r \in table' : r.id = b[k].id /\ Placed(r)
    <2>1. b[k] \in Range(b)
      BY DEF Range
    <2> QED
      BY <1>1, <1>2, <2>1
  <1> QED
    BY <1>3, <1>4, <1>5 DEF KeepsRows, RowsPlaced

\* A step of the job j.
SameJob(k) ==
    /\ phase'[k] = phase[k] /\ asked'[k] = asked[k] /\ redis'[k] = redis[k]
    /\ mirror'[k] = mirror[k] /\ batch'[k] = batch[k]
StepOf(j) ==
    /\ subject = "jobs" /\ subject' = subject
    /\ DOMAIN phase' = Jobs /\ DOMAIN asked' = Jobs /\ DOMAIN redis' = Jobs
    /\ DOMAIN mirror' = Jobs /\ DOMAIN batch' = Jobs
    /\ \A k \in Jobs : k # j => SameJob(k)

LEMMA BackedStays ==
    ASSUME NEW k, NEW record, asked'[k] = asked[k], batch'[k] = batch[k],
           KeepsRows, Backed(k, record)
    PROVE  Backed(k, record)'
  BY DEF Backed, KeepsRows

LEMMA OtherJob ==
    ASSUME NEW k \in Jobs, JobInv(k), SameJob(k), KeepsRows
    PROVE  JobInv(k)'
  <1>1. Backed(k, mirror[k]) => Backed(k, mirror[k])'
    BY DEF Backed, KeepsRows, SameJob
  <1>2. Backed(k, redis[k]) => Backed(k, redis[k])'
    BY DEF Backed, KeepsRows, SameJob
  <1>3. DoneIn(k, mirror[k], {"done", "failing", "ended"})'
    BY <1>1 DEF JobInv, DoneIn, SameJob
  <1>4. DoneIn(k, redis[k], {"ended"})'
    BY <1>2 DEF JobInv, DoneIn, SameJob
  <1> QED
    BY <1>1, <1>3, <1>4 DEF JobInv, SameJob

LEMMA StepKept ==
    ASSUME JobsInv, NEW j \in Jobs, StepOf(j), KeepsRows, RowsPlaced', JobInv(j)'
    PROVE  JobsInv'
  <1>1. ASSUME NEW k \in Jobs PROVE JobInv(k)'
    BY OtherJob DEF JobsInv, StepOf
  <1> QED
    BY <1>1 DEF JobsInv, StepOf, RowsPlaced

LEMMA SameTable ==
    ASSUME JobsInv, subject = "jobs", UNCHANGED table
    PROVE  KeepsRows /\ RowsPlaced /\ RowsPlaced'
  BY DEF JobsInv, KeepsRows, RowsPlaced

LEMMA TriggerKept ==
    ASSUME JobsInv, NEW j \in Jobs, Serve("jobs"), Trigger(j)
    PROVE  JobsInv'
  <1>1. KeepsRows /\ RowsPlaced'
    BY SameTable DEF Trigger, Serve
  <1>2. StepOf(j)
    BY DEF JobsInv, StepOf, SameJob, Trigger, Moves, InRedis, Serve
  <1>3. phase[j] = "idle" /\ redis[j] = None
    BY DEF JobsInv, JobInv, Trigger, Moves
  <1>4. /\ phase'[j] = "accepted" /\ mirror'[j] = Record("pending")
        /\ redis'[j] = None \/ redis'[j] = Record("pending")
        /\ asked'[j] \in Requests /\ Unknown(asked'[j].sources) = {}
    BY <1>3 DEF JobsInv, Trigger, Moves, InRedis
  <1>5. JobInv(j)'
    BY <1>4 DEF JobInv, DoneIn, Record, Fields
  <1> QED
    BY <1>1, <1>2, <1>5, StepKept

LEMMA BeginKept ==
    ASSUME JobsInv, NEW j \in Jobs, Serve("jobs"), Begin(j)
    PROVE  JobsInv'
  <1>1. KeepsRows /\ RowsPlaced'
    BY SameTable DEF Begin, Serve
  <1> DEFINE found == IF bus THEN redis[j] ELSE mirror[j]
             record == IF found = None THEN [Record("running") EXCEPT !.started = FALSE]
                       ELSE [found EXCEPT !.status = "running"]
  <1>2. PICK ok \in BOOLEAN :
           /\ Moves(j, "accepted", IF ok THEN "begun" ELSE "killed")
           /\ InRedis(j, record, ok)
           /\ mirror' = IF ok THEN [mirror EXCEPT ![j] = record] ELSE mirror
    BY DEF Begin
  <1>3. phase[j] = "accepted" /\ JobInv(j)
    BY <1>2 DEF Moves, JobsInv
  <1>4. Fields \subseteq DOMAIN record /\ record.status = "running"
    BY <1>3 DEF JobInv, Record, Fields
  <1> HIDE DEF record
  <1>5. StepOf(j)
    BY <1>2 DEF JobsInv, StepOf, SameJob, Begin, Moves, InRedis, Serve
  <1>6. /\ phase'[j] = IF ok THEN "begun" ELSE "killed"
        /\ mirror'[j] = IF ok THEN record ELSE mirror[j]
        /\ redis'[j] \in {redis[j], record}
        /\ asked'[j] = asked[j] /\ batch'[j] = batch[j]
    BY <1>2 DEF JobsInv, Begin, Moves, InRedis
  <1>7. /\ ~(mirror[j] # None /\ mirror[j].status = "done")
        /\ ~(redis[j] # None /\ redis[j].status = "done")
    BY <1>3 DEF JobInv, DoneIn
  <1>8. DoneIn(j, mirror[j], {"done", "failing", "ended"})' /\ DoneIn(j, redis[j], {"ended"})'
    BY <1>4, <1>6, <1>7 DEF DoneIn
  <1>9. JobInv(j)'
    BY <1>3, <1>4, <1>6, <1>8 DEF JobInv
  <1> QED
    BY <1>1, <1>5, <1>9, StepKept

LEMMA GatherKept ==
    ASSUME JobsInv, NEW j \in Jobs, Serve("jobs"), Gather(j)
    PROVE  JobsInv'
  <1>1. KeepsRows /\ RowsPlaced'
    BY SameTable DEF Gather, Serve
  <1> DEFINE allowed == Allowed(asked[j].sources)
  <1>2. PICK a \in {f \in [allowed -> UNION {Answers[t] : t \in allowed}] : \A t \in allowed : f[t] \in Answers[t]} :
        \E q \in SetToAllKPermutations(Pool(QueryTasks, allowed)), l \in SetToAllKPermutations(Pool(LiveTasks, allowed)) :
          /\ Range(q \o l) = allowed
          /\ batch' = [batch EXCEPT ![j] = OrchestratorRun(a, q \o l).events]
    BY DEF Gather
  <1>3. PICK q \in SetToAllKPermutations(Pool(QueryTasks, allowed)) :
        \E l \in SetToAllKPermutations(Pool(LiveTasks, allowed)) :
          /\ Range(q \o l) = allowed
          /\ batch' = [batch EXCEPT ![j] = OrchestratorRun(a, q \o l).events]
    BY <1>2
  <1>4. PICK l \in SetToAllKPermutations(Pool(LiveTasks, allowed)) :
          /\ Range(q \o l) = allowed
          /\ batch' = [batch EXCEPT ![j] = OrchestratorRun(a, q \o l).events]
    BY <1>3
  <1> DEFINE done == q \o l
  <1>5. \E n \in Nat : DOMAIN done = 1..n
    BY TasksDone
  <1>6. phase[j] = "begun" /\ JobInv(j)
    BY DEF Gather, Moves, JobsInv
  <1>7. allowed \subseteq DOMAIN Answers
    BY <1>6, AnswersAssumption DEF JobInv
  <1> HIDE DEF allowed, done
  <1>8. \A i \in DOMAIN done : done[i] \in allowed
    BY <1>4 DEF Range, done
  <1>9. \A t \in allowed : a[t] \in Answers[t]
    BY <1>2
  <1>10. Reporting(a, done)
    <2>1. ASSUME NEW i \in DOMAIN done
          PROVE  LET events == a[done[i]].events
                 IN  events \in Seq(Range(events)) /\ \A e \in Range(events) : IsEvent(e)
      BY <1>7, <1>8, <1>9, AnswersAssumption
    <2> QED
      BY <1>5, <2>1 DEF Reporting
  <1>11. Batch(OrchestratorRun(a, done).events)
    BY <1>10, RunBatch
  <1>12. StepOf(j)
    BY <1>4 DEF JobsInv, StepOf, SameJob, Gather, Moves, Serve, recordVars
  <1>13. /\ phase'[j] = "gathered" /\ mirror'[j] = mirror[j] /\ redis'[j] = redis[j]
         /\ asked'[j] = asked[j] /\ Batch(batch'[j])
    BY <1>4, <1>11 DEF JobsInv, Gather, Moves, recordVars, done
  <1>14. /\ ~(mirror[j] # None /\ mirror[j].status = "done")
         /\ ~(redis[j] # None /\ redis[j].status = "done")
    BY <1>6 DEF JobInv, DoneIn
  <1>15. DoneIn(j, mirror[j], {"done", "failing", "ended"})' /\ DoneIn(j, redis[j], {"ended"})'
    BY <1>13, <1>14 DEF DoneIn
  <1>16. JobInv(j)'
    BY <1>6, <1>13, <1>15 DEF JobInv
  <1> QED
    BY <1>1, <1>12, <1>16, StepKept

LEMMA PrepareKept ==
    ASSUME JobsInv, NEW j \in Jobs, Serve("jobs"), Prepare(j)
    PROVE  JobsInv'
  <1>1. KeepsRows /\ RowsPlaced'
    BY SameTable DEF Prepare, Serve
  <1> DEFINE full == IF asked[j].enrich THEN Enrich(batch[j]) ELSE batch[j]
  <1>2. phase[j] = "gathered" /\ JobInv(j)
    BY DEF Prepare, Moves, JobsInv
  <1>3. Batch(batch[j])
    BY <1>2 DEF JobInv
  <1>4. Batch(full)
    BY <1>3, EnrichFollows, BatchFollows
  <1>5. Ready(Process(registry, full).events)
    BY <1>4, ProcessReady
  <1>6. batch' = [batch EXCEPT ![j] = Process(registry, full).events]
    BY DEF Prepare
  <1> HIDE DEF full
  <1>7. StepOf(j)
    BY <1>6 DEF JobsInv, StepOf, SameJob, Prepare, Moves, Serve, recordVars
  <1>8. /\ phase'[j] = "prepared" /\ mirror'[j] = mirror[j] /\ redis'[j] = redis[j]
        /\ asked'[j] = asked[j] /\ Ready(batch'[j])
    BY <1>5, <1>6 DEF JobsInv, Prepare, Moves, recordVars
  <1>9. /\ ~(mirror[j] # None /\ mirror[j].status = "done")
        /\ ~(redis[j] # None /\ redis[j].status = "done")
    BY <1>2 DEF JobInv, DoneIn
  <1>10. DoneIn(j, mirror[j], {"done", "failing", "ended"})' /\ DoneIn(j, redis[j], {"ended"})'
    BY <1>8, <1>9 DEF DoneIn
  <1>11. JobInv(j)'
    BY <1>2, <1>8, <1>10 DEF JobInv
  <1> QED
    BY <1>1, <1>7, <1>11, StepKept

\* A step that leaves the table and the batch of its job alone.
LEMMA QuietStep ==
    ASSUME JobsInv, NEW j \in Jobs, StepOf(j), UNCHANGED <<table, asked, batch>>,
           JobInv(j) => JobInv(j)'
    PROVE  JobsInv'
  <1>1. KeepsRows /\ RowsPlaced'
    BY SameTable DEF StepOf
  <1>2. JobInv(j)'
    BY DEF JobsInv
  <1> QED
    BY <1>1, <1>2, StepKept

LEMMA StoreKept ==
    ASSUME JobsInv, NEW j \in Jobs, Serve("jobs"), Store(j)
    PROVE  JobsInv'
  <1>1. phase[j] = "prepared" /\ JobInv(j)
    BY DEF Store, Moves, JobsInv
  <1>2. Ready(batch[j]) /\ Fields \subseteq DOMAIN mirror[j]
    BY <1>1 DEF JobInv
  <1>3. RowsPlaced
    BY DEF Serve, JobsInv, RowsPlaced
  <1>4. StepOf(j)
    BY DEF JobsInv, StepOf, SameJob, Store, Moves, Serve
  <1>5. /\ phase'[j] = "stored" /\ redis'[j] = redis[j]
        /\ asked' = asked /\ batch' = batch
    BY DEF JobsInv, Store, Moves
  <1>6. /\ ~(mirror[j] # None /\ mirror[j].status = "done")
        /\ ~(redis[j] # None /\ redis[j].status = "done")
    BY <1>1 DEF JobInv, DoneIn
  <1>7. ASSUME mirror'[j].status = mirror[j].status
        PROVE  mirror'[j].status # "done" /\ DoneIn(j, mirror[j], {"done", "failing", "ended"})'
    BY <1>1, <1>7 DEF JobInv, DoneIn
  <1>8. /\ KeepsRows /\ RowsPlaced' /\ Backed(j, mirror[j])'
        /\ Fields \subseteq DOMAIN mirror'[j] /\ mirror'[j].status # "done"
        /\ DoneIn(j, mirror[j], {"done", "failing", "ended"})'
    <2>1. CASE (~asked[j].db \/ batch[j] = <<>>) /\ UNCHANGED <<table, mirror>>
      <3>1. KeepsRows /\ RowsPlaced'
        BY <1>3, <2>1 DEF KeepsRows, RowsPlaced
      <3>2. ~asked[j].db \/ DOMAIN batch[j] = {}
        BY <2>1
      <3>3. Backed(j, mirror[j])'
        BY <1>5, <3>2 DEF Backed
      <3>4. mirror'[j].status # "done" /\ DoneIn(j, mirror[j], {"done", "failing", "ended"})'
        BY <1>7, <2>1
      <3> QED
        BY <1>2, <2>1, <3>1, <3>3, <3>4
    <2>2. CASE table' = UpsertMany(table, Range(batch[j])) /\ UNCHANGED mirror
      <3>1. /\ KeepsRows /\ RowsPlaced'
            /\ \A k \in DOMAIN batch[j] : \E r \in table' : r.id = batch[j][k].id /\ Placed(r)
        BY <1>2, <1>3, <2>2, UpsertKeeps
      <3>2. Backed(j, mirror[j])'
        BY <1>5, <3>1 DEF Backed
      <3>3. mirror'[j].status # "done" /\ DoneIn(j, mirror[j], {"done", "failing", "ended"})'
        BY <1>7, <2>2
      <3> QED
        BY <1>2, <2>2, <3>1, <3>2, <3>3
    <2>3. CASE mirror' = [mirror EXCEPT ![j].warnings = @ \cup {"DB persist"}] /\ UNCHANGED table
      <3>1. KeepsRows /\ RowsPlaced'
        BY <1>3, <2>3 DEF KeepsRows, RowsPlaced
      <3>2. mirror'[j] = [mirror[j] EXCEPT !.warnings = @ \cup {"DB persist"}]
        BY <2>3 DEF JobsInv
      <3>3. /\ mirror'[j].status = mirror[j].status /\ "DB persist" \in mirror'[j].warnings
            /\ Fields \subseteq DOMAIN mirror'[j]
        BY <1>2, <3>2 DEF Fields
      <3>4. Backed(j, mirror[j])'
        BY <3>3 DEF Backed
      <3>5. mirror'[j].status # "done" /\ DoneIn(j, mirror[j], {"done", "failing", "ended"})'
        BY <1>7, <3>3
      <3> QED
        BY <3>1, <3>3, <3>4, <3>5
    <2> QED
      BY <2>1, <2>2, <2>3 DEF Store
  <1>9. DoneIn(j, redis[j], {"ended"})'
    BY <1>5, <1>6 DEF DoneIn
  <1>10. JobInv(j)'
    BY <1>1, <1>2, <1>5, <1>8, <1>9 DEF JobInv
  <1> QED
    BY <1>4, <1>8, <1>10, StepKept

LEMMA MarkDoneKept ==
    ASSUME JobsInv, NEW j \in Jobs, Serve("jobs"), MarkDone(j)
    PROVE  JobsInv'
  <1>1. StepOf(j)
    BY DEF JobsInv, StepOf, SameJob, MarkDone, Moves, Serve
  <1>2. phase[j] = "stored" /\ JobInv(j)
    BY DEF MarkDone, Moves, JobsInv
  <1>3. /\ phase'[j] = "done" /\ mirror'[j] = [mirror[j] EXCEPT !.status = "done", !.kept = TRUE]
        /\ UNCHANGED <<table, asked, batch, redis>>
    BY DEF JobsInv, MarkDone, Moves
  <1>4. Fields \subseteq DOMAIN mirror[j] /\ Backed(j, mirror[j]) /\ Ready(batch[j])
    BY <1>2 DEF JobInv
  <1>5. /\ mirror'[j].status = "done" /\ mirror'[j].warnings = mirror[j].warnings
        /\ Fields \subseteq DOMAIN mirror'[j]
    BY <1>3, <1>4 DEF Fields
  <1>6. Backed(j, mirror[j])'
    BY <1>3, <1>4, <1>5 DEF Backed
  <1>7. DoneIn(j, mirror[j], {"done", "failing", "ended"})'
    BY <1>3, <1>4, <1>6 DEF DoneIn
  <1>8. DoneIn(j, redis[j], {"ended"})'
    BY <1>2, <1>3 DEF JobInv, DoneIn
  <1>9. JobInv(j)'
    BY <1>2, <1>3, <1>5, <1>6, <1>7, <1>8 DEF JobInv
  <1> QED
    BY <1>1, <1>3, <1>9, QuietStep

LEMMA RecordDoneKept ==
    ASSUME JobsInv, NEW j \in Jobs, Serve("jobs"), RecordDone(j)
    PROVE  JobsInv'
  <1>1. PICK ok \in BOOLEAN : /\ Moves(j, "done", IF ok THEN "ended" ELSE "failing")
                              /\ Called(ok) /\ InRedis(j, mirror[j], ok)
    BY DEF RecordDone
  <1>2. StepOf(j)
    BY <1>1 DEF JobsInv, StepOf, SameJob, RecordDone, Moves, InRedis, Serve
  <1>3. phase[j] = "done" /\ JobInv(j)
    BY <1>1 DEF Moves, JobsInv
  <1>4. /\ phase'[j] = IF ok THEN "ended" ELSE "failing"
        /\ redis'[j] = redis[j] \/ (ok /\ redis'[j] = mirror[j])
        /\ UNCHANGED <<table, asked, batch, mirror>>
    BY <1>1 DEF JobsInv, RecordDone, Moves, InRedis
  <1>5. Fields \subseteq DOMAIN mirror[j] /\ ~(redis[j] # None /\ redis[j].status = "done")
    BY <1>3 DEF JobInv, DoneIn
  <1>6. mirror[j] # None => Ready(batch[j]) /\ Backed(j, mirror[j])'
    BY <1>3, <1>4 DEF JobInv, DoneIn, Backed
  <1>7. DoneIn(j, mirror[j], {"done", "failing", "ended"})'
    BY <1>4, <1>6 DEF DoneIn
  <1>8. DoneIn(j, redis[j], {"ended"})'
    <2>1. CASE redis'[j] = redis[j]
      BY <1>5, <2>1 DEF DoneIn
    <2>2. CASE ok /\ redis'[j] = mirror[j]
      BY <1>4, <1>6, <2>2 DEF DoneIn, Backed
    <2> QED
      BY <1>4, <2>1, <2>2
  <1>9. JobInv(j)'
    BY <1>3, <1>4, <1>5, <1>7, <1>8 DEF JobInv
  <1> QED
    BY <1>2, <1>4, <1>9, QuietStep

LEMMA BreakKept ==
    ASSUME JobsInv, NEW j \in Jobs, Serve("jobs"), Break(j)
    PROVE  JobsInv'
  <1>1. StepOf(j)
    BY DEF JobsInv, StepOf, SameJob, Break, Moves, Serve, recordVars
  <1>2. phase[j] \in {"begun", "gathered"} /\ JobInv(j)
    BY DEF Break, Moves, JobsInv
  <1>3. phase'[j] = "failing" /\ UNCHANGED <<table, asked, batch, mirror, redis>>
    BY DEF JobsInv, Break, Moves, recordVars
  <1>4. /\ ~(mirror[j] # None /\ mirror[j].status = "done")
        /\ ~(redis[j] # None /\ redis[j].status = "done")
    BY <1>2 DEF JobInv, DoneIn
  <1>5. DoneIn(j, mirror[j], {"done", "failing", "ended"})' /\ DoneIn(j, redis[j], {"ended"})'
    BY <1>3, <1>4 DEF DoneIn
  <1>6. JobInv(j)'
    BY <1>2, <1>3, <1>5 DEF JobInv
  <1> QED
    BY <1>1, <1>3, <1>6, QuietStep

LEMMA MarkFailedKept ==
    ASSUME JobsInv, NEW j \in Jobs, Serve("jobs"), MarkFailed(j)
    PROVE  JobsInv'
  <1>1. StepOf(j)
    BY DEF JobsInv, StepOf, SameJob, MarkFailed, Moves, Serve
  <1>2. phase[j] = "failing" /\ JobInv(j)
    BY DEF MarkFailed, Moves, JobsInv
  <1>3. /\ phase'[j] = "failed" /\ mirror'[j] = [mirror[j] EXCEPT !.status = "failed"]
        /\ UNCHANGED <<table, asked, batch, redis>>
    BY DEF JobsInv, MarkFailed, Moves
  <1>4. Fields \subseteq DOMAIN mirror'[j] /\ mirror'[j].status = "failed"
    BY <1>2, <1>3 DEF JobInv, Fields
  <1>5. ~(redis[j] # None /\ redis[j].status = "done")
    BY <1>2 DEF JobInv, DoneIn
  <1>6. DoneIn(j, mirror[j], {"done", "failing", "ended"})' /\ DoneIn(j, redis[j], {"ended"})'
    BY <1>3, <1>4, <1>5 DEF DoneIn
  <1>7. JobInv(j)'
    BY <1>2, <1>3, <1>4, <1>6 DEF JobInv
  <1> QED
    BY <1>1, <1>3, <1>7, QuietStep

LEMMA RecordFailedKept ==
    ASSUME JobsInv, NEW j \in Jobs, Serve("jobs"), RecordFailed(j)
    PROVE  JobsInv'
  <1>1. PICK ok \in BOOLEAN : /\ Moves(j, "failed", IF ok THEN "ended" ELSE "killed")
                              /\ InRedis(j, mirror[j], ok)
    BY DEF RecordFailed
  <1>2. StepOf(j)
    BY <1>1 DEF JobsInv, StepOf, SameJob, RecordFailed, Moves, InRedis, Serve
  <1>3. phase[j] = "failed" /\ JobInv(j)
    BY <1>1 DEF Moves, JobsInv
  <1>4. /\ phase'[j] \in {"ended", "killed"} /\ redis'[j] \in {redis[j], mirror[j]}
        /\ UNCHANGED <<table, asked, batch, mirror>>
    BY <1>1 DEF JobsInv, RecordFailed, Moves, InRedis
  <1>5. /\ ~(mirror[j] # None /\ mirror[j].status = "done")
        /\ ~(redis[j] # None /\ redis[j].status = "done")
    BY <1>3 DEF JobInv, DoneIn
  <1>6. DoneIn(j, mirror[j], {"done", "failing", "ended"})' /\ DoneIn(j, redis[j], {"ended"})'
    BY <1>4, <1>5 DEF DoneIn
  <1>7. JobInv(j)'
    BY <1>3, <1>4, <1>6 DEF JobInv
  <1> QED
    BY <1>2, <1>4, <1>7, QuietStep

\* Whoever else is served leaves the jobs as they are.
LEMMA OtherServed ==
    ASSUME JobsInv, subject # "jobs", subject' = subject, UNCHANGED jobVars
    PROVE  JobsInv'
  <1>1. ASSUME NEW j \in Jobs PROVE JobInv(j)'
    <2>1. phase[j] = "idle" /\ mirror[j] = None /\ redis[j] = None
      BY DEF JobsInv, JobInv
    <2>2. phase'[j] = "idle" /\ mirror'[j] = None /\ redis'[j] = None
      BY <2>1 DEF jobVars
    <2> QED
      BY <2>2 DEF JobInv, DoneIn
  <1> QED
    BY <1>1 DEF JobsInv, jobVars

LEMMA JobsStep ==
    ASSUME JobsInv, [Next]_vars
    PROVE  JobsInv'
  <1>1. CASE JobsServed
    <2>1. PICK j \in Jobs : Trigger(j) \/ Break(j) \/ JobStep(j)
      BY <1>1 DEF JobsServed
    <2>2. Serve("jobs")
      BY <1>1 DEF JobsServed
    <2> QED
      BY <2>1, <2>2, TriggerKept, BreakKept, BeginKept, GatherKept, PrepareKept, StoreKept,
         MarkDoneKept, RecordDoneKept, MarkFailedKept, RecordFailedKept DEF JobStep
  <1>2. CASE Stored
    BY <1>2, OtherServed DEF Stored
  <1>3. CASE ScreenServed
    BY <1>3, OtherServed DEF ScreenServed, Session, Serve
  <1>4. CASE ViewsServed
    BY <1>4, OtherServed DEF ViewsServed, Serve
  <1>5. CASE ReaderServed
    BY <1>5, OtherServed DEF ReaderServed, Serve
  <1>6. CASE WalkerServed
    BY <1>6, OtherServed DEF WalkerServed, Serve
  <1>7. CASE UNCHANGED vars
    <2>1. UNCHANGED <<subject, table, jobVars>>
      BY <1>7 DEF vars
    <2>2. ASSUME NEW j \in Jobs PROVE JobInv(j)'
      BY <2>1 DEF JobsInv, JobInv, DoneIn, Backed, jobVars
    <2> QED
      BY <2>1, <2>2 DEF JobsInv, jobVars
  <1> QED
    BY <1>1, <1>2, <1>3, <1>4, <1>5, <1>6, <1>7 DEF Next

\* In a batch that is ready every id is found once, and every name once in its event.
LEMMA ReadyOnce ==
    ASSUME NEW b, Ready(b)
    PROVE  /\ Cardinality({e.id : e \in Range(b)}) = Len(b)
           /\ \A e \in Range(b) : Placed(e) /\ Cardinality({a.name : a \in Range(e.actors)}) = Len(e.actors)
  <1>1. Len(b) \in Nat /\ DOMAIN b = 1..Len(b)
    BY SequenceIs DEF Ready, Batch
  <1>2. Cardinality({e.id : e \in Range(b)}) = Len(b)
    <2> DEFINE f == [k \in 1..Len(b) |-> b[k].id]
    <2>1. {e.id : e \in Range(b)} = {f[k] : k \in 1..Len(b)}
      BY <1>1 DEF Range
    <2>2. \A k, l \in 1..Len(b) : f[k] = f[l] => k = l
      BY <1>1 DEF Ready, Batch
    <2>3. DOMAIN f = 1..Len(b) /\ f = [k \in 1..Len(b) |-> f[k]]
      OBVIOUS
    <2> HIDE DEF f
    <2> QED
      BY <1>1, <2>1, <2>2, <2>3, EachOnce
  <1>3. ASSUME NEW e \in Range(b)
        PROVE  Placed(e) /\ Cardinality({a.name : a \in Range(e.actors)}) = Len(e.actors)
    <2>1. ReadyEvent(e)
      BY DEF Ready, Range
    <2> DEFINE n == Len(e.actors)
               f == [k \in 1..n |-> e.actors[k].name]
    <2>2. n \in Nat /\ DOMAIN e.actors = 1..n
      BY <2>1, ActorsAre DEF ReadyEvent, Wide
    <2>3. {a.name : a \in Range(e.actors)} = {f[k] : k \in 1..n}
      BY <2>2 DEF Range
    <2>4. \A k, l \in 1..n : f[k] = f[l] => k = l
      BY <2>1, <2>2 DEF ReadyEvent, NamedOnce
    <2>5. DOMAIN f = 1..n /\ f = [k \in 1..n |-> f[k]]
      OBVIOUS
    <2> HIDE DEF f, n
    <2>6. Cardinality({f[k] : k \in 1..n}) = n
      BY <2>2, <2>4, <2>5, EachOnce
    <2>7. Cardinality({a.name : a \in Range(e.actors)}) = Len(e.actors)
      BY <2>3, <2>6 DEF n
    <2> QED
      BY <2>1, <2>7 DEF ReadyEvent
  <1> QED
    BY <1>2, <1>3

\* Whatever a job recorded as done has gathered is stored, or it was not asked
\* to store or warns that it did not; in memory it is there once, with a place
\* where one can be told.
THEOREM EveryDoneIsBacked == Spec => []DoneIsBacked
  <1>1. JobsInv => DoneIsBacked
    <2> SUFFICES ASSUME JobsInv, NEW j \in Jobs, NEW record \in {redis[j], mirror[j]} \ {None},
                        record.status = "done"
                 PROVE  /\ \/ ~asked[j].db \/ "DB persist" \in record.warnings
                           \/ \A e \in Range(batch[j]) : \E r \in table : r.id = e.id /\ Placed(r)
                        /\ Cardinality({e.id : e \in Range(batch[j])}) = Len(batch[j])
                        /\ \A e \in Range(batch[j]) :
                             Placed(e) /\ Cardinality({a.name : a \in Range(e.actors)}) = Len(e.actors)
      BY DEF DoneIsBacked
    <2>1. Ready(batch[j]) /\ Backed(j, record)
      BY DEF JobsInv, JobInv, DoneIn
    <2>2. \/ ~asked[j].db \/ "DB persist" \in record.warnings
          \/ \A e \in Range(batch[j]) : \E r \in table : r.id = e.id /\ Placed(r)
      BY <2>1 DEF Backed, Range
    <2> QED
      BY <2>1, <2>2, ReadyOnce
  <1> QED
    BY <1>1, InitJobs, JobsStep, PTL DEF Spec
-----------------------------------------------------------------------------
(* The walk.                                                               *)

\* What the order of pages needs of rows, the row that comes before another, and
\* the row that has its times for itself.
IsRow(r) == EventFields \subseteq DOMAIN r /\ r.id \in Int /\ {r.ts, r.ingest} \subseteq Int \cup {None}
OneRowEach == IsFiniteSet(table) /\ (\A r \in table : IsRow(r)) /\ \A r, s \in table : r.id = s.id => r = s
First(x, y) == Later(x.ts, y.ts) \/ (x.ts = y.ts /\ Later(x.ingest, y.ingest))
Position(r) == Cardinality({x \in Matching : First(x, r)})
Alone(r) == \A y \in Matching : y.ts = r.ts /\ y.ingest = r.ingest => y.id = r.id

\* Between two requests: no event that is owed and was not returned stands
\* before the place where the walk goes on, unless it is tied with another.
Owing(n) == \A id \in walk.owed \ walk.got : \E r \in Matching : r.id = id /\ (Alone(r) => Position(r) >= n)
Reached == walk.offset + IF walk.phase = "counting" THEN walk.listed ELSE 0
Walks == [phase : {"resting", "reading", "counting", "ended"}, offset : Nat, listed : Nat,
          got : SUBSET Int, owed : SUBSET Int, moved : BOOLEAN, cut : BOOLEAN]
WalkInv ==
    /\ walk \in Walks
    /\ subject # "walker" => walk.phase = "resting"
    /\ subject = "walker" => OneRowEach /\ \A j \in Jobs : mirror[j] = None
    /\ walk.phase = "resting" => walk.owed = {}
    /\ subject = "walker" /\ ~walk.moved => Owing(Reached)
    /\ WalkComplete

\* The keys are compared from left to right.
WalkKey(e) == <<e.ts, e.ingest>>
LEMMA FirstIs ==
    ASSUME NEW x, NEW y
    PROVE  Before(WalkKey(x), WalkKey(y)) <=> First(x, y)
  <1>1. /\ DOMAIN WalkKey(x) = {1, 2} /\ WalkKey(x)[1] = x.ts /\ WalkKey(x)[2] = x.ingest
        /\ WalkKey(y)[1] = y.ts /\ WalkKey(y)[2] = y.ingest
    BY DEF WalkKey
  <1>2. 1..(1 - 1) = {} /\ 1..(2 - 1) = {1}
    OBVIOUS
  <1> DEFINE At(i) == Later(WalkKey(x)[i], WalkKey(y)[i]) /\ \A j \in 1..(i - 1) : WalkKey(x)[j] = WalkKey(y)[j]
  <1>3. Before(WalkKey(x), WalkKey(y)) <=> At(1) \/ At(2)
    BY <1>1 DEF Before
  <1>4. At(1) <=> Later(x.ts, y.ts)
    BY <1>1, <1>2
  <1>5. At(2) <=> x.ts = y.ts /\ Later(x.ingest, y.ingest)
    BY <1>1, <1>2
  <1> QED
    BY <1>3, <1>4, <1>5 DEF First

\* No row is past the end of a table.
LEMMA PositionsInside ==
    ASSUME OneRowEach
    PROVE  /\ IsFiniteSet(Matching) /\ Cardinality(Matching) \in Nat
           /\ \A r \in Matching : Position(r) \in Nat /\ Position(r) < Cardinality(Matching)
  <1>1. Matching \subseteq table
    BY DEF Matching, Selected
  <1>2. IsFiniteSet(Matching) /\ Cardinality(Matching) \in Nat
    BY <1>1, FS_Subset, FS_CardinalityType DEF OneRowEach
  <1>3. ASSUME NEW r \in Matching
        PROVE  Position(r) \in Nat /\ Position(r) < Cardinality(Matching)
    <2> DEFINE T == {x \in Matching : First(x, r)}
    <2>1. r \notin T
      BY <1>1, NoneAssumption DEF First, Later, OneRowEach, IsRow
    <2>2. T \in SUBSET Matching /\ T # Matching
      BY <2>1
    <2>3. Cardinality(T) \in Nat /\ Cardinality(T) <= Cardinality(Matching) /\ Cardinality(T) # Cardinality(Matching)
      BY <1>2, <2>2, FS_Subset, FS_CardinalityType
    <2> QED
      BY <1>2, <2>3 DEF Position
  <1> QED
    BY <1>2, <1>3

\* Only a row itself has the times of a row that has them for itself.
LEMMA NoneBeside ==
    ASSUME OneRowEach, NEW r \in Matching, Alone(r)
    PROVE  {x \in Matching : ~Before(WalkKey(x), WalkKey(r)) /\ ~Before(WalkKey(r), WalkKey(x))} = {r}
  <1>1. \A x \in Matching : IsRow(x) /\ x \in table
    BY DEF Matching, Selected, OneRowEach
  <1>2. ASSUME NEW x \in Matching, ~First(x, r), ~First(r, x)
        PROVE  x = r
    <2>1. x.ts = r.ts /\ x.ingest = r.ingest
      BY <1>1, <1>2, NoneAssumption DEF First, Later, IsRow
    <2>2. x.id = r.id
      BY <2>1 DEF Alone
    <2> QED
      BY <1>1, <2>2 DEF OneRowEach
  <1>3. ~First(r, r)
    BY <1>1, NoneAssumption DEF First, Later, IsRow
  <1> QED
    BY <1>2, <1>3, FirstIs

\* The greater and the smaller of two numbers.
LEMMA Extremes ==
    ASSUME NEW a \in Int, NEW b \in Int
    PROVE  /\ Max({a, b}) = IF a >= b THEN a ELSE b
           /\ Min({a, b}) = IF a <= b THEN a ELSE b
  BY DEF Max, Min

\* A page has no more rows than its limit, and of those that have their times for
\* themselves the ones from its offset on.
LEMMA PageIs ==
    ASSUME OneRowEach, NEW offset \in Nat, NEW page \in ListPages(table, Scope, WalkLimit, offset)
    PROVE  /\ Cardinality(page) \in Nat /\ Cardinality(page) <= WalkLimit
           /\ Ids(page) \subseteq Int
           /\ \A r \in Matching :
                Alone(r) /\ Position(r) >= offset /\ Position(r) < offset + WalkLimit => r.id \in Ids(page)
  <1> DEFINE Beside(e) == Cardinality({x \in Matching : ~Before(WalkKey(x), WalkKey(e)) /\ ~Before(WalkKey(e), WalkKey(x))}) - 1
             Ahead(e) == Cardinality({x \in Matching : Before(WalkKey(x), WalkKey(e))})
             room == Min({WalkLimit, Max({0, Cardinality(Matching) - offset})})
  <1>1. PICK P \in SUBSET Matching :
          /\ page = {RowToEvent(r) : r \in P}
          /\ Cardinality(P) = room
          /\ \A e \in Matching : Ahead(e) >= offset /\ Ahead(e) + Beside(e) < offset + WalkLimit => e \in P
    BY DEF ListPages, Pages, Rank, WalkKey, Matching
  <1>2. IsFiniteSet(Matching) /\ Cardinality(Matching) \in Nat
    BY PositionsInside
  <1>3. room \in Nat /\ room <= WalkLimit
    <2> DEFINE d == Cardinality(Matching) - offset
               m == Max({0, d})
    <2>1. d \in Int
      BY <1>2
    <2> HIDE DEF d
    <2>2. m \in Nat
      BY <2>1, Extremes
    <2> HIDE DEF m
    <2>3. Min({WalkLimit, m}) = IF WalkLimit <= m THEN WalkLimit ELSE m
      BY <2>2, Extremes, ServingAssumption
    <2>4. Min({WalkLimit, m}) \in Nat /\ Min({WalkLimit, m}) <= WalkLimit
      BY <2>2, <2>3, ServingAssumption
    <2> QED
      BY <2>4 DEF m, d
  <1> HIDE DEF room
  <1>4. \A r \in P : RowToEvent(r).id = r.id /\ r.id \in Int
    BY DEF RowToEvent, IsRow, EventFields, OneRowEach, Matching, Selected
  <1>5. Ids(page) = {r.id : r \in P} /\ Ids(page) \subseteq Int
    BY <1>1, <1>4 DEF Ids
  <1>6. IsFiniteSet(page) /\ Cardinality(page) <= Cardinality(P)
    <2> DEFINE shown == [r \in P |-> RowToEvent(r)]
    <2>1. IsFiniteSet(P)
      BY <1>2, FS_Subset
    <2>2. shown \in Surjection(P, page)
      BY <1>1 DEF Surjection
    <2> HIDE DEF shown
    <2> QED
      BY <2>1, <2>2, FS_Surjection
  <1>7. Cardinality(page) \in Nat /\ Cardinality(page) <= WalkLimit
    BY <1>1, <1>3, <1>6, FS_CardinalityType, ServingAssumption
  <1>8. ASSUME NEW r \in Matching, Alone(r), Position(r) >= offset, Position(r) < offset + WalkLimit
        PROVE  r.id \in Ids(page)
    <2>1. Beside(r) = 0
      <3> DEFINE T == {x \in Matching : ~Before(WalkKey(x), WalkKey(r)) /\ ~Before(WalkKey(r), WalkKey(x))}
      <3>1. T = {r}
        BY <1>8, NoneBeside
      <3> HIDE DEF T
      <3>2. Cardinality(T) = 1
        BY <3>1, FS_Singleton
      <3> QED
        BY <3>2 DEF T
    <2>2. Ahead(r) = Position(r)
      BY FirstIs DEF Position
    <2>3. Position(r) \in Nat
      BY PositionsInside
    <2> HIDE DEF Beside, Ahead
    <2>4. Ahead(r) >= offset /\ Ahead(r) + Beside(r) < offset + WalkLimit
      BY <1>8, <2>1, <2>2, <2>3
    <2>5. r \in P
      BY <1>1, <2>4
    <2> QED
      BY <1>5, <2>5
  <1> QED
    BY <1>5, <1>7, <1>8

LEMMA InitWalk == Init => WalkInv
  BY FS_EmptySet DEF Init, JobsInit, WalkInv, Resting, Walks, OneRowEach, Owing, WalkComplete

\* What is stored or reported anew leaves every row a row of its id, with its
\* ingest time.
LEMMA RowsStay ==
    ASSUME OneRowEach, NEW e, IsEvent(e), table' = UpsertMany(table, {e})
    PROVE  /\ OneRowEach'
           /\ \A r \in table : \E s \in table' : s.id = r.id /\ s.ingest = r.ingest
  <1> DEFINE known == {r \in table : r.id = e.id}
             others == {r \in table : e.id # r.id}
             row == IF known = {} THEN EventToRow(e) ELSE Updated(CHOOSE r \in known : TRUE, e)
  <1>1. table' = others \cup {row}
    <2>1. {r \in table : \A f \in {e} : f.id # r.id} = others
      OBVIOUS
    <2>2. {IF {r \in table : r.id = f.id} = {} THEN EventToRow(f) ELSE Updated(CHOOSE r \in {r \in table : r.id = f.id} : TRUE, f)
             : f \in {e}} = {row}
      OBVIOUS
    <2> HIDE DEF row
    <2> QED
      BY <2>1, <2>2 DEF UpsertMany
  <1>2. /\ EventFields \subseteq DOMAIN EventToRow(e) /\ EventToRow(e).id = e.id
        /\ EventToRow(e).ts = e.ts /\ EventToRow(e).ingest = e.ingest
    BY DEF EventToRow, IsEvent, EventFields
  <1>3. ASSUME NEW r \in table, r.id = e.id
        PROVE  /\ IsRow(Updated(r, e)) /\ Updated(r, e).id = e.id /\ Updated(r, e).ingest = r.ingest
    BY <1>2, <1>3 DEF Updated, IsEvent, EventFields, OneRowEach, IsRow
  <1>4. IsRow(row) /\ row.id = e.id /\ \A r \in known : row.ingest = r.ingest
    <2>1. CASE known = {}
      BY <1>2, <2>1 DEF IsRow, IsEvent
    <2>2. CASE known # {}
      <3>1. PICK r \in table : r = (CHOOSE x \in known : TRUE) /\ r.id = e.id
        BY <2>2
      <3>2. row = Updated(r, e) /\ \A x \in known : x = r
        BY <2>2, <3>1 DEF OneRowEach
      <3> HIDE DEF row
      <3> QED
        BY <1>3, <3>1, <3>2
    <2> QED
      BY <2>1, <2>2
  <1> HIDE DEF row
  <1>5. IsFiniteSet(others) /\ others \subseteq table
    BY FS_Subset DEF OneRowEach
  <1>6. IsFiniteSet(table')
    BY <1>1, <1>5, FS_AddElement
  <1>7. \A r \in table' : IsRow(r)
    BY <1>1, <1>4, <1>5 DEF OneRowEach
  <1>8. \A r, s \in table' : r.id = s.id => r = s
    BY <1>1, <1>4, <1>5 DEF OneRowEach
  <1>9. \A r \in table : \E s \in table' : s.id = r.id /\ s.ingest = r.ingest
    BY <1>1, <1>4
  <1> QED
    BY <1>6, <1>7, <1>8, <1>9 DEF OneRowEach

\* Unless the time of an event changes, what is stored only pushes rows away
\* from the front.
LEMMA PositionsGrow ==
    ASSUME OneRowEach, OneRowEach',
           \A r \in table : \E s \in table' : s.id = r.id /\ s.ingest = r.ingest,
           \A r \in table, s \in table' : r.id = s.id => r.ts = s.ts
    PROVE  \A r \in Matching : \E s \in Matching' :
             /\ s.id = r.id /\ Position(r) \in Nat /\ Position(s)' \in Nat /\ Position(s)' >= Position(r)
             /\ Alone(s)' => Alone(r)
  <1> DEFINE heir(r) == CHOOSE s \in table' : s.id = r.id /\ s.ingest = r.ingest
  <1>1. \A r \in table : heir(r) \in table' /\ heir(r).id = r.id /\ heir(r).ingest = r.ingest /\ heir(r).ts = r.ts
    OBVIOUS
  <1> HIDE DEF heir
  <1>2. /\ Matching = {r \in table : Within(r.ts, Scope)}
        /\ Matching' = {r \in table' : Within(r.ts, Scope)}
    BY DEF Matching, Selected, Scope, NoFilter, TextMatch, FromSource
  <1>3. \A r \in Matching : heir(r) \in Matching'
    BY <1>1, <1>2
  <1>4. ASSUME NEW r \in Matching, NEW s \in Matching', s.id = r.id, s.ingest = r.ingest, s.ts = r.ts
        PROVE  Position(r) \in Nat /\ Position(s)' \in Nat /\ Position(s)' >= Position(r)
    <2> DEFINE before == {x \in Matching : First(x, r)}
               after == {x \in Matching' : First(x, s)}
               f == [x \in before |-> heir(x)]
    <2>1. \A x \in before : heir(x) \in after
      BY <1>1, <1>2, <1>3, <1>4 DEF First
    <2>2. \A x, y \in before : heir(x) = heir(y) => x = y
      <3>1. \A x \in before : x \in table
        BY <1>2
      <3> HIDE DEF before
      <3> QED
        BY <1>1, <3>1 DEF OneRowEach
    <2>3. f \in Injection(before, after)
      <3> HIDE DEF before, after
      <3> QED
        BY <2>1, <2>2 DEF Injection, IsInjective
    <2>4. IsFiniteSet(after) /\ IsFiniteSet(before)
      BY <1>2, FS_Subset DEF OneRowEach
    <2> HIDE DEF before, after, f
    <2>5. Cardinality(before) <= Cardinality(after)
      BY <2>3, <2>4, FS_Injection
    <2>6. Cardinality(before) \in Nat /\ Cardinality(after) \in Nat
      BY <2>4, FS_CardinalityType
    <2>7. Position(r) = Cardinality(before) /\ Position(s)' = Cardinality(after)
      BY DEF Position, before, after
    <2> QED
      BY <2>5, <2>6, <2>7
  <1>5. ASSUME NEW r \in Matching
        PROVE  \E s \in Matching' :
                 /\ s.id = r.id /\ Position(r) \in Nat /\ Position(s)' \in Nat /\ Position(s)' >= Position(r)
                 /\ Alone(s)' => Alone(r)
    <2>1. r \in table
      BY <1>2
    <2>2. heir(r) \in Matching' /\ heir(r).id = r.id /\ heir(r).ingest = r.ingest /\ heir(r).ts = r.ts
      BY <1>1, <1>3, <2>1
    <2>3. PICK s \in Matching' : s.id = r.id /\ s.ingest = r.ingest /\ s.ts = r.ts
      BY <2>2
    <2>4. ASSUME Alone(s)', NEW y \in Matching, y.ts = r.ts, y.ingest = r.ingest
          PROVE  y.id = r.id
      <3>1. heir(y) \in Matching' /\ heir(y).id = y.id /\ heir(y).ingest = s.ingest /\ heir(y).ts = s.ts
        BY <1>1, <1>2, <1>3, <2>3, <2>4
      <3> QED
        BY <2>3, <2>4, <3>1 DEF Alone
    <2> QED
      BY <1>4, <2>3, <2>4 DEF Alone
  <1> QED
    BY <1>5

\* Something is stored while the walk waits for its next request.
LEMMA ArriveWalk ==
    ASSUME WalkInv, subject \in {"walker", "reader"}, UNCHANGED <<subject, mirror>>, Arrive
    PROVE  WalkInv'
  <1> DEFINE retimed == \E r \in table : \E s \in table' : r.id = s.id /\ r.ts # s.ts
  <1>1. PICK i \in Evidence \ came :
          /\ subject = "walker" => i.kind = "event"
          /\ table' = CASE i.kind = "event" -> UpsertMany(table, {i.value})
                        [] i.kind = "score" -> Rescored(i.value)
                        [] OTHER -> table
          /\ walk' = [walk EXCEPT !.moved = @ \/ retimed]
    BY DEF Arrive
  <1>2. walk' \in Walks /\ \A k \in {"phase", "offset", "listed", "got", "owed", "cut"} : walk'[k] = walk[k]
    BY <1>1 DEF WalkInv, Walks
  <1>3. walk'.moved <=> walk.moved \/ retimed
    BY <1>1 DEF WalkInv, Walks
  <1>4. CASE subject = "reader"
    BY <1>2, <1>4 DEF WalkInv, WalkComplete
  <1>5. ASSUME subject = "walker"
        PROVE  WalkInv'
    <2>1. table' = UpsertMany(table, {i.value}) /\ IsEvent(i.value) /\ OneRowEach
      BY <1>1, <1>5, EvidenceAssumption DEF WalkInv, IsReport, IsScore, IsSituation, IsAlert, IsNarrative, IsSignal
    <2>2. OneRowEach' /\ \A r \in table : \E s \in table' : s.id = r.id /\ s.ingest = r.ingest
      BY <2>1, RowsStay
    <2>3. ASSUME ~walk'.moved
          PROVE  Owing(Reached)'
      <3>1. \A r \in table, s \in table' : r.id = s.id => r.ts = s.ts
        BY <1>3, <2>3
      <3>2. \A r \in Matching : \E s \in Matching' :
              /\ s.id = r.id /\ Position(r) \in Nat /\ Position(s)' \in Nat /\ Position(s)' >= Position(r)
              /\ Alone(s)' => Alone(r)
        BY <2>1, <2>2, <3>1, PositionsGrow
      <3>3. Owing(Reached) /\ Reached' = Reached /\ Reached \in Nat
        BY <1>2, <1>3, <1>5, <2>3 DEF WalkInv, Walks, Reached
      <3>4. ASSUME NEW id \in walk'.owed \ walk'.got
            PROVE  \E s \in Matching' : s.id = id /\ (Alone(s)' => Position(s)' >= Reached)
        <4>1. PICK r \in Matching : r.id = id /\ (Alone(r) => Position(r) >= Reached)
          BY <1>2, <3>3, <3>4 DEF Owing
        <4>2. PICK s \in Matching' :
                /\ s.id = r.id /\ Position(r) \in Nat /\ Position(s)' \in Nat /\ Position(s)' >= Position(r)
                /\ Alone(s)' => Alone(r)
          BY <3>2, <4>1
        <4> QED
          BY <3>3, <4>1, <4>2
      <3> QED
        BY <3>3, <3>4 DEF Owing
    <2>4. ~walk'.moved => Tied \subseteq Tied'
      <3> SUFFICES ASSUME ~walk'.moved, NEW id \in Tied
                   PROVE  id \in Tied'
        OBVIOUS
      <3>1. \A r \in table, s \in table' : r.id = s.id => r.ts = s.ts
        BY <1>3
      <3>2. \A r \in Matching : \E s \in Matching' : s.id = r.id /\ (Alone(s)' => Alone(r))
        BY <2>1, <2>2, <3>1, PositionsGrow
      <3>3. PICK r \in Matching : r.id = id /\ ~Alone(r)
        BY DEF Tied, Alone
      <3>4. PICK s \in Matching' : s.id = id /\ ~Alone(s)'
        BY <3>2, <3>3
      <3> QED
        BY <3>4 DEF Tied, Alone
    <2>5. WalkComplete'
      BY <1>2, <1>3, <2>4 DEF WalkInv, WalkComplete
    <2> QED
      BY <1>1, <1>2, <1>5, <2>2, <2>3, <2>5 DEF WalkInv
  <1> QED
    BY <1>4, <1>5

\* The walk begins, reads a page, counts, and falls back.
LEMMA BeginWalk ==
    ASSUME WalkInv, subject = "walker", UNCHANGED <<subject, mirror>>, WalkBegin
    PROVE  WalkInv'
  <1>1. /\ walk' = [Resting EXCEPT !.phase = "reading", !.owed = Ids(Matching)]
        /\ UNCHANGED table
    BY DEF WalkBegin
  <1>2. OneRowEach /\ OneRowEach' /\ Matching' = Matching
    BY <1>1 DEF WalkInv, OneRowEach, Matching
  <1>3. Matching \subseteq table /\ Ids(Matching) \subseteq Int
    BY <1>2 DEF Matching, Selected, OneRowEach, IsRow, Ids
  <1>4. walk' \in Walks
    BY <1>1, <1>3 DEF Resting, Walks
  <1>5. Reached' = 0
    BY <1>1 DEF Reached, Resting
  <1>6. \A r \in Matching : Position(r) >= 0 /\ Position(r)' = Position(r)
    BY <1>2, PositionsInside DEF Position
  <1>7. Owing(0)'
    BY <1>1, <1>2, <1>6 DEF Owing, Ids, Resting
  <1> QED
    BY <1>1, <1>2, <1>4, <1>5, <1>7 DEF WalkInv, WalkComplete, Resting, Owing

LEMMA ReadWalk ==
    ASSUME WalkInv, subject = "walker", UNCHANGED <<subject, mirror>>, WalkRead
    PROVE  WalkInv'
  <1>1. PICK page \in ListPages(table, Scope, WalkLimit, walk.offset) :
          walk' = [walk EXCEPT !.phase = "counting", !.listed = Cardinality(page), !.got = @ \cup Ids(page)]
    BY DEF WalkRead
  <1>2. /\ UNCHANGED table /\ walk.phase = "reading"
        /\ OneRowEach /\ OneRowEach' /\ Matching' = Matching /\ walk \in Walks /\ walk.offset \in Nat
    BY DEF WalkRead, WalkInv, OneRowEach, Matching, Walks
  <1>3. /\ Cardinality(page) \in Nat /\ Cardinality(page) <= WalkLimit /\ Ids(page) \subseteq Int
        /\ \A r \in Matching :
             Alone(r) /\ Position(r) >= walk.offset /\ Position(r) < walk.offset + WalkLimit => r.id \in Ids(page)
    BY <1>2, PageIs
  <1>4. walk' \in Walks
    BY <1>1, <1>2, <1>3 DEF Walks
  <1>5. /\ walk'.owed = walk.owed /\ walk'.got = walk.got \cup Ids(page) /\ walk'.moved = walk.moved
        /\ walk'.phase = "counting" /\ Reached = walk.offset /\ Reached' = walk.offset + Cardinality(page)
    BY <1>1, <1>2 DEF Walks, Reached
  <1>6. ASSUME ~walk.moved
        PROVE  Owing(Reached)'
    <2>1. Owing(Reached)
      BY <1>6 DEF WalkInv
    <2>2. ASSUME NEW id \in walk'.owed \ walk'.got
          PROVE  \E r \in Matching : r.id = id /\ (Alone(r)' => Position(r)' >= Reached')
      <3>1. PICK r \in Matching : r.id = id /\ (Alone(r) => Position(r) >= walk.offset)
        BY <1>5, <2>1, <2>2 DEF Owing
      <3>2. id \notin Ids(page)
        BY <1>5, <2>2
      <3>3. Position(r) \in Int /\ Position(r)' = Position(r) /\ (Alone(r)' <=> Alone(r))
        BY <1>2, PositionsInside DEF Position, Alone
      <3>4. ASSUME Alone(r)
            PROVE  Position(r) >= walk.offset + WalkLimit
        BY <1>2, <1>3, <3>1, <3>2, <3>3, <3>4, ServingAssumption
      <3> QED
        BY <1>2, <1>3, <1>5, <3>1, <3>3, <3>4, ServingAssumption
    <2> QED
      BY <1>2, <2>2 DEF Owing
  <1> QED
    BY <1>2, <1>4, <1>5, <1>6 DEF WalkInv, WalkComplete

LEMMA CountWalk ==
    ASSUME WalkInv, subject = "walker", UNCHANGED <<subject, mirror>>, WalkCount
    PROVE  WalkInv'
  <1> DEFINE next == walk.offset + walk.listed
  <1>1. PICK ok \in BOOLEAN :
          walk' = [walk EXCEPT !.phase = IF next < Total(table, Scope, walk.listed, walk.offset, ok)
                                           THEN "reading" ELSE "ended",
                               !.offset = next, !.cut = ~ok]
    BY DEF WalkCount
  <1> DEFINE more == next < Total(table, Scope, walk.listed, walk.offset, ok)
  <1>2. /\ UNCHANGED table /\ walk.phase = "counting"
        /\ OneRowEach /\ OneRowEach' /\ Matching' = Matching /\ walk \in Walks
    BY DEF WalkCount, WalkInv, OneRowEach, Matching, Walks
  <1>3. next \in Nat /\ Reached = next
    BY <1>2 DEF Walks, Reached
  <1>4. ok => Total(table, Scope, walk.listed, walk.offset, ok) = Cardinality(Matching)
    <2>1. Scope.from = 0 /\ NoFilter.from = None /\ 0 # None
      BY NoneAssumption DEF Scope, NoFilter
    <2>2. Scope # NoFilter
      BY <2>1
    <2> QED
      BY <2>2 DEF Total, Matching
  <1>5. \E p \in {"reading", "ended"} : p = (IF more THEN "reading" ELSE "ended") /\ walk' = [walk EXCEPT !.phase = p, !.offset = next, !.cut = ~ok]
    BY <1>1
  <1> HIDE DEF next, more
  <1>6. /\ walk' \in Walks /\ walk'.owed = walk.owed /\ walk'.got = walk.got /\ walk'.moved = walk.moved
        /\ walk'.cut = ~ok /\ walk'.phase = (IF more THEN "reading" ELSE "ended") /\ Reached' = next
    <2>1. PICK p \in {"reading", "ended"} :
            p = (IF more THEN "reading" ELSE "ended") /\ walk' = [walk EXCEPT !.phase = p, !.offset = next, !.cut = ~ok]
      BY <1>5
    <2>2. walk' \in Walks
      BY <1>2, <1>3, <2>1 DEF Walks
    <2>3. /\ walk'.owed = walk.owed /\ walk'.got = walk.got /\ walk'.moved = walk.moved
          /\ walk'.phase = p /\ walk'.offset = next /\ walk'.cut = ~ok
      BY <1>2, <2>1 DEF Walks
    <2>4. Reached' = next
      BY <1>3, <2>3 DEF Reached
    <2> QED
      BY <2>1, <2>2, <2>3, <2>4
  <1>7. \A r \in Matching :
          /\ Position(r) \in Int /\ Position(r) < Cardinality(Matching) /\ Position(r)' = Position(r)
          /\ Alone(r)' <=> Alone(r)
    BY <1>2, PositionsInside DEF Position, Alone
  <1>8. ASSUME ~walk.moved
        PROVE  /\ Owing(Reached)'
               /\ ok /\ ~more => walk.owed \ Tied \subseteq walk.got
    <2>1. Owing(next)
      BY <1>3, <1>8 DEF WalkInv
    <2>2. Owing(Reached)'
      BY <1>2, <1>6, <1>7, <2>1 DEF Owing
    <2>3. ASSUME ok, ~more, NEW id \in walk.owed \ walk.got, id \notin Tied
          PROVE  FALSE
      <3>1. PICK r \in Matching : r.id = id /\ (Alone(r) => Position(r) >= next)
        BY <2>1, <2>3 DEF Owing
      <3>2. Alone(r)
        BY <2>3, <3>1 DEF Tied, Alone
      <3>3. ~(next < Cardinality(Matching))
        BY <1>4, <2>3 DEF more
      <3>4. Cardinality(Matching) \in Nat
        BY <1>2, PositionsInside
      <3> QED
        BY <1>3, <1>7, <3>1, <3>2, <3>3, <3>4
    <2> QED
      BY <2>2, <2>3
  <1>9. Tied' = Tied
    BY <1>2 DEF Tied
  <1> QED
    BY <1>2, <1>6, <1>8, <1>9 DEF WalkInv, WalkComplete

LEMMA FallBackWalk ==
    ASSUME WalkInv, subject = "walker", UNCHANGED <<subject, mirror>>, WalkFallBack
    PROVE  WalkInv'
  <1>1. PICK page \in SUBSET Filter(MemoryEvents, Scope) :
          walk' = [walk EXCEPT !.phase = "ended", !.got = @ \cup Ids(page), !.cut = TRUE]
    BY DEF WalkFallBack
  <1>2. MemoryEvents = {}
    BY DEF MemoryEvents, WalkInv
  <1>3. Ids(page) = {}
    BY <1>1, <1>2 DEF Filter, Ids
  <1>4. walk \in Walks /\ UNCHANGED table /\ OneRowEach /\ OneRowEach' /\ Matching' = Matching
    BY DEF WalkFallBack, WalkInv, OneRowEach, Matching
  <1>5. walk' = [walk EXCEPT !.phase = "ended", !.cut = TRUE]
    BY <1>1, <1>3, <1>4 DEF Walks
  <1>6. /\ walk' \in Walks /\ walk'.owed = walk.owed /\ walk'.got = walk.got /\ walk'.moved = walk.moved
        /\ walk'.cut /\ walk'.phase = "ended" /\ walk'.offset = walk.offset
    BY <1>4, <1>5 DEF Walks
  <1>7. Reached \in Nat /\ Reached' \in Nat /\ Reached >= Reached'
    BY <1>4, <1>6 DEF Reached, Walks
  <1>8. \A r \in Matching : Position(r) \in Int /\ Position(r)' = Position(r) /\ (Alone(r)' <=> Alone(r))
    BY <1>4, PositionsInside DEF Position, Alone
  <1>9. ~walk.moved => Owing(Reached)'
    <2>1. ASSUME Owing(Reached), NEW id \in walk'.owed \ walk'.got
          PROVE  \E r \in Matching : r.id = id /\ (Alone(r)' => Position(r)' >= Reached')
      <3>1. PICK r \in Matching : r.id = id /\ (Alone(r) => Position(r) >= Reached)
        BY <1>6, <2>1 DEF Owing
      <3> QED
        BY <1>7, <1>8, <3>1
    <2> QED
      BY <1>4, <2>1 DEF WalkInv, Owing
  <1> QED
    BY <1>4, <1>6, <1>9 DEF WalkInv, WalkComplete

\* The table of another subject is none of the walk's business.
LEMMA OtherWalk ==
    ASSUME WalkInv, UNCHANGED <<subject, walk>>, subject = "walker" => UNCHANGED <<table, mirror>>
    PROVE  WalkInv'
  <1>1. CASE subject = "walker"
    BY <1>1 DEF WalkInv, OneRowEach, Owing, Matching, Position, Alone, Reached, WalkComplete, Tied
  <1>2. CASE subject # "walker"
    BY <1>2 DEF WalkInv, WalkComplete
  <1> QED
    BY <1>1, <1>2

LEMMA WalkStep ==
    ASSUME WalkInv, [Next]_vars
    PROVE  WalkInv'
  <1>1. CASE JobsServed
    BY <1>1, OtherWalk DEF JobsServed, Serve
  <1>2. CASE Stored
    BY <1>2, OtherWalk DEF Stored
  <1>3. CASE ScreenServed
    BY <1>3, OtherWalk DEF ScreenServed, Session, Serve
  <1>4. CASE ViewsServed
    BY <1>4, OtherWalk DEF ViewsServed, Serve
  <1>5. CASE ReaderServed
    <2>1. subject = "reader" /\ UNCHANGED subject
      BY <1>5 DEF ReaderServed, Serve
    <2>2. ASSUME AskSentiment \/ AddNote
          PROVE  WalkInv'
      BY <2>1, <2>2, OtherWalk DEF AskSentiment, AddNote
    <2> QED
      BY <1>5, <2>1, <2>2, ArriveWalk DEF ReaderServed, jobVars, recordVars
  <1>6. CASE WalkerServed
    <2>1. subject = "walker" /\ UNCHANGED subject
      BY <1>6 DEF WalkerServed, Serve
    <2> QED
      BY <1>6, <2>1, ArriveWalk, BeginWalk, ReadWalk, CountWalk, FallBackWalk DEF WalkerServed, jobVars, recordVars
  <1>7. CASE UNCHANGED vars
    BY <1>7, OtherWalk DEF vars, jobVars, recordVars
  <1> QED
    BY <1>1, <1>2, <1>3, <1>4, <1>5, <1>6, <1>7 DEF Next

\* A walk that ends, and not by a statement that failed, has returned every event
\* that was in the window when it began and has its times for itself, whatever is
\* stored between its requests, unless the time of one changed (GET /events/window
\* of api/routers/events.py, list_events of event_repo.py).
THEOREM EveryWalkComplete == Spec => []WalkComplete
  <1>1. WalkInv => WalkComplete
    BY DEF WalkInv
  <1> QED
    BY <1>1, InitWalk, WalkStep, PTL DEF Spec

-----------------------------------------------------------------------------
(* Finite sets and sums over them.                                           *)

\* Induction over the parts of a finite set.
LEMMA PartsInduction ==
    ASSUME NEW S, IsFiniteSet(S), NEW Good,
           {} \in Good,
           \A s \in SUBSET S : s # {} /\ (\A x \in s : s \ {x} \in Good) => s \in Good
    PROVE  SUBSET S \subseteq Good
  <1> DEFINE Bad == (SUBSET S) \ Good
             sizes == {Cardinality(s) : s \in Bad}
  <1> SUFFICES ASSUME Bad # {} PROVE FALSE
    OBVIOUS
  <1>1. \A s \in SUBSET S : IsFiniteSet(s) /\ Cardinality(s) \in Nat
    BY FS_Subset, FS_CardinalityType
  <1>2. PICK m \in sizes : \A n \in sizes : m <= n
    <2>1. sizes \in SUBSET Nat /\ sizes # {}
      BY <1>1
    <2> HIDE DEF sizes
    <2> QED
      BY <2>1, Least
  <1>3. PICK s \in Bad : Cardinality(s) = m
    OBVIOUS
  <1>4. ASSUME NEW x \in s
        PROVE  s \ {x} \in Good
    <2>1. Cardinality(s \ {x}) = Cardinality(s) - 1
      BY <1>1, <1>4, FS_RemoveElement
    <2>2. s \ {x} \in Bad => m <= Cardinality(s \ {x})
      BY <1>2
    <2> QED
      BY <1>1, <1>3, <2>1, <2>2
  <1> QED
    BY <1>3, <1>4

-----------------------------------------------------------------------------
(* Sums over finite sets, which the community modules define by recursion.   *)

Pick(s) == CHOOSE x \in s : TRUE
Recursion(g, f, D) == g = [s \in D |-> IF s = {} THEN 0 ELSE f[Pick(s)] + g[s \ {Pick(s)}]]
Summed(f, S) == MapThenSumSet(LAMBDA x : f[x], S)

\* The recursion has a solution: one for the parts of at most n elements gives
\* one for those of n + 1.
LEMMA RecursionSolved ==
    ASSUME NEW S, IsFiniteSet(S), NEW f
    PROVE  \E g : Recursion(g, f, SUBSET S)
  <1> DEFINE Small(n) == {s \in SUBSET S : Cardinality(s) <= n}
             Solved(n) == \E g : Recursion(g, f, Small(n))
             Bad == {n \in Nat : ~Solved(n)}
  <1>1. \A s \in SUBSET S : IsFiniteSet(s) /\ Cardinality(s) \in Nat /\ (Cardinality(s) = 0 <=> s = {})
    BY FS_Subset, FS_CardinalityType, FS_EmptySet
  <1>2. \A s \in SUBSET S : s # {} => Pick(s) \in s /\ Cardinality(s \ {Pick(s)}) = Cardinality(s) - 1
    BY <1>1, FS_RemoveElement DEF Pick
  <1>3. Solved(0)
    <2>1. \A s \in Small(0) : s = {}
      BY <1>1
    <2>2. Recursion([s \in Small(0) |-> 0], f, Small(0))
      BY <2>1 DEF Recursion
    <2> QED
      BY <2>2
  <1>4. ASSUME NEW n \in Nat, Solved(n)
        PROVE  Solved(n + 1)
    <2>1. PICK g : Recursion(g, f, Small(n))
      BY <1>4
    <2> DEFINE h == [s \in Small(n + 1) |-> IF s = {} THEN 0 ELSE f[Pick(s)] + g[s \ {Pick(s)}]]
    <2>2. \A s \in Small(n) : h[s] = g[s]
      <3>1. \A s \in Small(n) : s \in Small(n + 1)
        BY <1>1
      <3>2. \A s \in Small(n) : g[s] = IF s = {} THEN 0 ELSE f[Pick(s)] + g[s \ {Pick(s)}]
        BY <2>1 DEF Recursion
      <3> HIDE DEF Small
      <3> QED
        BY <3>1, <3>2
    <2>3. \A s \in Small(n + 1) : s # {} => s \ {Pick(s)} \in Small(n)
      BY <1>1, <1>2
    <2>4. \A s \in Small(n + 1) : s # {} => h[s \ {Pick(s)}] = g[s \ {Pick(s)}]
      BY <2>2, <2>3
    <2>5. h = [s \in Small(n + 1) |-> IF s = {} THEN 0 ELSE f[Pick(s)] + h[s \ {Pick(s)}]]
      <3> DEFINE k == [s \in Small(n + 1) |-> IF s = {} THEN 0 ELSE f[Pick(s)] + h[s \ {Pick(s)}]]
      <3>1. \A s \in Small(n + 1) : h[s] = k[s]
        <4> SUFFICES ASSUME NEW s \in Small(n + 1) PROVE h[s] = k[s]
          OBVIOUS
        <4>1. k[s] = IF s = {} THEN 0 ELSE f[Pick(s)] + h[s \ {Pick(s)}]
          OBVIOUS
        <4>2. h[s] = IF s = {} THEN 0 ELSE f[Pick(s)] + g[s \ {Pick(s)}]
          OBVIOUS
        <4> HIDE DEF h, k, Small
        <4> QED
          BY <2>4, <4>1, <4>2
      <3>2. h = [s \in Small(n + 1) |-> h[s]] /\ k = [s \in Small(n + 1) |-> k[s]]
        OBVIOUS
      <3> HIDE DEF h, k, Small
      <3>3. h = k
        BY <3>1, <3>2
      <3> QED
        BY <3>3 DEF k
    <2> HIDE DEF h
    <2> QED
      BY <2>5 DEF Recursion
  <1>5. Bad = {}
    <2> SUFFICES ASSUME Bad # {} PROVE FALSE
      OBVIOUS
    <2>1. PICK m \in Bad : \A n \in Bad : m <= n
      <3>1. Bad \in SUBSET Nat
        OBVIOUS
      <3> HIDE DEF Bad
      <3> QED
        BY <3>1, Least
    <2>2. m # 0
      BY <1>3
    <2>3. m - 1 \in Nat /\ Solved(m - 1)
      <3>1. m - 1 \in Nat /\ ~(m <= m - 1)
        BY <2>2
      <3> HIDE DEF Solved
      <3> QED
        BY <2>1, <3>1
    <2>4. Solved((m - 1) + 1)
      <3> HIDE DEF Solved
      <3> QED
        BY <1>4, <2>3
    <2>5. (m - 1) + 1 = m
      OBVIOUS
    <2> HIDE DEF Solved
    <2> QED
      BY <2>4, <2>5
  <1>6. Solved(Cardinality(S))
    <2> HIDE DEF Solved
    <2> QED
      BY <1>1, <1>5
  <1>7. Small(Cardinality(S)) = SUBSET S
    BY FS_Subset
  <1> QED
    BY <1>6, <1>7

LEMMA SumSolves ==
    ASSUME NEW S, IsFiniteSet(S), NEW f
    PROVE  \E g : Recursion(g, f, SUBSET S) /\ Summed(f, S) = g[S]
  <1> DEFINE g == CHOOSE g : g = [s \in SUBSET S |-> IF s = {} THEN 0 ELSE f[Pick(s)] + g[s \ {Pick(s)}]]
  <1>1. Summed(f, S) = g[S]
    BY DEF Summed, MapThenSumSet, MapThenFoldSet, Pick
  <1>2. \E h : h = [s \in SUBSET S |-> IF s = {} THEN 0 ELSE f[Pick(s)] + h[s \ {Pick(s)}]]
    <2>1. PICK h : Recursion(h, f, SUBSET S)
      BY RecursionSolved
    <2> QED
      BY <2>1 DEF Recursion
  <1>3. g = [s \in SUBSET S |-> IF s = {} THEN 0 ELSE f[Pick(s)] + g[s \ {Pick(s)}]]
    BY <1>2
  <1> QED
    BY <1>1, <1>3 DEF Recursion

\* A solution depends on the part only, not on the set or the function around it.
LEMMA SolutionsAgree ==
    ASSUME NEW S, IsFiniteSet(S), NEW D, NEW E, SUBSET S \subseteq D, SUBSET S \subseteq E,
           NEW f, NEW k, \A x \in S : f[x] = k[x],
           NEW g, Recursion(g, f, D), NEW h, Recursion(h, k, E)
    PROVE  \A s \in SUBSET S : g[s] = h[s]
  <1> DEFINE Good == {s \in SUBSET S : g[s] = h[s]}
  <1>1. {} \in Good
    BY DEF Recursion
  <1>2. ASSUME NEW s \in SUBSET S, s # {}, \A x \in s : s \ {x} \in Good
        PROVE  s \in Good
    <2>1. Pick(s) \in s
      BY <1>2 DEF Pick
    <2>2. g[s] = f[Pick(s)] + g[s \ {Pick(s)}] /\ h[s] = k[Pick(s)] + h[s \ {Pick(s)}]
      BY <1>2 DEF Recursion
    <2> QED
      BY <1>2, <2>1, <2>2
  <1> HIDE DEF Good
  <1>3. SUBSET S \subseteq Good
    BY <1>1, <1>2, PartsInduction
  <1> QED
    BY <1>3 DEF Good

\* In a solution it does not matter which element is taken first.
LEMMA AnyOrder ==
    ASSUME NEW S, IsFiniteSet(S), NEW f, \A x \in S : f[x] \in Int,
           NEW g, Recursion(g, f, SUBSET S)
    PROVE  \A s \in SUBSET S : g[s] \in Int /\ \A x \in s : g[s] = f[x] + g[s \ {x}]
  <1> DEFINE Good == {s \in SUBSET S : \A t \in SUBSET s : g[t] \in Int /\ \A x \in t : g[t] = f[x] + g[t \ {x}]}
  <1>1. {} \in Good
    BY DEF Recursion
  <1>2. ASSUME NEW s \in SUBSET S, s # {}, \A x \in s : s \ {x} \in Good
        PROVE  s \in Good
    <2> DEFINE p == Pick(s)
    <2>1. p \in s
      BY <1>2 DEF Pick
    <2>2. g[s] = f[p] + g[s \ {p}]
      BY <1>2 DEF Recursion
    <2>3. \A x \in s : \A t \in SUBSET (s \ {x}) : g[t] \in Int /\ \A y \in t : g[t] = f[y] + g[t \ {y}]
      BY <1>2
    <2>4. g[s] \in Int
      BY <2>1, <2>2, <2>3
    <2>5. ASSUME NEW x \in s
          PROVE  g[s] = f[x] + g[s \ {x}]
      <3>1. CASE x = p
        BY <2>2, <3>1
      <3>2. CASE x # p
        <4> DEFINE r == s \ {p, x}
        <4>1. (s \ {p}) \ {x} = r /\ (s \ {x}) \ {p} = r /\ x \in s \ {p} /\ p \in s \ {x}
          BY <2>1, <3>2
        <4> HIDE DEF p, r
        <4>2. g[s \ {p}] = f[x] + g[r]
          <5>1. s \ {p} \in SUBSET (s \ {p})
            OBVIOUS
          <5>2. \A y \in s \ {p} : g[s \ {p}] = f[y] + g[(s \ {p}) \ {y}]
            BY <2>1, <2>3, <5>1
          <5> QED
            BY <4>1, <5>2
        <4>3. g[s \ {x}] = f[p] + g[r]
          <5>1. s \ {x} \in SUBSET (s \ {x})
            OBVIOUS
          <5>2. \A y \in s \ {x} : g[s \ {x}] = f[y] + g[(s \ {x}) \ {y}]
            BY <2>3, <5>1
          <5> QED
            BY <4>1, <5>2
        <4>4. g[r] \in Int /\ f[x] \in Int /\ f[p] \in Int
          <5>1. r \in SUBSET (s \ {x})
            BY <4>1
          <5> QED
            BY <2>1, <2>3, <5>1
        <4> QED
          BY <2>2, <4>2, <4>3, <4>4
      <3> QED
        BY <3>1, <3>2
    <2>6. \A t \in SUBSET s : t = s \/ \E x \in s : t \in SUBSET (s \ {x})
      OBVIOUS
    <2> QED
      BY <2>3, <2>4, <2>5, <2>6
  <1> HIDE DEF Good
  <1>3. SUBSET S \subseteq Good
    BY <1>1, <1>2, PartsInduction
  <1> QED
    BY <1>3 DEF Good

LEMMA SumEmpty == ASSUME NEW f PROVE Summed(f, {}) = 0
  BY SumSolves, FS_EmptySet DEF Recursion

LEMMA SumAdd ==
    ASSUME NEW S, IsFiniteSet(S), NEW f, \A x \in S : f[x] \in Int
    PROVE  Summed(f, S) \in Int /\ \A x \in S : Summed(f, S) = f[x] + Summed(f, S \ {x})
  <1>1. PICK g : Recursion(g, f, SUBSET S) /\ Summed(f, S) = g[S]
    BY SumSolves
  <1>2. g[S] \in Int /\ \A x \in S : g[S] = f[x] + g[S \ {x}]
    <2>1. \A s \in SUBSET S : g[s] \in Int /\ \A x \in s : g[s] = f[x] + g[s \ {x}]
      <3>1. Recursion(g, f, SUBSET S)
        BY <1>1
      <3> QED
        BY <3>1, AnyOrder
    <2>2. S \in SUBSET S
      OBVIOUS
    <2> QED
      BY <2>1, <2>2
  <1>3. ASSUME NEW x \in S
        PROVE  Summed(f, S \ {x}) = g[S \ {x}]
    <2>1. IsFiniteSet(S \ {x})
      BY FS_Subset
    <2>2. PICK h : Recursion(h, f, SUBSET (S \ {x})) /\ Summed(f, S \ {x}) = h[S \ {x}]
      BY <2>1, SumSolves
    <2>3. \A s \in SUBSET (S \ {x}) : g[s] = h[s]
      <3>1. SUBSET (S \ {x}) \subseteq SUBSET S
        OBVIOUS
      <3>2. Recursion(g, f, SUBSET S) /\ Recursion(h, f, SUBSET (S \ {x}))
        BY <1>1, <2>2
      <3>3. \A y \in S \ {x} : f[y] = f[y]
        OBVIOUS
      <3> DEFINE R == S \ {x}
                 D == SUBSET S
                 E == SUBSET R
      <3>4. IsFiniteSet(R) /\ SUBSET R \subseteq D /\ SUBSET R \subseteq E /\ Recursion(g, f, D) /\ Recursion(h, f, E)
        BY <2>1, <3>1, <3>2
      <3> HIDE DEF R, D, E
      <3>5. \A s \in SUBSET R : g[s] = h[s]
        BY <3>4, SolutionsAgree
      <3> QED
        BY <3>5 DEF R
    <2> QED
      BY <2>2, <2>3
  <1> QED
    BY <1>1, <1>2, <1>3

\* More summands and larger ones: a larger sum.
LEMMA SumGrows ==
    ASSUME NEW T, IsFiniteSet(T), NEW S \in SUBSET T, NEW f, NEW k,
           \A x \in T : k[x] \in Nat, \A x \in S : f[x] \in Nat /\ f[x] <= k[x]
    PROVE  /\ Summed(f, S) \in Nat /\ Summed(k, T) \in Nat
           /\ Summed(f, S) <= Summed(k, T)
  <1> DEFINE Grown(s) == Summed(f, s \cap S) \in Nat /\ Summed(k, s) \in Nat /\ Summed(f, s \cap S) <= Summed(k, s)
             Good == {s \in SUBSET T : Grown(s)}
  <1>1. {} \in Good
    <2>1. {} \cap S = {}
      OBVIOUS
    <2> QED
      BY <2>1, SumEmpty
  <1>2. ASSUME NEW s \in SUBSET T, s # {}, \A x \in s : s \ {x} \in Good
        PROVE  s \in Good
    <2>1. PICK x \in s : TRUE
      BY <1>2
    <2>2. Grown(s \ {x})
      BY <1>2
    <2>3. IsFiniteSet(s) /\ IsFiniteSet(s \cap S)
      BY FS_Subset
    <2>4. Summed(k, s) = k[x] + Summed(k, s \ {x}) /\ k[x] \in Nat
      BY <2>3, SumAdd
    <2>5. CASE x \in S
      <3>1. (s \cap S) \ {x} = (s \ {x}) \cap S /\ x \in s \cap S
        BY <2>5
      <3>2. Summed(f, s \cap S) = f[x] + Summed(f, (s \ {x}) \cap S)
        <4>1. \A y \in s \cap S : f[y] \in Int
          OBVIOUS
        <4> QED
          BY <2>3, <3>1, <4>1, SumAdd
      <3>3. f[x] \in Nat /\ f[x] <= k[x]
        BY <2>5
      <3> HIDE DEF Good
      <3>4. Grown(s)
        BY <2>2, <2>4, <3>2, <3>3
      <3> QED
        BY <3>4 DEF Good
    <2>6. CASE x \notin S
      <3>1. s \cap S = (s \ {x}) \cap S
        BY <2>6
      <3>2. Grown(s)
        BY <2>2, <2>4, <3>1
      <3> QED
        BY <3>2
    <2> QED
      BY <2>5, <2>6
  <1> HIDE DEF Good
  <1>3. SUBSET T \subseteq Good
    BY <1>1, <1>2, PartsInduction
  <1>4. Grown(T)
    BY <1>3 DEF Good
  <1>5. T \cap S = S
    OBVIOUS
  <1> QED
    BY <1>4, <1>5

LEMMA SumOfIs == ASSUME NEW f PROVE SumOf(f) = Summed(f, DOMAIN f)
  BY DEF SumOf, Summed

\* A function of numbers has a number for a sum; larger values, and more of
\* them, have a larger one.
LEMMA SumInt ==
    ASSUME NEW f, IsFiniteSet(DOMAIN f), \A x \in DOMAIN f : f[x] \in Int
    PROVE  SumOf(f) \in Int
  BY SumAdd, SumOfIs

LEMMA SumsGrow ==
    ASSUME NEW f, NEW h, IsFiniteSet(DOMAIN h), DOMAIN f \subseteq DOMAIN h,
           \A x \in DOMAIN h : h[x] \in Nat, \A x \in DOMAIN f : f[x] \in Nat /\ f[x] <= h[x]
    PROVE  SumOf(f) \in Nat /\ SumOf(h) \in Nat /\ SumOf(f) <= SumOf(h)
  BY SumGrows, SumOfIs

\* The sum of one value is within the sum.
LEMMA OneOfSum ==
    ASSUME NEW f, IsFiniteSet(DOMAIN f), \A x \in DOMAIN f : f[x] \in Nat, NEW x \in DOMAIN f
    PROVE  SumOf(f) \in Nat /\ f[x] <= SumOf(f)
  <1> DEFINE S == DOMAIN f
             R == S \ {x}
  <1>1. IsFiniteSet(R)
    BY FS_Subset
  <1>2. Summed(f, S) = f[x] + Summed(f, R)
    BY SumAdd
  <1>3. Summed(f, R) \in Nat
    <2>1. R \in SUBSET R /\ \A y \in R : f[y] \in Nat /\ f[y] <= f[y]
      OBVIOUS
    <2> HIDE DEF R, S
    <2> QED
      BY <1>1, <2>1, SumGrows
  <1> QED
    BY <1>2, <1>3, SumOfIs

\* Sums add up value by value.
LEMMA SumsAdd ==
    ASSUME NEW S, IsFiniteSet(S), NEW f, NEW g, NEW h, DOMAIN f = S, DOMAIN g = S, DOMAIN h = S,
           \A x \in S : f[x] \in Int /\ g[x] \in Int /\ h[x] = f[x] + g[x]
    PROVE  SumOf(f) + SumOf(g) = SumOf(h)
  <1> DEFINE Adds(s) == Summed(f, s) + Summed(g, s) = Summed(h, s)
             Good == {s \in SUBSET S : Adds(s)}
  <1>1. {} \in Good
    BY SumEmpty
  <1>2. ASSUME NEW s \in SUBSET S, s # {}, \A x \in s : s \ {x} \in Good
        PROVE  s \in Good
    <2>1. PICK x \in s : TRUE
      BY <1>2
    <2>2. Adds(s \ {x})
      BY <1>2
    <2>3. IsFiniteSet(s) /\ IsFiniteSet(s \ {x})
      BY FS_Subset
    <2>4. /\ Summed(f, s) = f[x] + Summed(f, s \ {x}) /\ Summed(g, s) = g[x] + Summed(g, s \ {x})
          /\ Summed(h, s) = h[x] + Summed(h, s \ {x})
      BY <2>3, SumAdd
    <2>5. Summed(f, s \ {x}) \in Int /\ Summed(g, s \ {x}) \in Int
      BY <2>3, SumAdd
    <2>6. f[x] \in Int /\ g[x] \in Int /\ h[x] = f[x] + g[x]
      OBVIOUS
    <2> HIDE DEF Good
    <2>7. Adds(s)
      BY <2>2, <2>4, <2>5, <2>6
    <2> QED
      BY <2>7 DEF Good
  <1> HIDE DEF Good
  <1>3. SUBSET S \subseteq Good
    BY <1>1, <1>2, PartsInduction
  <1>4. Adds(S)
    BY <1>3 DEF Good
  <1> QED
    BY <1>4, SumOfIs

\* What has a key is counted by its key.
LEMMA Partition ==
    ASSUME NEW S, IsFiniteSet(S), NEW key, NEW f, IsFiniteSet(DOMAIN f),
           \A k \in DOMAIN f : f[k] = Cardinality({x \in S : key[x] = k})
    PROVE  SumOf(f) = Cardinality({x \in S : key[x] \in DOMAIN f})
  <1> DEFINE K == DOMAIN f
             With(s) == {x \in S : key[x] \in s}
             Adds(s) == Summed(f, s) = Cardinality(With(s))
             Good == {s \in SUBSET K : Adds(s)}
  <1>1. {} \in Good
    <2>1. With({}) = {}
      OBVIOUS
    <2>2. Cardinality(With({})) = 0
      BY <2>1, FS_EmptySet
    <2> HIDE DEF With
    <2> QED
      BY <2>2, SumEmpty
  <1>2. ASSUME NEW s \in SUBSET K, s # {}, \A k \in s : s \ {k} \in Good
        PROVE  s \in Good
    <2>1. PICK k \in s : TRUE
      BY <1>2
    <2> DEFINE A == {x \in S : key[x] = k}
               B == With(s \ {k})
    <2>2. IsFiniteSet(s) /\ IsFiniteSet(A) /\ IsFiniteSet(B)
      BY FS_Subset
    <2>3. With(s) = A \cup B /\ A \cap B = {}
      OBVIOUS
    <2>4. f[k] = Cardinality(A) /\ Summed(f, s \ {k}) = Cardinality(B)
      BY <1>2
    <2>5. Cardinality(A) \in Nat /\ Cardinality(B) \in Nat
      BY <2>2, FS_CardinalityType
    <2>6. \A j \in s : f[j] \in Int
      <3> SUFFICES ASSUME NEW j \in s PROVE f[j] \in Int
        OBVIOUS
      <3>1. IsFiniteSet({x \in S : key[x] = j}) /\ f[j] = Cardinality({x \in S : key[x] = j})
        BY FS_Subset
      <3> QED
        BY <3>1, FS_CardinalityType
    <2> HIDE DEF A, B, With, Good
    <2>7. Summed(f, s) = f[k] + Summed(f, s \ {k})
      BY <2>1, <2>2, <2>6, SumAdd
    <2>8. Cardinality(A \cup B) = Cardinality(A) + Cardinality(B)
      <3>1. Cardinality(A \cap B) = 0
        BY <2>3, FS_EmptySet
      <3>2. Cardinality(A \cup B) = Cardinality(A) + Cardinality(B) - Cardinality(A \cap B)
        BY <2>2, FS_Union
      <3> QED
        BY <2>5, <3>1, <3>2
    <2>9. Adds(s)
      BY <2>3, <2>4, <2>7, <2>8
    <2> QED
      BY <2>9 DEF Good
  <1>0. IsFiniteSet(K)
    OBVIOUS
  <1> HIDE DEF Good, K
  <1>3. SUBSET K \subseteq Good
    BY <1>0, <1>1, <1>2, PartsInduction
  <1>4. Adds(K)
    BY <1>3 DEF Good
  <1> QED
    BY <1>4, SumOfIs DEF K

LEMMA PartitionAll ==
    ASSUME NEW S, IsFiniteSet(S), NEW key, NEW f, IsFiniteSet(DOMAIN f), \A x \in S : key[x] \in DOMAIN f,
           \A k \in DOMAIN f : f[k] = Cardinality({x \in S : key[x] = k})
    PROVE  SumOf(f) = Cardinality(S)
  <1>1. {x \in S : key[x] \in DOMAIN f} = S
    OBVIOUS
  <1> QED
    BY <1>1, Partition

LEMMA ImageFinite ==
    ASSUME NEW S, IsFiniteSet(S), NEW f, DOMAIN f = S
    PROVE  LET image == {f[x] : x \in S}
           IN  IsFiniteSet(image) /\ Cardinality(image) <= Cardinality(S) /\ Cardinality(image) \in Nat
  <1> DEFINE image == {f[x] : x \in S}
             g == [x \in S |-> f[x]]
  <1>1. g \in Surjection(S, image)
    BY DEF Surjection
  <1> HIDE DEF image, g
  <1>2. IsFiniteSet(image) /\ Cardinality(image) <= Cardinality(S)
    BY <1>1, FS_Surjection
  <1>3. IsFiniteSet(image) /\ Cardinality(image) <= Cardinality(S) /\ Cardinality(image) \in Nat
    BY <1>2, FS_CardinalityType
  <1> QED
    BY <1>3 DEF image

-----------------------------------------------------------------------------
(* Pages.                                                                    *)

\* The keys of a page: tuples of numbers or None, as long as each other.
Keyed(k, S) == \E n \in Nat : \A e \in S : DOMAIN k[e] = 1..n /\ \A i \in 1..n : k[e][i] \in Int \cup {None}
Telling(k, S) == \A x, y \in S : (\A i \in DOMAIN k[x] : k[x][i] = k[y][i]) => x = y
Place(k, S, e) == Cardinality({x \in S : Before(k[x], k[e])})
Paged(k, S, limit) == {e \in S : Place(k, S, e) >= 0 /\ Place(k, S, e) < 0 + limit}
Precedes(k, S) == {p \in S \X S : Before(k[p[1]], k[p[2]])}

LEMMA LaterOrders ==
    /\ \A a \in Int \cup {None} : ~Later(a, a)
    /\ \A a, b, c \in Int \cup {None} : Later(a, b) /\ Later(b, c) => Later(a, c)
    /\ \A a, b \in Int \cup {None} : a # b => Later(a, b) \/ Later(b, a)
  BY NoneAssumption DEF Later

\* Keys are compared at the first place where they differ.
LEMMA BeforeOrders ==
    ASSUME NEW S, NEW k, Keyed(k, S), Telling(k, S)
    PROVE  Orders(Precedes(k, S), S)
  <1> DEFINE R == Precedes(k, S)
  <1>1. \A x, y \in S : <<x, y>> \in R <=> Before(k[x], k[y])
    BY DEF Precedes
  <1>2. PICK n \in Nat : \A e \in S : DOMAIN k[e] = 1..n /\ \A i \in 1..n : k[e][i] \in Int \cup {None}
    BY DEF Keyed
  <1> HIDE DEF R
  <1>3. \A x \in S : ~Before(k[x], k[x])
    BY <1>2, LaterOrders DEF Before
  <1>4. ASSUME NEW x \in S, NEW y \in S, NEW z \in S, Before(k[x], k[y]), Before(k[y], k[z])
        PROVE  Before(k[x], k[z])
    <2>1. PICK i \in 1..n : Later(k[x][i], k[y][i]) /\ \A m \in 1..(i - 1) : k[x][m] = k[y][m]
      BY <1>2, <1>4 DEF Before
    <2>2. PICK j \in 1..n : Later(k[y][j], k[z][j]) /\ \A m \in 1..(j - 1) : k[y][m] = k[z][m]
      BY <1>2, <1>4 DEF Before
    <2>3. CASE i < j
      <3>1. i \in 1..(j - 1) /\ \A m \in 1..(i - 1) : m \in 1..(j - 1)
        BY <2>3
      <3>2. Later(k[x][i], k[z][i]) /\ \A m \in 1..(i - 1) : k[x][m] = k[z][m]
        BY <2>1, <2>2, <3>1
      <3> QED
        BY <1>2, <3>2 DEF Before
    <2>4. CASE j < i
      <3>1. j \in 1..(i - 1) /\ \A m \in 1..(j - 1) : m \in 1..(i - 1)
        BY <2>4
      <3>2. Later(k[x][j], k[z][j]) /\ \A m \in 1..(j - 1) : k[x][m] = k[z][m]
        BY <2>1, <2>2, <3>1
      <3> QED
        BY <1>2, <3>2 DEF Before
    <2>5. CASE i = j
      <3>1. k[x][i] \in Int \cup {None} /\ k[y][i] \in Int \cup {None} /\ k[z][i] \in Int \cup {None}
        BY <1>2
      <3>2. Later(k[x][i], k[z][i])
        BY <2>1, <2>2, <2>5, <3>1, LaterOrders
      <3>3. \A m \in 1..(i - 1) : k[x][m] = k[z][m]
        BY <2>1, <2>2, <2>5
      <3> QED
        BY <1>2, <3>2, <3>3 DEF Before
    <2> QED
      BY <2>3, <2>4, <2>5
  <1>5. ASSUME NEW x \in S, NEW y \in S, x # y
        PROVE  Before(k[x], k[y]) \/ Before(k[y], k[x])
    <2> DEFINE T == {i \in 1..n : k[x][i] # k[y][i]}
    <2>1. T # {}
      <3> SUFFICES ASSUME T = {} PROVE FALSE
        OBVIOUS
      <3>1. \A i \in 1..n : k[x][i] = k[y][i]
        OBVIOUS
      <3> QED
        BY <1>2, <1>5, <3>1 DEF Telling
    <2>2. PICK m \in T : \A i \in T : m <= i
      <3>1. T \in SUBSET Nat
        OBVIOUS
      <3> HIDE DEF T
      <3> QED
        BY <2>1, <3>1, Least
    <2>3. \A i \in 1..(m - 1) : k[x][i] = k[y][i]
      BY <2>2
    <2>4. Later(k[x][m], k[y][m]) \/ Later(k[y][m], k[x][m])
      BY <1>2, LaterOrders
    <2> QED
      BY <1>2, <2>3, <2>4 DEF Before
  <1> QED
    BY <1>1, <1>3, <1>4, <1>5 DEF Orders, R


\* A page without an offset: the first of the set, all of it if there is room.
LEMMA PageHolds ==
    ASSUME NEW S, IsFiniteSet(S), NEW k, Keyed(k, S), Telling(k, S), NEW limit \in Nat
    PROVE  LET page == Paged(k, S, limit)
           IN  /\ page \subseteq S /\ IsFiniteSet(page) /\ Cardinality(page) \in Nat /\ Cardinality(S) \in Nat
               /\ Cardinality(S) <= limit => page = S
               /\ Cardinality(S) >= limit => Cardinality(page) = limit
               /\ Cardinality(page) <= limit
               /\ \A e \in page, x \in S : Before(k[x], k[e]) => x \in page
  <1> DEFINE R == Precedes(k, S)
             page == Paged(k, S, limit)
             rank(e) == Cardinality(Below(e, R, S))
  <1>1. Orders(R, S)
    BY BeforeOrders
  <1>2. \A e \in S : Place(k, S, e) = rank(e)
    <2>1. \A e \in S : {x \in S : Before(k[x], k[e])} = Below(e, R, S)
      BY DEF Below, Precedes
    <2> QED
      BY <2>1 DEF Place
  <1>3. \A x, y \in S : <<x, y>> \in R <=> Before(k[x], k[y])
    BY DEF Precedes
  <1> HIDE DEF R
  <1>4. /\ Cardinality(S) \in Nat
        /\ \A x \in S : rank(x) \in 0..(Cardinality(S) - 1)
        /\ \A x, y \in S : rank(x) = rank(y) => x = y
        /\ \A n \in 1..Cardinality(S) : \E x \in S : rank(x) = n - 1
    BY <1>1, RanksFill
  <1>5. page = {e \in S : rank(e) < limit}
    BY <1>2, <1>4 DEF Paged
  <1>6. page \subseteq S /\ IsFiniteSet(page) /\ Cardinality(page) \in Nat
    BY <1>5, FS_Subset, FS_CardinalityType
  <1>7. Cardinality(S) <= limit => page = S
    BY <1>4, <1>5
  <1>8. ASSUME Cardinality(S) >= limit
        PROVE  Cardinality(page) = limit
    <2> DEFINE f == [e \in page |-> rank(e)]
               I == 0..(limit - 1)
    <2>1. IsFiniteSet(I) /\ Cardinality(I) = limit
      BY FS_Interval
    <2>2. \A e \in page : rank(e) \in I
      BY <1>4, <1>5
    <2>3. \A n \in I : \E e \in page : rank(e) = n
      <3> SUFFICES ASSUME NEW n \in I PROVE \E e \in page : rank(e) = n
        OBVIOUS
      <3>1. n + 1 \in 1..Cardinality(S) /\ (n + 1) - 1 = n
        BY <1>4, <1>8
      <3> HIDE DEF page, rank, I
      <3>2. PICK x \in S : rank(x) = n
        BY <1>4, <3>1
      <3> QED
        BY <1>5, <3>2 DEF I
    <2>4. \A x, y \in page : rank(x) = rank(y) => x = y
      BY <1>4, <1>6
    <2> HIDE DEF page, rank, I
    <2>5. f \in Bijection(page, I)
      BY <2>2, <2>3, <2>4 DEF Bijection, Injection, Surjection, IsInjective
    <2> HIDE DEF f
    <2>6. ExistsBijection(page, I)
      BY <2>5 DEF ExistsBijection
    <2> QED
      BY <1>6, <2>1, <2>6, FS_Bijection
  <1>9. Cardinality(page) <= limit
    BY <1>4, <1>6, <1>7, <1>8
  <1>10. \A e \in page, x \in S : Before(k[x], k[e]) => x \in page
    <2> SUFFICES ASSUME NEW e \in page, NEW x \in S, <<x, e>> \in R PROVE x \in page
      BY <1>3, <1>5
    <2>1. Below(x, R, S) \subseteq Below(e, R, S) /\ e \in S
      BY <1>1, <1>5 DEF Below, Orders
    <2>2. IsFiniteSet(Below(e, R, S))
      BY FS_Subset DEF Below
    <2>3. rank(x) <= rank(e)
      BY <2>1, <2>2, FS_Subset
    <2> QED
      BY <1>4, <1>5, <2>1, <2>3
  <1> HIDE DEF page
  <1> QED
    BY <1>4, <1>6, <1>7, <1>8, <1>9, <1>10 DEF page

\* Where there is room for all, keys may be equal.
LEMMA WholePage ==
    ASSUME NEW S, IsFiniteSet(S), NEW k, Keyed(k, S), NEW limit \in Nat, Cardinality(S) <= limit
    PROVE  Paged(k, S, limit) = S
  <1> SUFFICES ASSUME NEW e \in S
               PROVE  Place(k, S, e) \in Nat /\ Place(k, S, e) < limit
    BY DEF Paged
  <1> DEFINE T == {x \in S : Before(k[x], k[e])}
  <1>1. e \notin T
    BY LaterOrders DEF Before, Keyed
  <1>2. T \in SUBSET S /\ T # S
    BY <1>1
  <1>3. Cardinality(T) \in Nat /\ Cardinality(S) \in Nat /\ Cardinality(T) <= Cardinality(S) /\ Cardinality(T) # Cardinality(S)
    BY <1>2, FS_Subset, FS_CardinalityType
  <1> QED
    BY <1>3 DEF Place

\* The first of a set.
LEMMA FirstPlace ==
    ASSUME NEW S, IsFiniteSet(S), S # {}, NEW k, Keyed(k, S), Telling(k, S)
    PROVE  /\ \E e \in S : Place(k, S, e) = 0
           /\ \A e, x \in S : Place(k, S, e) = 0 /\ Place(k, S, x) = 0 => e = x
  <1> DEFINE R == Precedes(k, S)
             rank(e) == Cardinality(Below(e, R, S))
  <1>1. Orders(R, S)
    BY BeforeOrders
  <1>2. \A e \in S : Place(k, S, e) = rank(e)
    <2>1. \A e \in S : {x \in S : Before(k[x], k[e])} = Below(e, R, S)
      BY DEF Below, Precedes
    <2> QED
      BY <2>1 DEF Place
  <1> HIDE DEF R
  <1>3. /\ Cardinality(S) \in Nat
        /\ \A x, y \in S : rank(x) = rank(y) => x = y
        /\ \A n \in 1..Cardinality(S) : \E x \in S : rank(x) = n - 1
    BY <1>1, RanksFill
  <1>4. Cardinality(S) # 0
    BY FS_EmptySet
  <1>5. 1 \in 1..Cardinality(S) /\ 1 - 1 = 0
    BY <1>3, <1>4
  <1> HIDE DEF rank
  <1> QED
    BY <1>2, <1>3, <1>5

-----------------------------------------------------------------------------
(* The tables of a reader.                                                   *)

IsStored(r) == IsReport(r) /\ WorkspaceFamily(r.source) \in Range(FamilyOrder)
Stores(rows) == IsFiniteSet(rows) /\ (\A r \in rows : IsStored(r)) /\ \A r, s \in rows : r.id = s.id => r = s

LEMMA EventOfReport ==
    ASSUME NEW r, IsReport(r)
    PROVE  /\ IsReport(RowToEvent(r)) /\ RowToEvent(r).readable = FALSE
           /\ RowToEvent(r).actors = NormalizeActorPayloads(r.actors)
           /\ \A f \in {"id", "source", "type", "words", "url", "ts", "ingest", "label", "mood", "place", "tags", "trigger",
                        "echo", "risk", "signals", "supporting", "influence"} : RowToEvent(r)[f] = r[f]
  <1> DEFINE e == RowToEvent(r)
  <1>1. /\ DOMAIN e = DOMAIN r /\ e.readable = FALSE /\ e.actors = NormalizeActorPayloads(r.actors)
        /\ \A f \in DOMAIN r \ {"actors", "readable", "at", "country"} : e[f] = r[f]
    BY DEF RowToEvent, IsReport, IsEvent, EventFields
  <1>2. \A f \in EventFields \cup {"tags", "trigger", "echo"} : f \in DOMAIN r
    BY DEF IsReport, IsEvent
  <1>3. AreActors(NormalizeActorPayloads(r.actors))
    BY NormalizedActors DEF IsReport, IsEvent, Shows
  <1> HIDE DEF e
  <1>4. /\ e.id = r.id /\ e.ts = r.ts /\ e.ingest = r.ingest /\ e.risk = r.risk /\ e.signals = r.signals
        /\ e.supporting = r.supporting /\ e.influence = r.influence /\ e.mood = r.mood /\ e.words = r.words /\ e.tags = r.tags
    BY <1>1, <1>2 DEF EventFields
  <1>5. IsReport(e)
    BY <1>1, <1>3, <1>4 DEF IsReport, IsEvent
  <1>6. \A f \in {"id", "source", "type", "words", "url", "ts", "ingest", "label", "mood", "place", "tags", "trigger",
                  "echo", "risk", "signals", "supporting", "influence"} : e[f] = r[f]
    BY <1>1, <1>2 DEF EventFields
  <1> QED
    BY <1>1, <1>5, <1>6 DEF e

\* What is stored of a report is one.
LEMMA RowOfReport ==
    ASSUME NEW e, IsStored(e)
    PROVE  /\ IsStored(EventToRow(e)) /\ EventToRow(e).id = e.id
           /\ \A r : IsStored(r) => IsStored(Updated(r, e)) /\ Updated(r, e).id = e.id
  <1> DEFINE x == EventToRow(e)
  <1>1. /\ DOMAIN x = DOMAIN e /\ x.actors = NormalizeActorPayloads(e.actors)
        /\ \A f \in DOMAIN e \ {"actors", "country", "xcountry"} : x[f] = e[f]
    BY DEF EventToRow, IsStored, IsReport, IsEvent, EventFields
  <1>2. \A f \in EventFields \cup {"tags", "trigger", "echo"} : f \in DOMAIN e
    BY DEF IsStored, IsReport, IsEvent
  <1>3. AreActors(x.actors)
    BY <1>1, NormalizedActors DEF IsStored, IsReport, IsEvent, Shows
  <1> HIDE DEF x
  <1>4. /\ x.id = e.id /\ x.ts = e.ts /\ x.ingest = e.ingest /\ x.risk = e.risk /\ x.signals = e.signals
        /\ x.supporting = e.supporting /\ x.influence = e.influence /\ x.mood = e.mood /\ x.words = e.words /\ x.tags = e.tags
        /\ x.source = e.source
    BY <1>1, <1>2 DEF EventFields
  <1>5. IsStored(x)
    BY <1>1, <1>3, <1>4 DEF IsStored, IsReport, IsEvent
  <1>6. ASSUME NEW r, IsStored(r)
        PROVE  IsStored(Updated(r, e)) /\ Updated(r, e).id = e.id
    <2> DEFINE u == [x EXCEPT !.ingest = r.ingest, !.risk = r.risk, !.signals = r.signals,
                              !.supporting = r.supporting, !.influence = r.influence]
    <2>1. Updated(r, e) = u
      BY DEF Updated, x
    <2>2. {"ingest", "risk", "signals", "supporting", "influence", "actors", "id", "ts", "mood", "words", "tags", "source"}
             \subseteq DOMAIN x
      BY <1>1, <1>2 DEF EventFields
    <2>3. /\ DOMAIN u = DOMAIN x /\ u.ingest = r.ingest /\ u.risk = r.risk /\ u.signals = r.signals
          /\ u.supporting = r.supporting /\ u.influence = r.influence
          /\ u.actors = x.actors /\ u.id = x.id /\ u.ts = x.ts /\ u.mood = x.mood /\ u.words = x.words /\ u.tags = x.tags
          /\ u.source = x.source
      BY <2>2
    <2> HIDE DEF u
    <2>4. IsStored(u) /\ u.id = e.id
      BY <1>4, <1>5, <1>6, <2>3 DEF IsStored, IsReport, IsEvent
    <2> QED
      BY <2>1, <2>4
  <1> QED
    BY <1>4, <1>5, <1>6 DEF x

LEMMA UpsertStores ==
    ASSUME NEW rows, Stores(rows), NEW E, Stores(E)
    PROVE  Stores(UpsertMany(rows, E)) /\ Ids(rows) \cup Ids(E) \subseteq Ids(UpsertMany(rows, E))
  <1> DEFINE known(e) == {r \in rows : r.id = e.id}
             row(e) == IF known(e) = {} THEN EventToRow(e) ELSE Updated(CHOOSE r \in known(e) : TRUE, e)
             old == {r \in rows : \A e \in E : e.id # r.id}
             f == [e \in E |-> row(e)]
             new == {f[e] : e \in E}
             all == UpsertMany(rows, E)
  <1>1. all = old \cup new
    <2>1. new = {row(e) : e \in E}
      OBVIOUS
    <2> QED
      BY <2>1 DEF UpsertMany
  <1>2. \A e \in E : IsStored(f[e]) /\ f[e].id = e.id
    <2> SUFFICES ASSUME NEW e \in E PROVE IsStored(row(e)) /\ row(e).id = e.id
      OBVIOUS
    <2>1. IsStored(e)
      BY DEF Stores
    <2>2. CASE known(e) = {}
      BY <2>1, <2>2, RowOfReport
    <2>3. CASE known(e) # {}
      <3>1. (CHOOSE r \in known(e) : TRUE) \in known(e)
        BY <2>3
      <3>2. \A r \in known(e) : IsStored(r)
        BY DEF Stores
      <3> DEFINE r == CHOOSE r \in known(e) : TRUE
      <3>3. row(e) = Updated(r, e)
        BY <2>3
      <3>4. IsStored(r)
        BY <3>1, <3>2
      <3> HIDE DEF r, row
      <3> QED
        BY <2>1, <3>3, <3>4, RowOfReport
    <2> QED
      BY <2>2, <2>3
  <1>3. IsFiniteSet(old) /\ IsFiniteSet(E) /\ DOMAIN f = E
    BY FS_Subset DEF Stores
  <1> HIDE DEF f
  <1>4. IsFiniteSet(all)
    <2>1. IsFiniteSet(new)
      BY <1>3, ImageFinite
    <2> HIDE DEF new, old, all
    <2> QED
      BY <1>1, <1>3, <2>1, FS_Union
  <1>5. \A r \in all : IsStored(r)
    BY <1>1, <1>2 DEF Stores
  <1>6. ASSUME NEW r \in all, NEW s \in all, r.id = s.id
        PROVE  r = s
    <2>1. CASE r \in old /\ s \in old
      BY <1>6, <2>1 DEF Stores
    <2>2. CASE r \in new /\ s \in new
      BY <1>2, <1>6, <2>2 DEF Stores
    <2>3. ~(r \in old /\ s \in new) /\ ~(r \in new /\ s \in old)
      BY <1>2, <1>6
    <2> QED
      BY <1>1, <2>1, <2>2, <2>3
  <1>7. Ids(rows) \cup Ids(E) \subseteq Ids(all)
    <2>1. \A e \in E : e.id \in Ids(all)
      BY <1>1, <1>2 DEF Ids
    <2>2. \A r \in rows : r.id \in Ids(all)
      BY <1>1, <2>1 DEF Ids
    <2> QED
      BY <2>1, <2>2 DEF Ids
  <1> QED
    BY <1>4, <1>5, <1>6, <1>7 DEF Stores

Cases(S) == IsFiniteSet(S) /\ (\A s \in S : IsSituation(s)) /\ \A s, t \in S : s.sid = t.sid => s = t
Alarms(S) == IsFiniteSet(S) /\ (\A a \in S : IsAlert(a)) /\ \A a, b \in S : a.aid = b.aid => a = b
Stories(S) == IsFiniteSet(S) /\ (\A n \in S : IsNarrative(n)) /\ \A n, m \in S : n.nid = m.nid => n = m
Heard(S) == IsFiniteSet(S) /\ \A s \in S : IsSignal(s)
ReaderInv ==
    subject = "reader" =>
        Stores(table) /\ Cases(situations) /\ Alarms(alerts) /\ Stories(narratives) /\ IsFiniteSet(assets) /\ Heard(signals)

\* A record put in place of the one it updates.
LEMMA PutCase ==
    ASSUME NEW S, Cases(S), NEW x, IsSituation(x)
    PROVE  Cases({r \in S : r.sid # x.sid} \cup {x})
  <1>1. IsFiniteSet({r \in S : r.sid # x.sid} \cup {x})
    BY FS_Subset, FS_AddElement DEF Cases
  <1> QED
    BY <1>1 DEF Cases
LEMMA PutAlarm ==
    ASSUME NEW S, Alarms(S), NEW x, IsAlert(x)
    PROVE  Alarms({r \in S : r.aid # x.aid} \cup {x})
  <1>1. IsFiniteSet({r \in S : r.aid # x.aid} \cup {x})
    BY FS_Subset, FS_AddElement DEF Alarms
  <1> QED
    BY <1>1 DEF Alarms
LEMMA PutStory ==
    ASSUME NEW S, Stories(S), NEW x, IsNarrative(x)
    PROVE  Stories({r \in S : r.nid # x.nid} \cup {x})
  <1>1. IsFiniteSet({r \in S : r.nid # x.nid} \cup {x})
    BY FS_Subset, FS_AddElement DEF Stories
  <1> QED
    BY <1>1 DEF Stories
LEMMA PutHeard ==
    ASSUME NEW S, Heard(S), NEW x, IsSignal(x)
    PROVE  Heard({r \in S : r.sid # x.sid} \cup {x}) /\ Heard(S \cup {x})
  <1>1. IsFiniteSet({r \in S : r.sid # x.sid} \cup {x}) /\ IsFiniteSet(S \cup {x})
    BY FS_Subset, FS_AddElement DEF Heard
  <1> QED
    BY <1>1 DEF Heard
LEMMA PutAsset ==
    ASSUME NEW S, IsFiniteSet(S), NEW x
    PROVE  IsFiniteSet({r \in S : r.aid # x.aid} \cup {x})
  BY FS_Subset, FS_AddElement

LEMMA ScoreRows ==
    ASSUME Stores(table), NEW score, IsScore(score)
    PROVE  Stores(Rescored(score))
  <1> DEFINE f == [r \in table |-> IF r.id = score.id THEN [r EXCEPT !.risk = score.risk, !.signals = score.signals] ELSE r]
  <1>1. Rescored(score) = {f[r] : r \in table}
    BY DEF Rescored
  <1>2. \A r \in table : f[r].id = r.id /\ IsStored(f[r])
    <2> SUFFICES ASSUME NEW r \in table PROVE f[r].id = r.id /\ IsStored(f[r])
      OBVIOUS
    <2>1. IsStored(r)
      BY DEF Stores
    <2> DEFINE u == [r EXCEPT !.risk = score.risk, !.signals = score.signals]
    <2>2. {"id", "ts", "ingest", "actors", "risk", "signals", "supporting", "influence", "mood", "words", "tags", "source"}
             \subseteq DOMAIN r
      BY <2>1 DEF IsStored, IsReport, IsEvent, EventFields
    <2>3. /\ DOMAIN u = DOMAIN r /\ u.id = r.id /\ u.ts = r.ts /\ u.ingest = r.ingest /\ u.actors = r.actors
          /\ u.supporting = r.supporting /\ u.influence = r.influence /\ u.mood = r.mood /\ u.words = r.words
          /\ u.tags = r.tags /\ u.source = r.source /\ u.risk = score.risk /\ u.signals = score.signals
      BY <2>2
    <2>4. f[r] = r \/ f[r] = u
      OBVIOUS
    <2> HIDE DEF u, f
    <2>5. IsStored(u) /\ u.id = r.id
      BY <2>1, <2>3 DEF IsStored, IsReport, IsEvent, IsScore
    <2> QED
      BY <2>1, <2>4, <2>5
  <1>3. IsFiniteSet(table) /\ DOMAIN f = table
    BY DEF Stores
  <1> HIDE DEF f
  <1>4. IsFiniteSet(Rescored(score))
    BY <1>1, <1>3, ImageFinite
  <1>5. \A r \in Rescored(score) : IsStored(r)
    BY <1>1, <1>2
  <1>6. \A r, s \in Rescored(score) : r.id = s.id => r = s
    <2>1. \A r, s \in table : r.id = s.id => r = s
      BY DEF Stores
    <2> QED
      BY <1>1, <1>2, <2>1
  <1> QED
    BY <1>4, <1>5, <1>6 DEF Stores

LEMMA ArriveReader ==
    ASSUME ReaderInv, subject = "reader", Arrive
    PROVE  /\ Stores(table') /\ Cases(situations') /\ Alarms(alerts') /\ Stories(narratives')
           /\ IsFiniteSet(assets') /\ Heard(signals')
  <1>1. PICK i \in Evidence \ came :
          /\ table' = CASE i.kind = "event" -> UpsertMany(table, {i.value})
                        [] i.kind = "score" -> Rescored(i.value)
                        [] OTHER -> table
          /\ situations' = IF i.kind = "situation" THEN {s \in situations : s.sid # i.value.sid} \cup {i.value} ELSE situations
          /\ alerts' = IF i.kind = "alert" THEN {a \in alerts : a.aid # i.value.aid} \cup {i.value} ELSE alerts
          /\ narratives' = IF i.kind = "narrative" THEN {n \in narratives : n.nid # i.value.nid} \cup {i.value} ELSE narratives
          /\ assets' = IF i.kind = "asset" THEN {a \in assets : a.aid # i.value.aid} \cup {i.value} ELSE assets
          /\ signals' = IF i.kind = "signal" THEN {s \in signals : s.sid # i.value.sid} \cup {i.value} ELSE signals
    BY DEF Arrive, Put
  <1>2. /\ Stores(table) /\ Cases(situations) /\ Alarms(alerts) /\ Stories(narratives) /\ IsFiniteSet(assets) /\ Heard(signals)
    BY DEF ReaderInv
  <1>3. /\ i.kind = "event" => IsReport(i.value) /\ i \in Evidence
        /\ i.kind = "score" => IsScore(i.value)
        /\ i.kind = "situation" => IsSituation(i.value)
        /\ i.kind = "alert" => IsAlert(i.value)
        /\ i.kind = "narrative" => IsNarrative(i.value)
        /\ i.kind = "signal" => IsSignal(i.value)
    BY <1>1, EvidenceAssumption
  <1>4. Stores(table')
    <2>1. CASE i.kind = "event"
      <3>1. i.value \in Reported
        BY <2>1 DEF Reported
      <3>2. IsStored(i.value)
        BY <1>3, <2>1, <3>1, FamilyOrderAssumption DEF IsStored
      <3>3. Stores({i.value})
        BY <3>2, FS_Singleton DEF Stores
      <3>4. table' = UpsertMany(table, {i.value})
        BY <1>1, <2>1
      <3> QED
        BY <1>2, <3>3, <3>4, UpsertStores
    <2>2. CASE i.kind = "score"
      BY <1>1, <1>2, <1>3, <2>2, ScoreRows
    <2> QED
      BY <1>1, <1>2, <2>1, <2>2
  <1>5. Cases(situations')
    BY <1>1, <1>2, <1>3, PutCase
  <1>6. Alarms(alerts')
    BY <1>1, <1>2, <1>3, PutAlarm
  <1>7. Stories(narratives')
    BY <1>1, <1>2, <1>3, PutStory
  <1>8. IsFiniteSet(assets')
    BY <1>1, <1>2, PutAsset
  <1>9. Heard(signals')
    BY <1>1, <1>2, <1>3, PutHeard
  <1> QED
    BY <1>4, <1>5, <1>6, <1>7, <1>8, <1>9

\* The first of two that is there.
LEMMA FirstOfTwo ==
    ASSUME NEW a, NEW b
    PROVE  FirstOf(<<a, b>>) = IF a # None THEN a ELSE b
  <1> DEFINE s == <<a, b>>
             T == {i \in DOMAIN s : s[i] # None}
  <1>1. DOMAIN s = {1, 2} /\ s[1] = a /\ s[2] = b
    OBVIOUS
  <1> HIDE DEF s
  <1>2. FirstOf(s) = IF T = {} THEN None ELSE s[Min(T)]
    BY DEF FirstOf
  <1>3. ASSUME T # {} PROVE Min(T) \in T /\ \A i \in T : Min(T) <= i
    <2>1. T \subseteq {1, 2}
      BY <1>1
    <2>2. \E m \in T : \A n \in T : m <= n
      BY <1>3, <2>1
    <2> HIDE DEF T
    <2> QED
      BY <2>2 DEF Min
  <1> QED
    BY <1>1, <1>2, <1>3 DEF s

\* The videos of a live search.
LEMMA WarmStores == Stores(WarmYoutube(Videos))
  <1> DEFINE f == [v \in Videos |-> [v EXCEPT !.label = FirstOf(<<@, "NEUTRAL">>), !.mood = FirstOf(<<@, One \div 2>>)]]
  <1>1. WarmYoutube(Videos) = {f[v] : v \in Videos}
    BY DEF WarmYoutube
  <1>2. ASSUME NEW v \in Videos
        PROVE  f[v].id = v.id /\ IsStored(f[v])
    <2>1. IsReport(v) /\ WorkspaceFamily(v.source) \in Range(FamilyOrder)
      BY FoundAssumption, FamilyOrderAssumption DEF Reported
    <2> DEFINE m == FirstOf(<<v.mood, One \div 2>>)
               l == FirstOf(<<v.label, "NEUTRAL">>)
               u == [v EXCEPT !.label = l, !.mood = m]
    <2>2. f[v] = u
      OBVIOUS
    <2>3. m \in Int \cup {None}
      <3>1. One \div 2 \in Int
        BY DEF One
      <3>2. v.mood \in Int \cup {None}
        BY <2>1 DEF IsReport
      <3> QED
        BY <3>1, <3>2, FirstOfTwo
    <2> HIDE DEF m, l
    <2>4. {"id", "ts", "ingest", "actors", "risk", "signals", "supporting", "influence", "mood", "words", "tags", "source", "label"}
             \subseteq DOMAIN v
      BY <2>1 DEF IsReport, IsEvent, EventFields
    <2>5. /\ DOMAIN u = DOMAIN v /\ u.id = v.id /\ u.ts = v.ts /\ u.ingest = v.ingest /\ u.actors = v.actors
          /\ u.supporting = v.supporting /\ u.influence = v.influence /\ u.mood = m /\ u.words = v.words
          /\ u.tags = v.tags /\ u.source = v.source /\ u.risk = v.risk /\ u.signals = v.signals
      BY <2>4
    <2> HIDE DEF u, f
    <2>6. IsStored(u) /\ u.id = v.id
      BY <2>1, <2>3, <2>5 DEF IsStored, IsReport, IsEvent
    <2> QED
      BY <2>2, <2>6
  <1>3. IsFiniteSet(Videos) /\ DOMAIN f = Videos
    BY FoundAssumption
  <1> HIDE DEF f
  <1>4. IsFiniteSet(WarmYoutube(Videos))
    BY <1>1, <1>3, ImageFinite
  <1>5. \A r \in WarmYoutube(Videos) : IsStored(r)
    BY <1>1, <1>2
  <1>6. \A r, s \in WarmYoutube(Videos) : r.id = s.id => r = s
    <2>1. \A v, w \in Videos : v.id = w.id => v = w
      BY FoundAssumption
    <2> QED
      BY <1>1, <1>2, <2>1
  <1> QED
    BY <1>4, <1>5, <1>6 DEF Stores

LEMMA InitReader == Init => ReaderInv
  BY FS_EmptySet DEF Init, ReaderInv, Stores, Cases, Alarms, Stories, Heard

LEMMA ReaderStep ==
    ASSUME ReaderInv, [Next]_vars
    PROVE  ReaderInv'
  <1> DEFINE tables == <<table, situations, alerts, narratives, assets, signals>>
  <1>1. subject' = subject
    BY DEF Next, JobsServed, Stored, ScreenServed, Session, ViewsServed, ReaderServed, WalkerServed, Serve, vars
  <1>2. CASE subject # "reader"
    BY <1>1, <1>2 DEF ReaderInv
  <1>3. ASSUME subject = "reader" PROVE ReaderInv'
    <2>1. /\ Stores(table) /\ Cases(situations) /\ Alarms(alerts) /\ Stories(narratives) /\ IsFiniteSet(assets) /\ Heard(signals)
      BY <1>3 DEF ReaderInv
    <2>2. ReaderServed \/ UNCHANGED vars
      BY <1>3 DEF Next, JobsServed, Stored, ScreenServed, Session, ViewsServed, WalkerServed, Serve
    <2>3. CASE UNCHANGED vars
      BY <2>1, <2>3 DEF ReaderInv, vars, evidenceVars
    <2>4. CASE Arrive
      BY <1>3, <2>4, ArriveReader DEF ReaderInv
    <2>5. CASE AskSentiment
      <3>1. PICK q \in Questions : table' = ResolveSentiment(table, q, Videos, Day).table
        BY <2>5 DEF AskSentiment
      <3>2. table' = table \/ table' = UpsertMany(table, WarmYoutube(Videos))
        BY <3>1 DEF ResolveSentiment, Warmed
      <3>3. Stores(table')
        BY <2>1, <3>2, WarmStores, UpsertStores
      <3> QED
        BY <2>1, <2>5, <3>3 DEF ReaderInv, AskSentiment, evidenceVars
    <2>6. CASE AddNote
      <3>1. PICK r \in table : signals' = EnrichEvent(signals, r.id, "note")
        BY <2>6 DEF AddNote
      <3> DEFINE note == [sid |-> "note", event |-> r.id, source |-> "field_analyst", ts |-> None, cluster |-> None]
      <3>2. IsSignal(note)
        BY DEF IsSignal
      <3>3. signals' = signals \/ signals' = signals \cup {note}
        BY <3>1 DEF EnrichEvent
      <3> HIDE DEF note
      <3>4. Heard(signals')
        BY <2>1, <3>2, <3>3, PutHeard
      <3> QED
        BY <2>1, <2>6, <3>4 DEF ReaderInv, AddNote
    <2> QED
      BY <2>2, <2>3, <2>4, <2>5, <2>6 DEF ReaderServed
  <1> QED
    BY <1>2, <1>3

-----------------------------------------------------------------------------
(* Scores rise with the evidence.                                            *)

StrengthKey(S) == [s \in S |-> <<s.risk, s.at, s.sid>>]
Linking(S, id) == {s \in Strongest(S, MembershipLimit) : id \in s.events}
Leader(of) == CHOOSE x \in of : Rank(x, of, LAMBDA y : <<y.risk, y.at, y.sid>>) = 0
Sources(s, rows) == Cardinality(FamiliesIn(rows, s.events))
CaseRecord(s, rows) ==
    [sid |-> s.sid, risk |-> s.risk, sources |-> Sources(s, rows), hint |-> Hint(Sources(s, rows), s.count)]

LEMMA StrengthOrders ==
    ASSUME NEW S, Cases(S)
    PROVE  Keyed(StrengthKey(S), S) /\ Telling(StrengthKey(S), S)
  <1> DEFINE k == StrengthKey(S)
  <1>1. \A s \in S : k[s] = <<s.risk, s.at, s.sid>> /\ {s.risk, s.at, s.sid} \subseteq Int
    BY DEF StrengthKey, Cases, IsSituation
  <1>2. \A s \in S : DOMAIN k[s] = 1..3 /\ k[s][1] = s.risk /\ k[s][2] = s.at /\ k[s][3] = s.sid
    BY <1>1
  <1> HIDE DEF k
  <1>3. \A s \in S : \A i \in 1..3 : k[s][i] \in Int
    BY <1>1, <1>2
  <1>4. Keyed(k, S)
    BY <1>2, <1>3 DEF Keyed
  <1>5. Telling(k, S)
    BY <1>2 DEF Telling, Cases
  <1> QED
    BY <1>4, <1>5 DEF k

LEMMA StrongestIn ==
    ASSUME NEW S, Cases(S), NEW n \in Nat
    PROVE  Strongest(S, n) \subseteq {s \in S : s.active} /\ Cases(Strongest(S, n))
  <1> DEFINE A == {s \in S : s.active}
  <1>1. Cases(A) /\ A \subseteq S
    BY FS_Subset DEF Cases
  <1> HIDE DEF A
  <1>2. Strongest(S, n) = Paged(StrengthKey(A), A, n)
    BY DEF Strongest, Page, Rank, Paged, Place, StrengthKey, A
  <1>3. Strongest(S, n) \subseteq A
    BY <1>2 DEF Paged
  <1> QED
    BY <1>1, <1>3, FS_Subset DEF Cases, A

LEMMA LeaderIn ==
    ASSUME NEW S, Cases(S), NEW id, Linking(S, id) # {}
    PROVE  Leader(Linking(S, id)) \in Linking(S, id) /\ Leader(Linking(S, id)) \in S
  <1> DEFINE of == Linking(S, id)
  <1>1. of \subseteq Strongest(S, MembershipLimit) /\ MembershipLimit \in Nat
    BY DEF Linking, MembershipLimit
  <1>2. of \subseteq S /\ Cases(of)
    BY <1>1, StrongestIn, FS_Subset DEF Cases
  <1> HIDE DEF of
  <1>3. \E x \in of : Place(StrengthKey(of), of, x) = 0
    BY <1>2, StrengthOrders, FirstPlace DEF of, Cases
  <1>4. \A x \in of : Place(StrengthKey(of), of, x) = Rank(x, of, LAMBDA y : <<y.risk, y.at, y.sid>>)
    BY DEF Place, Rank, StrengthKey
  <1>5. \E x \in of : Rank(x, of, LAMBDA y : <<y.risk, y.at, y.sid>>) = 0
    BY <1>3, <1>4
  <1>6. Leader(of) \in of
    BY <1>5 DEF Leader
  <1> QED
    BY <1>2, <1>6 DEF of

LEMMA LinkedIs ==
    ASSUME NEW id, NEW rows, NEW S
    PROVE  Linked(id, rows, S) = IF Linking(S, id) = {} THEN None ELSE CaseRecord(Leader(Linking(S, id)), rows)
  BY DEF Linked, Linking, Leader, CaseRecord, Sources

LEMMA SourcesGrow ==
    ASSUME NEW rows, IsFiniteSet(rows), NEW less \in SUBSET rows, NEW s
    PROVE  Sources(s, less) \in Nat /\ Sources(s, rows) \in Nat /\ Sources(s, less) <= Sources(s, rows)
  <1> DEFINE R == {x \in rows : x.id \in s.events}
             f == [r \in R |-> FamilyOf(r.source)]
  <1>1. FamiliesIn(rows, s.events) = {f[r] : r \in R}
    BY DEF FamiliesIn
  <1>2. IsFiniteSet(R) /\ DOMAIN f = R
    BY FS_Subset
  <1>3. IsFiniteSet(FamiliesIn(rows, s.events))
    <2> HIDE DEF f, R
    <2> QED
      BY <1>1, <1>2, ImageFinite
  <1>4. FamiliesIn(less, s.events) \subseteq FamiliesIn(rows, s.events)
    BY DEF FamiliesIn
  <1> QED
    BY <1>3, <1>4, FS_Subset, FS_CardinalityType DEF Sources

\* One case weighs at least as much as another.
IsLink(l) == l = None \/ {l.risk, l.sources, l.hint} \subseteq Nat
Outweighs(m, l) ==
    /\ IsLink(l) /\ IsLink(m)
    /\ l = None \/ (m # None /\ l.risk <= m.risk /\ l.sources <= m.sources /\ l.hint <= m.hint)
\* One event is another with no less to it.
Richer(f, e) ==
    /\ IsReport(e) /\ IsReport(f) /\ e.readable = FALSE /\ f.readable = FALSE
    /\ e.risk <= f.risk /\ e.signals <= f.signals
    /\ e.source = f.source /\ e.type = f.type /\ e.url = f.url /\ e.trigger = f.trigger /\ e.echo = f.echo
    /\ e.actors = f.actors /\ e.supporting = f.supporting /\ e.influence = f.influence

LEMMA CapGrows ==
    ASSUME NEW a \in Nat, NEW b \in Nat, a <= b, NEW k \in Nat
    PROVE  /\ Min({a, k}) \in Nat /\ Min({b, k}) \in Nat /\ Min({a, k}) <= Min({b, k}) /\ Min({a, k}) <= k
           /\ Min({k, a}) \in Nat /\ Min({k, b}) \in Nat /\ Min({k, a}) <= Min({k, b}) /\ Min({k, a}) <= k
  <1>1. Min({a, k}) = IF a <= k THEN a ELSE k
    BY Extremes
  <1>2. Min({b, k}) = IF b <= k THEN b ELSE k
    BY Extremes
  <1>3. Min({k, a}) = IF k <= a THEN k ELSE a
    BY Extremes
  <1>4. Min({k, b}) = IF k <= b THEN k ELSE b
    BY Extremes
  <1> QED
    BY <1>1, <1>2, <1>3, <1>4

LEMMA CapNat ==
    ASSUME NEW a \in Nat, NEW k \in Nat
    PROVE  /\ Min({a, k}) \in Nat /\ Min({a, k}) <= k
           /\ Min({k, a}) \in Nat /\ Min({k, a}) <= k
  BY CapGrows

LEMMA HintGrows ==
    ASSUME NEW a \in Nat, NEW b \in Nat, a <= b, NEW n \in Nat
    PROVE  Hint(a, n) \in Nat /\ Hint(b, n) \in Nat /\ Hint(a, n) <= Hint(b, n)
  <1> DEFINE x == Min({a, 6})  y == Min({b, 6})  z == Min({n, 8})
  <1>1. x \in Nat /\ y \in Nat /\ z \in Nat /\ x <= y
    <2>1. x \in Nat /\ y \in Nat /\ x <= y
      BY CapGrows
    <2>2. n <= n
      OBVIOUS
    <2>3. z \in Nat
      BY <2>2, CapGrows
    <2> QED
      BY <2>1, <2>3
  <1>2. Hint(a, n) = (1000 * x) \div 12 + (1000 * z) \div 16 /\ Hint(b, n) = (1000 * y) \div 12 + (1000 * z) \div 16
    BY DEF Hint, One
  <1> HIDE DEF x, y, z
  <1> QED
    BY <1>1, <1>2

LEMMA RecordIsLink ==
    ASSUME NEW s, IsSituation(s), NEW rows, IsFiniteSet(rows)
    PROVE  IsLink(CaseRecord(s, rows))
  <1>1. Sources(s, rows) \in Nat
    BY SourcesGrow
  <1>2. Hint(Sources(s, rows), s.count) \in Nat
    <2>1. s.count \in Nat /\ Sources(s, rows) <= Sources(s, rows)
      BY <1>1 DEF IsSituation
    <2> QED
      BY <1>1, <2>1, HintGrows
  <1> QED
    BY <1>1, <1>2 DEF IsLink, CaseRecord, IsSituation

LEMMA LinkedLinks ==
    ASSUME NEW S, Cases(S), NEW rows, IsFiniteSet(rows), NEW id
    PROVE  IsLink(Linked(id, rows, S))
  <1>1. CASE Linking(S, id) = {}
    BY <1>1, LinkedIs DEF IsLink
  <1>2. CASE Linking(S, id) # {}
    <2>1. IsSituation(Leader(Linking(S, id)))
      BY <1>2, LeaderIn DEF Cases
    <2> QED
      BY <1>2, <2>1, LinkedIs, RecordIsLink
  <1> QED
    BY <1>1, <1>2

LEMMA CorroborationGrows ==
    ASSUME NEW e, NEW f, Richer(f, e), NEW l, NEW m, Outweighs(m, l)
    PROVE  /\ CorroborationScore(e, l) \in Nat /\ CorroborationScore(f, m) \in Nat
           /\ CorroborationScore(e, l) <= CorroborationScore(f, m)
  <1> DEFINE a == Min({e.signals, 6})
             b == Min({f.signals, 6})
             c == Min({e.supporting, 6})
             d == Min({Len(e.actors), 6})
             p == Min({LinkedSources(l), 5})
             q == Min({LinkedSources(m), 5})
             u == IF e.url THEN 100 ELSE 0
             v == IF l = None THEN 0 ELSE (50 * l.hint) \div 1000
             w == IF m = None THEN 0 ELSE (50 * m.hint) \div 1000
             x == (350 * a) \div 6 + (150 * c) \div 6 + (100 * d) \div 6 + (250 * p) \div 5 + u + v
             y == (350 * b) \div 6 + (150 * c) \div 6 + (100 * d) \div 6 + (250 * q) \div 5 + u + w
  <1>1. e.signals \in Nat /\ f.signals \in Nat /\ e.supporting \in Nat /\ Len(e.actors) \in Nat
    BY DEF Richer, IsReport, IsEvent, AreActors
  <1>2. a \in Nat /\ b \in Nat /\ a <= b /\ c \in Nat /\ d \in Nat
    <2>1. e.signals <= f.signals /\ e.supporting <= e.supporting /\ Len(e.actors) <= Len(e.actors)
      BY <1>1 DEF Richer
    <2>2. a \in Nat /\ b \in Nat /\ a <= b
      BY <1>1, <2>1, CapGrows
    <2>3. c \in Nat
      BY <1>1, <2>1, CapGrows
    <2>4. d \in Nat
      BY <1>1, <2>1, CapGrows
    <2> QED
      BY <2>2, <2>3, <2>4
  <1>3. LinkedSources(l) \in Nat /\ LinkedSources(m) \in Nat /\ LinkedSources(l) <= LinkedSources(m)
    BY DEF LinkedSources, Outweighs, IsLink
  <1>4. p \in Nat /\ q \in Nat /\ p <= q
    <2> HIDE DEF LinkedSources
    <2> QED
      BY <1>3, CapGrows
  <1>5. u \in Nat
    OBVIOUS
  <1>6. v \in Nat /\ w \in Nat /\ v <= w
    BY DEF Outweighs, IsLink
  <1>7. CorroborationScore(e, l) = Min({1000, x})
    BY DEF CorroborationScore, One
  <1>8. CorroborationScore(f, m) = Min({1000, y})
    BY DEF CorroborationScore, One, Richer
  <1> HIDE DEF a, b, c, d, p, q, u, v, w
  <1>9. x \in Nat /\ y \in Nat /\ x <= y
    BY <1>2, <1>4, <1>5, <1>6
  <1> HIDE DEF x, y
  <1> QED
    BY <1>7, <1>8, <1>9, CapGrows

LEMMA ImportanceGrows ==
    ASSUME NEW e, NEW f, Richer(f, e), NEW l, NEW m, Outweighs(m, l)
    PROVE  Importance(e, l) \in Nat /\ Importance(f, m) \in Nat /\ Importance(e, l) <= Importance(f, m)
  <1> DEFINE a == Min({e.signals, 6})
             b == Min({f.signals, 6})
             c == Min({e.influence, 1000})
             d == Min({Len(e.actors), 6})
             p == CorroborationScore(e, l)
             q == CorroborationScore(f, m)
             u == IF e.type = "anomaly" THEN 120 ELSE 0
             v == IF l = None THEN 0 ELSE (18 * l.risk) \div 100
             w == IF m = None THEN 0 ELSE (18 * m.risk) \div 100
  <1>1. /\ e.signals \in Nat /\ f.signals \in Nat /\ e.influence \in Nat /\ Len(e.actors) \in Nat
        /\ e.risk \in Nat /\ f.risk \in Nat /\ e.risk <= f.risk
    BY DEF Richer, IsReport, IsEvent, AreActors
  <1>2. a \in Nat /\ b \in Nat /\ a <= b /\ c \in Nat /\ d \in Nat
    <2>1. e.signals <= f.signals /\ e.influence <= e.influence /\ Len(e.actors) <= Len(e.actors)
      BY <1>1 DEF Richer
    <2>2. a \in Nat /\ b \in Nat /\ a <= b
      <3>1. e.signals \in Nat /\ f.signals \in Nat /\ e.signals <= f.signals /\ 6 \in Nat
        BY <1>1, <2>1
      <3> QED
        BY <3>1, CapGrows
    <2>3. c \in Nat
      <3>1. e.influence \in Nat
        BY <1>1
      <3> QED
        BY <3>1, CapNat
    <2>4. d \in Nat
      BY <1>1, <2>1, CapGrows
    <2> QED
      BY <2>2, <2>3, <2>4
  <1>3. p \in Nat /\ q \in Nat /\ p <= q
    BY CorroborationGrows
  <1>4. u \in Nat
    OBVIOUS
  <1>5. v \in Nat /\ w \in Nat /\ v <= w
    BY DEF Outweighs, IsLink
  <1>6. Importance(e, l) = (32 * e.risk) \div 100 + v + (8 * c) \div 100 + (120 * a) \div 6 + (80 * d) \div 6 + (22 * p) \div 100 + u
    BY DEF Importance, One
  <1>7. Importance(f, m) = (32 * f.risk) \div 100 + w + (8 * c) \div 100 + (120 * b) \div 6 + (80 * d) \div 6 + (22 * q) \div 100 + u
    BY DEF Importance, One, Richer
  <1> HIDE DEF a, b, c, d, p, q, u, v, w
  <1>8. (32 * e.risk) \div 100 \in Nat /\ (32 * f.risk) \div 100 \in Nat /\ (32 * e.risk) \div 100 <= (32 * f.risk) \div 100
    BY <1>1
  <1>9. (120 * a) \div 6 \in Nat /\ (120 * b) \div 6 \in Nat /\ (120 * a) \div 6 <= (120 * b) \div 6
    BY <1>2
  <1>10. (22 * p) \div 100 \in Nat /\ (22 * q) \div 100 \in Nat /\ (22 * p) \div 100 <= (22 * q) \div 100
    BY <1>3
  <1>11. (8 * c) \div 100 \in Nat /\ (80 * d) \div 6 \in Nat
    BY <1>2
  <1> QED
    BY <1>4, <1>5, <1>6, <1>7, <1>8, <1>9, <1>10, <1>11

LEMMA ScoreGrows ==
    ASSUME NEW e, NEW f, Richer(f, e), NEW l, NEW m, Outweighs(m, l)
    PROVE  FeedScore(e, l, Day) <= FeedScore(f, m, Day)
  <1> DEFINE i == Importance(e, l)
             j == Importance(f, m)
             w == IF e.trigger = "auto_social" THEN 80 ELSE 100
             x == ((7 * i + 3 * 200) * 100 * w) \div 100000
             y == ((7 * j + 3 * 200) * 100 * w) \div 100000
  <1>1. i \in Nat /\ j \in Nat /\ i <= j
    BY ImportanceGrows
  <1>2. AgeHours(e, Day) = 24 /\ AgeHours(f, Day) = 24
    BY DEF AgeHours, Day, Richer
  <1>3. ContentAge(e, Day) = 0 /\ ContentAge(f, Day) = 0
    BY DEF ContentAge, Richer
  <1>4. StalePenalty(e, Day) = 100 /\ StalePenalty(f, Day) = 100
    BY <1>3 DEF StalePenalty, Day
  <1>5. (6 * One) \div (6 + 24) = 200
    BY DEF One
  <1>6. FeedScore(e, l, Day) = Min({1000, x})
    BY <1>2, <1>4, <1>5 DEF FeedScore, One
  <1>7. FeedScore(f, m, Day) = Min({1000, y})
    BY <1>2, <1>4, <1>5 DEF FeedScore, One, Richer
  <1>8. w \in {80, 100}
    OBVIOUS
  <1> HIDE DEF i, j, w
  <1>9. x \in Nat /\ y \in Nat /\ x <= y
    <2>1. CASE w = 80
      BY <1>1, <2>1
    <2>2. CASE w = 100
      BY <1>1, <2>2
    <2> QED
      BY <1>8, <2>1, <2>2
  <1> HIDE DEF x, y
  <1> QED
    BY <1>6, <1>7, <1>9, CapGrows

LEMMA EligibleGrows ==
    ASSUME NEW e, NEW f, Richer(f, e), NEW l, NEW m, Outweighs(m, l), PriorityEligible(e, l, Day)
    PROVE  PriorityEligible(f, m, Day)
  <1>1. ContentAge(e, Day) = 0 /\ ContentAge(f, Day) = 0
    BY DEF ContentAge, Richer
  <1>2. e.risk \in Nat /\ f.risk \in Nat /\ e.signals \in Nat /\ f.signals \in Nat
    BY DEF Richer, IsReport
  <1>3. SocialLike(e) <=> SocialLike(f)
    BY DEF SocialLike, Richer
  <1>4. m = None => l = None
    BY DEF Outweighs
  <1>5. (f.signals = 0 => e.signals = 0) /\ (f.risk < 550 => e.risk < 550) /\ (f.risk < 250 => e.risk < 250)
    BY <1>2 DEF Richer
  <1>6. ~(0 > 30 * Day) /\ ~(0 > 14 * Day) /\ ~(0 > 21 * Day)
    BY DEF Day
  <1>7. /\ e.source = f.source /\ e.type = f.type /\ e.trigger = f.trigger /\ e.echo = f.echo
    BY DEF Richer
  <1> HIDE DEF SocialLike, Richer, Outweighs
  <1> QED
    BY <1>1, <1>3, <1>4, <1>5, <1>6, <1>7 DEF PriorityEligible

\* The case an event is linked to without some of the rows.
LEMMA FewerRows ==
    ASSUME NEW S, Cases(S), NEW rows, IsFiniteSet(rows), NEW less \in SUBSET rows, NEW id,
           Linked(id, less, S) = None \/ Linked(id, rows, S) # None
    PROVE  Outweighs(Linked(id, rows, S), Linked(id, less, S))
  <1> DEFINE s == Leader(Linking(S, id))
  <1>0. IsFiniteSet(less)
    BY FS_Subset
  <1>1. IsLink(Linked(id, rows, S)) /\ IsLink(Linked(id, less, S))
    BY <1>0, LinkedLinks
  <1>2. CASE Linking(S, id) = {}
    BY <1>1, <1>2, LinkedIs DEF Outweighs
  <1>3. CASE Linking(S, id) # {}
    <2>1. IsSituation(s)
      BY <1>3, LeaderIn DEF Cases
    <2>2. Sources(s, less) \in Nat /\ Sources(s, rows) \in Nat /\ Sources(s, less) <= Sources(s, rows)
      BY SourcesGrow
    <2>3. Hint(Sources(s, less), s.count) <= Hint(Sources(s, rows), s.count)
      BY <2>1, <2>2, HintGrows DEF IsSituation
    <2>4. Linked(id, rows, S) = CaseRecord(s, rows) /\ Linked(id, less, S) = CaseRecord(s, less)
      BY <1>3, LinkedIs
    <2> DEFINE l == CaseRecord(s, less)
               m == CaseRecord(s, rows)
    <2>5. l.risk = m.risk /\ l.sources = Sources(s, less) /\ m.sources = Sources(s, rows)
          /\ l.hint = Hint(Sources(s, less), s.count) /\ m.hint = Hint(Sources(s, rows), s.count) /\ l.risk = s.risk
      BY DEF CaseRecord
    <2> HIDE DEF l, m, s
    <2> QED
      BY <1>1, <2>1, <2>2, <2>3, <2>4, <2>5 DEF Outweighs, IsSituation, l, m
  <1> QED
    BY <1>2, <1>3

LEMMA SameRow ==
    ASSUME NEW rows, Stores(rows), NEW r \in rows
    PROVE  (CHOOSE x \in rows : x.id = r.id) = r
  BY DEF Stores

LEMMA RicherRow ==
    ASSUME NEW r, IsReport(r), NEW x, IsReport(x), r.risk <= x.risk, r.signals <= x.signals,
           \A f \in {"source", "type", "url", "trigger", "echo", "actors", "supporting", "influence"} : r[f] = x[f]
    PROVE  Richer(RowToEvent(x), RowToEvent(r))
  BY EventOfReport DEF Richer

\* Without one situation.
LEMMA RisesByCases ==
    ASSUME NEW T, T = table, Stores(T), NEW S, S = situations, Cases(S), NEW s \in S
    PROVE  Rises(T, S \ {s})
  <1> SUFFICES ASSUME NEW r \in T,
                      LET before == Linked(r.id, T, S \ {s})
                          linked == Linked(r.id, T, S)
                      IN  before = None \/ (linked # None /\ before.sid = linked.sid)
               PROVE  LET before == Linked(r.id, T, S \ {s})
                          linked == Linked(r.id, T, S)
                          old == RowToEvent(r)
                          new == RowToEvent(CHOOSE x \in T : x.id = r.id)
                      IN  /\ FeedScore(old, before, Day) <= FeedScore(new, linked, Day)
                          /\ PriorityEligible(old, before, Day) => PriorityEligible(new, linked, Day)
    BY DEF Rises
  <1> DEFINE before == Linked(r.id, T, S \ {s})
             linked == Linked(r.id, T, S)
             e == RowToEvent(r)
  <1>1. (CHOOSE x \in T : x.id = r.id) = r
    BY SameRow
  <1>2. Cases(S \ {s}) /\ IsFiniteSet(T) /\ IsReport(r)
    BY FS_Subset DEF Cases, Stores, IsStored
  <1>3. Richer(e, e)
    <2>1. r.risk <= r.risk /\ r.signals <= r.signals
      BY <1>2 DEF IsReport
    <2> QED
      BY <1>2, <2>1, RicherRow
  <1>4. IsLink(before) /\ IsLink(linked)
    BY <1>2, LinkedLinks
  <1>5. Outweighs(linked, before)
    <2>1. CASE before = None
      BY <1>4, <2>1 DEF Outweighs
    <2>2. ASSUME before # None PROVE before = linked
      <3>1. Linking(S \ {s}, r.id) # {} /\ Linking(S, r.id) # {}
        BY <2>2, LinkedIs
      <3> DEFINE a == Leader(Linking(S \ {s}, r.id))
                 b == Leader(Linking(S, r.id))
      <3>2. a \in S /\ b \in S
        BY <1>2, <3>1, LeaderIn
      <3>3. before = CaseRecord(a, T) /\ linked = CaseRecord(b, T)
        BY <3>1, LinkedIs
      <3>4. before.sid = linked.sid
        BY <2>2
      <3> HIDE DEF a, b
      <3>5. a.sid = b.sid
        BY <3>3, <3>4 DEF CaseRecord
      <3>6. a = b
        BY <3>2, <3>5 DEF Cases
      <3> QED
        BY <3>3, <3>6
    <2>3. CASE before # None
      BY <1>4, <2>2, <2>3 DEF Outweighs, IsLink
    <2> QED
      BY <2>1, <2>3
  <1> HIDE DEF before, linked, e
  <1>6. FeedScore(e, before, Day) <= FeedScore(e, linked, Day)
    BY <1>3, <1>5, ScoreGrows
  <1>7. PriorityEligible(e, before, Day) => PriorityEligible(e, linked, Day)
    BY <1>3, <1>5, EligibleGrows
  <1> QED
    BY <1>1, <1>6, <1>7 DEF before, linked, e

\* Without one event.
LEMMA RisesByRows ==
    ASSUME NEW T, T = table, Stores(T), NEW S, S = situations, Cases(S), NEW less \in SUBSET T
    PROVE  Rises(less, S)
  <1> SUFFICES ASSUME NEW r \in less, Linked(r.id, less, S) = None \/ Linked(r.id, T, S) # None
               PROVE  LET before == Linked(r.id, less, S)
                          linked == Linked(r.id, T, S)
                          old == RowToEvent(r)
                          new == RowToEvent(CHOOSE x \in T : x.id = r.id)
                      IN  /\ FeedScore(old, before, Day) <= FeedScore(new, linked, Day)
                          /\ PriorityEligible(old, before, Day) => PriorityEligible(new, linked, Day)
    BY DEF Rises
  <1> DEFINE before == Linked(r.id, less, S)
             linked == Linked(r.id, T, S)
             e == RowToEvent(r)
  <1>1. (CHOOSE x \in T : x.id = r.id) = r
    BY SameRow
  <1>2. IsFiniteSet(T) /\ IsReport(r)
    BY DEF Stores, IsStored
  <1>3. Richer(e, e)
    <2>1. r.risk <= r.risk /\ r.signals <= r.signals
      BY <1>2 DEF IsReport
    <2> QED
      BY <1>2, <2>1, RicherRow
  <1>4. Outweighs(linked, before)
    BY <1>2, FewerRows
  <1> HIDE DEF before, linked, e
  <1>5. FeedScore(e, before, Day) <= FeedScore(e, linked, Day)
    BY <1>3, <1>4, ScoreGrows
  <1>6. PriorityEligible(e, before, Day) => PriorityEligible(e, linked, Day)
    BY <1>3, <1>4, EligibleGrows
  <1> QED
    BY <1>1, <1>5, <1>6 DEF before, linked, e

\* Without the scores of one event.
LEMMA RisesByScores ==
    ASSUME NEW T, T = table, Stores(T), NEW S, S = situations, Cases(S), NEW row \in T
    PROVE  Rises(Unscored(row), S)
  <1> DEFINE U == Unscored(row)
             u(r) == [r EXCEPT !.risk = 0, !.signals = 0]
             same == {"id", "source", "type", "url", "trigger", "echo", "actors", "supporting", "influence"}
  <1>1. \A x \in U : \E r \in T : x = r \/ (r = row /\ x = u(r))
    BY DEF Unscored
  <1>2. \A r \in T : IsReport(r)
    BY DEF Stores, IsStored
  <1>3. ASSUME NEW r \in T
        PROVE  IsReport(u(r)) /\ u(r).risk = 0 /\ u(r).signals = 0 /\ \A f \in same : u(r)[f] = r[f]
    <2> DEFINE v == u(r)
    <2>1. IsReport(r)
      BY <1>2
    <2>2. {"id", "ts", "ingest", "actors", "risk", "signals", "supporting", "influence", "mood", "words", "tags", "source",
            "type", "url", "trigger", "echo"} \subseteq DOMAIN r
      BY <2>1 DEF IsReport, IsEvent, EventFields
    <2>3. /\ DOMAIN v = DOMAIN r /\ v.id = r.id /\ v.ts = r.ts /\ v.ingest = r.ingest /\ v.actors = r.actors
          /\ v.supporting = r.supporting /\ v.influence = r.influence /\ v.mood = r.mood /\ v.words = r.words
          /\ v.tags = r.tags /\ v.risk = 0 /\ v.signals = 0
      BY <2>2
    <2>4. v.source = r.source /\ v.type = r.type /\ v.url = r.url /\ v.trigger = r.trigger /\ v.echo = r.echo
      BY <2>2
    <2> HIDE DEF v
    <2>5. IsReport(v)
      BY <2>1, <2>3 DEF IsReport, IsEvent
    <2> QED
      BY <2>3, <2>4, <2>5 DEF v
  <1> HIDE DEF u
  <1>4. ASSUME NEW x \in U
        PROVE  \E r \in T : /\ IsReport(x) /\ IsReport(r) /\ x.risk <= r.risk /\ x.signals <= r.signals
                            /\ \A f \in same : x[f] = r[f]
    <2>1. PICK r \in T : x = r \/ x = u(r)
      BY <1>1
    <2>2. IsReport(r) /\ r.risk \in Nat /\ r.signals \in Nat
      BY <1>2 DEF IsReport
    <2> QED
      BY <1>3, <2>1, <2>2
  <1>5. \A r \in T : \E x \in U : x.id = r.id /\ x.source = r.source
    <2> SUFFICES ASSUME NEW r \in T PROVE \E x \in U : x.id = r.id /\ x.source = r.source
      OBVIOUS
    <2>1. (IF r = row THEN u(r) ELSE r) \in U
      BY DEF Unscored, u
    <2> QED
      BY <1>3, <2>1
  <1>6. \A ids : FamiliesIn(U, ids) = FamiliesIn(T, ids)
    <2> SUFFICES ASSUME NEW ids PROVE FamiliesIn(U, ids) = FamiliesIn(T, ids)
      OBVIOUS
    <2>1. \A x \in U : \E r \in T : x.id = r.id /\ x.source = r.source
      BY <1>4
    <2> HIDE DEF U
    <2> QED
      BY <1>5, <2>1 DEF FamiliesIn
  <1>7. \A id : Linked(id, U, S) = Linked(id, T, S)
    BY <1>6, LinkedIs DEF CaseRecord, Sources
  <1> SUFFICES ASSUME NEW x \in U
               PROVE  LET before == Linked(x.id, U, S)
                          linked == Linked(x.id, T, S)
                          old == RowToEvent(x)
                          new == RowToEvent(CHOOSE y \in T : y.id = x.id)
                      IN  /\ FeedScore(old, before, Day) <= FeedScore(new, linked, Day)
                          /\ PriorityEligible(old, before, Day) => PriorityEligible(new, linked, Day)
    BY DEF Rises
  <1>8. PICK r \in T : /\ IsReport(x) /\ IsReport(r) /\ x.risk <= r.risk /\ x.signals <= r.signals
                        /\ \A f \in same : x[f] = r[f]
    BY <1>4
  <1>9. x.id = r.id /\ (CHOOSE y \in T : y.id = x.id) = r
    <2>1. x.id = r.id
      BY <1>8
    <2> QED
      BY <2>1, SameRow
  <1> DEFINE e == RowToEvent(x)
             f == RowToEvent(r)
             linked == Linked(x.id, T, S)
  <1>10. Richer(f, e)
    BY <1>8, RicherRow
  <1>11. Outweighs(linked, linked)
    <2>1. IsFiniteSet(T)
      BY DEF Stores
    <2>2. IsLink(linked)
      BY <2>1, LinkedLinks
    <2> QED
      BY <2>2 DEF Outweighs, IsLink
  <1> HIDE DEF e, f, linked, U
  <1>12. FeedScore(e, linked, Day) <= FeedScore(f, linked, Day)
    BY <1>10, <1>11, ScoreGrows
  <1>13. PriorityEligible(e, linked, Day) => PriorityEligible(f, linked, Day)
    BY <1>10, <1>11, EligibleGrows
  <1>14. Linked(x.id, U, S) = linked
    BY <1>7 DEF linked
  <1> QED
    BY <1>9, <1>12, <1>13, <1>14 DEF e, f, linked

LEMMA ScoresDoRise == Stores(table) /\ Cases(situations) => ScoresRise
  <1> SUFFICES ASSUME Stores(table), Cases(situations) PROVE ScoresRise
    OBVIOUS
  <1>1. \A s \in situations : Rises(table, situations \ {s})
    BY RisesByCases
  <1>2. \A r \in table : Rises(table \ {r}, situations)
    BY RisesByRows
  <1>3. \A r \in table : Rises(Unscored(r), situations)
    BY RisesByScores
  <1> QED
    BY <1>1, <1>2, <1>3 DEF ScoresRise

-----------------------------------------------------------------------------
(* A dossier holds more of more.                                             *)

Around(base, rows, until) == {x \in rows : x.id # base.id /\ x.ts # None /\ x.ts >= base.ts /\ x.ts <= until}
Matches(base, rows, until) ==
    {e \in {RowToEvent(r) : r \in Around(base, rows, until)} : MatchScore(base, e) >= 150}

LEMMA RelatedWhole ==
    ASSUME NEW rows, Stores(rows), Cardinality(rows) <= CandidateLimit, NEW base, NEW until
    PROVE  Related(base, rows, until) = Matches(base, rows, until)
  <1> DEFINE W == Around(base, rows, until)
             k == [x \in W |-> <<-x.ts, -x.id>>]
  <1>1. IsFiniteSet(W) /\ Cardinality(W) <= CandidateLimit
    <2>1. IsFiniteSet(rows) /\ W \subseteq rows
      BY DEF Stores, Around
    <2> HIDE DEF W
    <2>2. IsFiniteSet(W) /\ Cardinality(W) <= Cardinality(rows) /\ Cardinality(W) \in Nat /\ Cardinality(rows) \in Nat
      BY <2>1, FS_Subset, FS_CardinalityType
    <2> QED
      BY <2>2 DEF CandidateLimit
  <1>2. \A x \in W : x.ts \in Int /\ x.id \in Int
    BY DEF Around, Stores, IsStored, IsReport, IsEvent
  <1>3. Page(W, LAMBDA x : <<-x.ts, -x.id>>, CandidateLimit, 0) = Paged(k, W, CandidateLimit)
    BY DEF Page, Rank, Paged, Place
  <1>4. \A x \in W : DOMAIN k[x] = 1..2 /\ k[x][1] = -x.ts /\ k[x][2] = -x.id
    OBVIOUS
  <1>5. W = Around(base, rows, until)
    OBVIOUS
  <1> HIDE DEF k, W
  <1>6. \A x \in W : \A i \in 1..2 : k[x][i] \in Int
    BY <1>2, <1>4
  <1>7. Keyed(k, W)
    BY <1>4, <1>6 DEF Keyed
  <1>8. Paged(k, W, CandidateLimit) = W
    BY <1>1, <1>7, WholePage DEF CandidateLimit
  <1> QED
    BY <1>3, <1>5, <1>8 DEF Related, Matches, Around

LEMMA MatchesIn ==
    ASSUME NEW rows, Stores(rows), NEW base, NEW until
    PROVE  /\ IsFiniteSet(Matches(base, rows, until))
           /\ \A e \in Matches(base, rows, until) : IsReport(e)
           /\ \A e, f \in Matches(base, rows, until) : e.id = f.id => e = f
           /\ \A less \in SUBSET rows : Matches(base, less, until) \subseteq Matches(base, rows, until)
  <1> DEFINE W == Around(base, rows, until)
             f == [r \in W |-> RowToEvent(r)]
             M == {f[r] : r \in W}
  <1>1. IsFiniteSet(W) /\ W \subseteq rows
    BY FS_Subset DEF Around, Stores
  <1>2. \A r \in W : IsReport(f[r]) /\ f[r].id = r.id
    BY <1>1, EventOfReport DEF Stores, IsStored
  <1>3. Matches(base, rows, until) \subseteq M
    BY DEF Matches
  <1>4. DOMAIN f = W
    OBVIOUS
  <1>5. \A less \in SUBSET rows : Matches(base, less, until) \subseteq Matches(base, rows, until)
    BY DEF Matches, Around
  <1> HIDE DEF f, W
  <1>6. IsFiniteSet(M)
    BY <1>1, <1>4, ImageFinite
  <1>7. \A e \in M : IsReport(e)
    BY <1>2
  <1>8. \A d, e \in M : d.id = e.id => d = e
    BY <1>1, <1>2 DEF Stores
  <1> HIDE DEF M
  <1> QED
    BY <1>3, <1>5, <1>6, <1>7, <1>8, FS_Subset

LEMMA MatchIsNumber ==
    ASSUME NEW base, NEW e, IsReport(e)
    PROVE  MatchScore(base, e) \in Int
  <1> DEFINE names == NamesOf(base) \cap NamesOf(e)
             words == BaseTerms(base) \cap e.words
             d == DistanceScore(base.place, base.at, e.place, e.at)
             n == [i \in DOMAIN e.actors |-> e.actors[i].name]
  <1>1. IsFiniteSet(names)
    <2>1. NamesOf(e) = {n[i] : i \in DOMAIN e.actors}
      BY DEF NamesOf
    <2>2. IsFiniteSet(DOMAIN e.actors)
      <3>1. PICK len \in Nat : DOMAIN e.actors = 1..len
        BY DEF IsReport, IsEvent, AreActors
      <3> QED
        BY <3>1, FS_Interval
    <2>3. IsFiniteSet(NamesOf(e))
      <3>1. DOMAIN n = DOMAIN e.actors
        OBVIOUS
      <3> HIDE DEF n
      <3> QED
        BY <2>1, <2>2, <3>1, ImageFinite
    <2> QED
      BY <2>3, FS_Subset
  <1>2. IsFiniteSet(words)
    BY FS_Subset DEF IsReport
  <1>3. d \in Int
    BY DEF DistanceScore
  <1> HIDE DEF names, words, d
  <1>4. Cardinality(names) \in Nat /\ Cardinality(words) \in Nat
    BY <1>1, <1>2, FS_CardinalityType
  <1>5. Min({200, 50 * Cardinality(words)}) \in Int
    <2> DEFINE c == 50 * Cardinality(words)
    <2>1. c \in Nat /\ 200 \in Nat
      BY <1>4
    <2> HIDE DEF c
    <2>2. Min({200, c}) \in Nat
      BY <2>1, CapNat
    <2> QED
      BY <2>2 DEF c
  <1> DEFINE m == Min({200, 50 * Cardinality(words)})
  <1>6. MatchScore(base, e) = (IF Cardinality(names) > 0 THEN 250 + 40 * Cardinality(names) ELSE 0)
                              + (IF base.tags \cap e.tags # {} THEN 150 ELSE 0) + m + d
    BY DEF MatchScore, names, words, d
  <1> HIDE DEF m
  <1>7. m \in Int
    BY <1>5 DEF m
  <1> QED
    BY <1>3, <1>4, <1>6, <1>7

\* A page of one set and the page of a part of it.
LEMMA PageOfMore ==
    ASSUME NEW S, IsFiniteSet(S), NEW k, Keyed(k, S), Telling(k, S), NEW limit \in Nat, NEW less \in SUBSET S
    PROVE  less \subseteq Paged(k, S, limit) \/ Cardinality(Paged(k, S, limit)) = limit
  BY PageHolds

NewsOf(base, events) ==
    Page({e \in events : ~IsSocial(e) /\ ~IsPhysical(e)}, LAMBDA e : <<MatchScore(base, e), e.ts, e.id>>, NewsShown, 0)

LEMMA NewsGrow ==
    ASSUME NEW rows, Stores(rows), NEW less \in SUBSET rows, NEW base, NEW until
    PROVE  LET all == NewsOf(base, Matches(base, rows, until))
               some == NewsOf(base, Matches(base, less, until))
           IN  some \subseteq all \/ Cardinality(all) = NewsShown
  <1> DEFINE New(events) == {e \in events : ~IsSocial(e) /\ ~IsPhysical(e)}
             shown(S) == Page(S, LAMBDA e : <<MatchScore(base, e), e.ts, e.id>>, NewsShown, 0)
             A == New(Matches(base, rows, until))
             B == New(Matches(base, less, until))
             k == [e \in A |-> <<MatchScore(base, e), e.ts, e.id>>]
  <1>1. IsFiniteSet(A) /\ B \subseteq A
    BY MatchesIn, FS_Subset
  <1>2. shown(A) = Paged(k, A, NewsShown)
    BY DEF Page, Rank, Paged, Place
  <1>3. shown(B) \subseteq B
    BY DEF Page
  <1>4. \A e \in A : MatchScore(base, e) \in Int /\ e.ts \in Int \cup {None} /\ e.id \in Int
    BY MatchesIn, MatchIsNumber DEF IsReport, IsEvent
  <1>5. \A e, f \in A : e.id = f.id => e = f
    BY MatchesIn
  <1>6. \A e \in A : DOMAIN k[e] = 1..3 /\ k[e][1] = MatchScore(base, e) /\ k[e][2] = e.ts /\ k[e][3] = e.id
    OBVIOUS
  <1> HIDE DEF k, A, B, New
  <1>7. Keyed(k, A)
    <2>1. \A e \in A : \A i \in 1..3 : k[e][i] \in Int \cup {None}
      BY <1>4, <1>6
    <2> QED
      BY <1>6, <2>1 DEF Keyed
  <1>8. Telling(k, A)
    BY <1>5, <1>6 DEF Telling
  <1>9. B \subseteq shown(A) \/ Cardinality(shown(A)) = NewsShown
    <2>1. NewsShown \in Nat
      BY DEF NewsShown
    <2> HIDE DEF shown
    <2> QED
      BY <1>1, <1>2, <1>7, <1>8, <2>1, PageOfMore
  <1> HIDE DEF shown
  <1>10. shown(B) \subseteq shown(A) \/ Cardinality(shown(A)) = NewsShown
    BY <1>3, <1>9
  <1> QED
    BY <1>10 DEF NewsOf, shown, A, B, New

LEMMA StoriesGrow ==
    ASSUME NEW N, Stories(N), Cardinality(N) <= NarrativeLimit, NEW less \in SUBSET N, NEW base, NEW until
    PROVE  LET all == RelatedNarratives(base, N, until)
               some == RelatedNarratives(base, less, until)
           IN  some \subseteq all \/ Cardinality(all) = NarrativesShown
  <1> DEFINE Since(S) == {n \in S : n.at >= base.ts /\ n.at <= until}
             Order(n) == <<-n.at, -n.nid>>
             k(S) == [n \in S |-> Order(n)]
             Shares(n) == Range(n.actors) \cap NamesOf(base) # {} \/ n.words \cap BaseTerms(base) # {}
             Told(S) == Page(Since(S), Order, NarrativeLimit, 0)
             Sharing(S) == {n \in S : Shares(n)}
             A == Since(N)
             C == Sharing(A)
             D == Sharing(Told(less))
  <1>1. \A S : RelatedNarratives(base, S, until) = Page(Sharing(Told(S)), Order, NarrativesShown, 0)
    BY DEF RelatedNarratives
  <1>2. \A S \in SUBSET N : Keyed(k(S), S) /\ Telling(k(S), S)
    <2> SUFFICES ASSUME NEW S \in SUBSET N PROVE Keyed(k(S), S) /\ Telling(k(S), S)
      OBVIOUS
    <2> DEFINE h == k(S)
    <2>1. \A n \in S : n.at \in Int /\ n.nid \in Int
      BY DEF Stories, IsNarrative
    <2>2. \A n \in S : DOMAIN h[n] = 1..2 /\ h[n][1] = -n.at /\ h[n][2] = -n.nid
      OBVIOUS
    <2>3. \A n, m \in S : n.nid = m.nid => n = m
      BY DEF Stories
    <2> HIDE DEF h
    <2>4. \A n \in S : \A i \in 1..2 : h[n][i] \in Int
      BY <2>1, <2>2
    <2>5. Keyed(h, S)
      BY <2>2, <2>4 DEF Keyed
    <2>6. \A n, m \in S : -n.nid = -m.nid => n = m
      BY <2>1, <2>3
    <2>7. Telling(h, S)
      BY <2>2, <2>6 DEF Telling
    <2> QED
      BY <2>5, <2>7 DEF h
  <1>3. \A S, limit : Page(S, Order, limit, 0) = Paged(k(S), S, limit)
    BY DEF Page, Rank, Paged, Place
  <1>4. A \subseteq N /\ C \subseteq A /\ D \subseteq C
    BY DEF Page
  <1>5. IsFiniteSet(N) /\ IsFiniteSet(A) /\ IsFiniteSet(C) /\ Cardinality(A) <= NarrativeLimit
    <2>1. IsFiniteSet(N)
      BY DEF Stories
    <2> HIDE DEF A, C, D
    <2>2. IsFiniteSet(A) /\ Cardinality(A) <= Cardinality(N) /\ Cardinality(A) \in Nat /\ Cardinality(N) \in Nat
      BY <1>4, <2>1, FS_Subset, FS_CardinalityType
    <2>3. IsFiniteSet(C)
      BY <1>4, <2>2, FS_Subset
    <2> QED
      BY <2>1, <2>2, <2>3 DEF NarrativeLimit
  <1>6. Told(N) = A
    <2>1. Keyed(k(A), A)
      BY <1>2, <1>4
    <2>2. Told(N) = Paged(k(A), A, NarrativeLimit)
      BY <1>3
    <2> HIDE DEF A, k, Told
    <2> QED
      BY <1>5, <2>1, <2>2, WholePage DEF NarrativeLimit
  <1>7. RelatedNarratives(base, N, until) = Paged(k(C), C, NarrativesShown)
    BY <1>1, <1>3, <1>6
  <1>8. RelatedNarratives(base, less, until) \subseteq D
    <2>1. \A S : Page(S, Order, NarrativesShown, 0) \subseteq S
      BY DEF Page
    <2> QED
      BY <1>1, <2>1
  <1>9. Keyed(k(C), C) /\ Telling(k(C), C)
    BY <1>2, <1>4
  <1> HIDE DEF C, D, A, k
  <1>10. D \subseteq Paged(k(C), C, NarrativesShown) \/ Cardinality(Paged(k(C), C, NarrativesShown)) = NarrativesShown
    BY <1>4, <1>5, <1>9, PageOfMore DEF NarrativesShown
  <1> QED
    BY <1>7, <1>8, <1>10

LEMMA SignalsGrow ==
    ASSUME NEW S, Heard(S), Cardinality(S) <= SignalLimit, NEW less \in SUBSET S, NEW ids, NEW fewer \in SUBSET ids,
           NEW from, NEW until
    PROVE  RelatedSignals(fewer, less, from, until) \subseteq RelatedSignals(ids, S, from, until)
  <1> DEFINE F(I, H) == {s \in H : s.event \in I /\ s.ts # None /\ s.ts >= from /\ s.ts <= until}
             A == F(ids, S)
             k == [s \in A |-> <<-s.ts>>]
  <1>1. RelatedSignals(fewer, less, from, until) \subseteq A
    BY DEF RelatedSignals, Page
  <1>2. RelatedSignals(ids, S, from, until) = Paged(k, A, SignalLimit)
    BY DEF RelatedSignals, Page, Rank, Paged, Place
  <1>3. \A s \in A : DOMAIN k[s] = 1..1 /\ k[s][1] \in Int
    BY DEF Heard, IsSignal
  <1>4. IsFiniteSet(S) /\ A \subseteq S
    BY DEF Heard
  <1> HIDE DEF A, k
  <1>5. Keyed(k, A)
    <2>1. \A s \in A : \A i \in 1..1 : k[s][i] \in Int
      BY <1>3
    <2> QED
      BY <1>3, <2>1 DEF Keyed
  <1>6. IsFiniteSet(A) /\ Cardinality(A) <= SignalLimit
    <2>1. IsFiniteSet(A) /\ Cardinality(A) <= Cardinality(S) /\ Cardinality(A) \in Nat /\ Cardinality(S) \in Nat
      BY <1>4, FS_Subset, FS_CardinalityType
    <2> QED
      BY <2>1 DEF SignalLimit
  <1>7. Paged(k, A, SignalLimit) = A
    BY <1>5, <1>6, WholePage DEF SignalLimit
  <1> QED
    BY <1>1, <1>2, <1>7

LEMMA AmplificationGrows ==
    ASSUME NEW P, IsFiniteSet(P), NEW less \in SUBSET P
    PROVE  InfluencerAmplification(P) \in Nat /\ InfluencerAmplification(less) <= InfluencerAmplification(P)
  <1>1. \A e : AmplificationScore(e) \in Int
    BY EngagementAssumption DEF AmplificationScore
  <1>2. \A e : Max({0, AmplificationScore(e)}) \in Nat
    BY <1>1, Extremes
  <1> DEFINE f == [e \in less |-> Max({0, AmplificationScore(e)})]
             h == [e \in P |-> Max({0, AmplificationScore(e)})]
  <1>3. DOMAIN f = less /\ DOMAIN h = P /\ (\A e \in P : h[e] \in Nat) /\ \A e \in less : f[e] \in Nat /\ f[e] <= h[e]
    BY <1>2
  <1>4. InfluencerAmplification(P) = SumOf(h) /\ InfluencerAmplification(less) = SumOf(f)
    BY DEF InfluencerAmplification
  <1> HIDE DEF f, h
  <1> QED
    BY <1>3, <1>4, SumsGrow

LEMMA ViewGrows ==
    ASSUME NEW T, Stores(T), Cardinality(T) <= CandidateLimit,
           NEW N, Stories(N), Cardinality(N) <= NarrativeLimit,
           NEW S, Heard(S), Cardinality(S) <= SignalLimit,
           NEW rows \in SUBSET T, NEW told \in SUBSET N, NEW heard \in SUBSET S, NEW base, NEW until, NEW things
    PROVE  HoldsMore(ViewSince(base, T, N, things, S, until), ViewSince(base, rows, told, things, heard, until))
  <1> DEFINE all == Matches(base, T, until)
             some == Matches(base, rows, until)
             new == ViewSince(base, T, N, things, S, until)
             old == ViewSince(base, rows, told, things, heard, until)
             News(events) == NewsOf(base, events)
             Posts(events) == {e \in events : IsSocial(e)}
             Tracked(events) == {e \in events : IsPhysical(e)}
             Ear(events) == {base.id} \cup {e.id : e \in events}
  <1>1. Stores(rows) /\ Cardinality(rows) <= CandidateLimit
    <2>1. IsFiniteSet(rows) /\ Cardinality(rows) <= Cardinality(T) /\ Cardinality(rows) \in Nat /\ Cardinality(T) \in Nat
      BY FS_Subset, FS_CardinalityType DEF Stores
    <2> QED
      BY <2>1 DEF Stores, CandidateLimit
  <1>2. Related(base, T, until) = all /\ Related(base, rows, until) = some
    BY <1>1, RelatedWhole
  <1>3. some \subseteq all /\ IsFiniteSet(all)
    BY MatchesIn
  <1>4. /\ new.news = News(all) /\ new.posts = Posts(all) /\ new.physical = Tracked(all)
        /\ new.signals = RelatedSignals(Ear(all), S, base.ts, until)
        /\ new.narratives = RelatedNarratives(base, N, until)
        /\ new.amplification = InfluencerAmplification(Posts(all))
    BY <1>2 DEF ViewSince, EventView, NewsOf
  <1>5. /\ old.news = News(some) /\ old.posts = Posts(some) /\ old.physical = Tracked(some)
        /\ old.signals = RelatedSignals(Ear(some), heard, base.ts, until)
        /\ old.narratives = RelatedNarratives(base, told, until)
        /\ old.amplification = InfluencerAmplification(Posts(some))
    BY <1>2 DEF ViewSince, EventView, NewsOf
  <1>6. News(some) \subseteq News(all) \/ Cardinality(News(all)) = NewsShown
    BY NewsGrow
  <1>7. RelatedNarratives(base, told, until) \subseteq RelatedNarratives(base, N, until)
           \/ Cardinality(RelatedNarratives(base, N, until)) = NarrativesShown
    BY StoriesGrow
  <1>8. Posts(some) \subseteq Posts(all) /\ Tracked(some) \subseteq Tracked(all) /\ Ear(some) \subseteq Ear(all)
    BY <1>3
  <1>9. IsFiniteSet(Posts(all))
    BY <1>3, FS_Subset
  <1> HIDE DEF all, some, new, old, News, Posts, Tracked, Ear
  <1>10. RelatedSignals(Ear(some), heard, base.ts, until) \subseteq RelatedSignals(Ear(all), S, base.ts, until)
    BY <1>8, SignalsGrow
  <1>11. InfluencerAmplification(Posts(some)) <= InfluencerAmplification(Posts(all))
    BY <1>8, <1>9, AmplificationGrows
  <1>12. \A part \in {"posts", "physical", "signals"} : old[part] \subseteq new[part]
    BY <1>4, <1>5, <1>8, <1>10
  <1>13. HoldsMore(new, old)
    BY <1>4, <1>5, <1>6, <1>7, <1>11, <1>12 DEF HoldsMore
  <1> QED
    BY <1>13 DEF new, old

LEMMA DossiersDoFill ==
    Stores(table) /\ Stories(narratives) /\ Heard(signals) /\ ReadInFull => DossiersFill
  <1> SUFFICES ASSUME Stores(table), Stories(narratives), Heard(signals), ReadInFull
               PROVE  DossiersFill
    OBVIOUS
  <1>1. ASSUME NEW rows \in SUBSET table, NEW told \in SUBSET narratives, NEW heard \in SUBSET signals
        PROVE  Fuller(rows, told, heard)
    <2> SUFFICES ASSUME NEW r \in rows
                 PROVE  HoldsMore(BuildEventView(r.id, table, narratives, assets, signals, Horizon, Day),
                                  BuildEventView(r.id, rows, told, assets, heard, Horizon, Day))
      BY DEF Fuller
    <2>1. (CHOOSE x \in table : x.id = r.id) = r /\ (CHOOSE x \in rows : x.id = r.id) = r
      BY DEF Stores
    <2> DEFINE row == RowToEvent(r)
               from == FirstOf(<<row.ts, Day>>)
               base == [row EXCEPT !.ts = from]
    <2>2. BuildEventView(r.id, table, narratives, assets, signals, Horizon, Day)
             = ViewSince(base, table, narratives, assets, signals, from + Horizon)
      BY <2>1 DEF BuildEventView
    <2>3. BuildEventView(r.id, rows, told, assets, heard, Horizon, Day)
             = ViewSince(base, rows, told, assets, heard, from + Horizon)
      BY <2>1 DEF BuildEventView
    <2> HIDE DEF base, from
    <2> QED
      BY <2>2, <2>3, ViewGrows DEF ReadInFull
  <1> QED
    BY <1>1 DEF DossiersFill

-----------------------------------------------------------------------------
(* The threat board.                                                         *)

OpenOf(A) == {a \in A : a.at >= Day - Day /\ ~a.resolved}
ToldOf(N) == {n \in N : n.at >= Day - Day}
PastOf(A) == {a \in A : a.at >= Day - 2 * Day /\ a.at < Day - Day}
InZone(k, A) == {a \in OpenOf(A) : ZoneOf(a) = k}
OnTopic(k, N) == {n \in ToldOf(N) : n.topic = k}
ZoneAt(k, A, N) == Zone(k, InZone(k, A), OnTopic(k, N), {a \in PastOf(A) : a.entity = k})
ZoneNames(A, N) == ({ZoneOf(a) : a \in OpenOf(A)} \cup {n.topic : n \in ToldOf(N)}) \ {None}
IsRead(A, N) ==
    Alarms(A) /\ Stories(N) /\ Cardinality(A) <= AlertsRead /\ Cardinality(N) <= NarrativesRead

LEMMA OpenWhole ==
    ASSUME NEW A, Alarms(A), Cardinality(A) <= AlertsRead
    PROVE  Page({a \in A : a.at >= Day - Day /\ ~a.resolved}, LAMBDA a : <<a.at, a.aid>>, AlertsRead, 0) = OpenOf(A)
  <1> DEFINE O == OpenOf(A)
             k == [a \in O |-> <<a.at, a.aid>>]
  <1>1. Page({a \in A : a.at >= Day - Day /\ ~a.resolved}, LAMBDA a : <<a.at, a.aid>>, AlertsRead, 0) = Paged(k, O, AlertsRead)
    BY DEF Page, Rank, Paged, Place, OpenOf
  <1>2. \A a \in O : DOMAIN k[a] = 1..2 /\ k[a][1] = a.at /\ k[a][2] = a.aid /\ a.at \in Int /\ a.aid \in Int
    BY DEF OpenOf, Alarms, IsAlert
  <1>3. IsFiniteSet(A) /\ O \subseteq A
    BY DEF OpenOf, Alarms
  <1>0. O = OpenOf(A)
    OBVIOUS
  <1> HIDE DEF O, k
  <1>4. \A a \in O : \A i \in 1..2 : k[a][i] \in Int
    BY <1>2
  <1>5. Keyed(k, O)
    BY <1>2, <1>4 DEF Keyed
  <1>6. IsFiniteSet(O) /\ Cardinality(O) <= Cardinality(A) /\ Cardinality(O) \in Nat /\ Cardinality(A) \in Nat
    BY <1>3, FS_Subset, FS_CardinalityType
  <1>7. Cardinality(O) <= AlertsRead /\ AlertsRead \in Nat
    BY <1>6 DEF AlertsRead
  <1> QED
    BY <1>0, <1>1, <1>5, <1>6, <1>7, WholePage

LEMMA ToldWhole ==
    ASSUME NEW N, Stories(N), Cardinality(N) <= NarrativesRead
    PROVE  Page({n \in N : n.at >= Day - Day}, LAMBDA n : <<n.at, n.nid>>, NarrativesRead, 0) = ToldOf(N)
  <1> DEFINE O == ToldOf(N)
             k == [n \in O |-> <<n.at, n.nid>>]
  <1>1. Page({n \in N : n.at >= Day - Day}, LAMBDA n : <<n.at, n.nid>>, NarrativesRead, 0) = Paged(k, O, NarrativesRead)
    BY DEF Page, Rank, Paged, Place, ToldOf
  <1>2. \A n \in O : DOMAIN k[n] = 1..2 /\ k[n][1] = n.at /\ k[n][2] = n.nid /\ n.at \in Int /\ n.nid \in Int
    BY DEF ToldOf, Stories, IsNarrative
  <1>3. IsFiniteSet(N) /\ O \subseteq N
    BY DEF ToldOf, Stories
  <1>0. O = ToldOf(N)
    OBVIOUS
  <1> HIDE DEF O, k
  <1>4. \A n \in O : \A i \in 1..2 : k[n][i] \in Int
    BY <1>2
  <1>5. Keyed(k, O)
    BY <1>2, <1>4 DEF Keyed
  <1>6. IsFiniteSet(O) /\ Cardinality(O) <= Cardinality(N) /\ Cardinality(O) \in Nat /\ Cardinality(N) \in Nat
    BY <1>3, FS_Subset, FS_CardinalityType
  <1>7. Cardinality(O) <= NarrativesRead /\ NarrativesRead \in Nat
    BY <1>6 DEF NarrativesRead
  <1> QED
    BY <1>0, <1>1, <1>5, <1>6, <1>7, WholePage

LEMMA ZonesAre ==
    ASSUME NEW A, NEW N, IsRead(A, N)
    PROVE  Zones(A, N, Day, Day) = {ZoneAt(k, A, N) : k \in ZoneNames(A, N)}
  <1>1. /\ Page({a \in A : a.at >= Day - Day /\ ~a.resolved}, LAMBDA a : <<a.at, a.aid>>, AlertsRead, 0) = OpenOf(A)
        /\ Page({n \in N : n.at >= Day - Day}, LAMBDA n : <<n.at, n.nid>>, NarrativesRead, 0) = ToldOf(N)
    BY OpenWhole, ToldWhole DEF IsRead
  <1> QED
    BY <1>1 DEF Zones, ZoneAt, ZoneNames, InZone, OnTopic, PastOf

LEMMA WeightsAre ==
    /\ \A a : IsAlert(a) => AlertWeight(a) \in Nat
    /\ \A n : IsNarrative(n) => NarrativeWeight(n) \in Nat
  <1>1. \A s : SeverityWeight(s) \in {300, 200, 100, 50}
    BY DEF SeverityWeight
  <1>2. ASSUME NEW a, IsAlert(a)
        PROVE  AlertWeight(a) \in Nat
    <2>1. a.z \in Int
      BY <1>2 DEF IsAlert
    <2>2. Max({0, a.z}) \in Nat
      BY <2>1, Extremes
    <2> DEFINE m == Max({0, a.z})
    <2>3. AlertWeight(a) = SeverityWeight(a.severity) + 3 * m
      BY DEF AlertWeight
    <2> HIDE DEF m
    <2> QED
      BY <1>1, <2>2, <2>3 DEF m
  <1>3. ASSUME NEW n, IsNarrative(n)
        PROVE  NarrativeWeight(n) \in Nat
    <2> DEFINE x == IF n.strength = 0 THEN 5 ELSE n.strength
               w == SeverityWeight(n.severity)
    <2>1. x \in Nat
      BY <1>3 DEF IsNarrative
    <2>2. w \in {300, 200, 100, 50}
      BY <1>1
    <2>3. NarrativeWeight(n) = (x * w * 15) \div 100
      BY DEF NarrativeWeight
    <2> HIDE DEF x, w
    <2>4. CASE w = 300
      BY <2>1, <2>3, <2>4
    <2>5. CASE w = 200
      BY <2>1, <2>3, <2>5
    <2>6. CASE w = 100
      BY <2>1, <2>3, <2>6
    <2>7. CASE w = 50
      BY <2>1, <2>3, <2>7
    <2> QED
      BY <2>2, <2>4, <2>5, <2>6, <2>7
  <1> QED
    BY <1>2, <1>3

LEMMA ZoneScores ==
    ASSUME NEW A, NEW N, IsRead(A, N), NEW fewer \in SUBSET A, NEW less \in SUBSET N, NEW k
    PROVE  /\ ZoneAt(k, fewer, less).score \in Nat /\ ZoneAt(k, A, N).score \in Nat
           /\ ZoneAt(k, fewer, less).score <= ZoneAt(k, A, N).score
  <1> DEFINE w(S) == [a \in InZone(k, S) |-> AlertWeight(a)]
             v(S) == [n \in OnTopic(k, S) |-> NarrativeWeight(n)]
  <1>1. \A S, T : ZoneAt(k, S, T).score = SumOf(w(S)) + SumOf(v(T))
    BY DEF ZoneAt, Zone
  <1>2. IsFiniteSet(InZone(k, A)) /\ IsFiniteSet(OnTopic(k, N))
    <2>1. InZone(k, A) \subseteq A /\ OnTopic(k, N) \subseteq N /\ IsFiniteSet(A) /\ IsFiniteSet(N)
      BY DEF InZone, OnTopic, OpenOf, ToldOf, IsRead, Alarms, Stories
    <2> QED
      BY <2>1, FS_Subset
  <1>3. InZone(k, fewer) \subseteq InZone(k, A) /\ OnTopic(k, less) \subseteq OnTopic(k, N)
    BY DEF InZone, OnTopic, OpenOf, ToldOf
  <1>4. (\A a \in InZone(k, A) : AlertWeight(a) \in Nat) /\ \A n \in OnTopic(k, N) : NarrativeWeight(n) \in Nat
    BY WeightsAre DEF InZone, OnTopic, OpenOf, ToldOf, IsRead, Alarms, Stories
  <1>5. SumOf(w(fewer)) \in Nat /\ SumOf(w(A)) \in Nat /\ SumOf(w(fewer)) <= SumOf(w(A))
    <2> DEFINE f == w(fewer)  h == w(A)
    <2>1. DOMAIN h = InZone(k, A) /\ DOMAIN f = InZone(k, fewer) /\ (\A x \in DOMAIN h : h[x] \in Nat)
          /\ \A x \in DOMAIN f : f[x] \in Nat /\ f[x] <= h[x]
      BY <1>3, <1>4
    <2> HIDE DEF f, h
    <2>2. SumOf(f) \in Nat /\ SumOf(h) \in Nat /\ SumOf(f) <= SumOf(h)
      BY <1>2, <1>3, <2>1, SumsGrow
    <2> QED
      BY <2>2 DEF f, h
  <1>6. SumOf(v(less)) \in Nat /\ SumOf(v(N)) \in Nat /\ SumOf(v(less)) <= SumOf(v(N))
    <2> DEFINE f == v(less)  h == v(N)
    <2>1. DOMAIN h = OnTopic(k, N) /\ DOMAIN f = OnTopic(k, less) /\ (\A x \in DOMAIN h : h[x] \in Nat)
          /\ \A x \in DOMAIN f : f[x] \in Nat /\ f[x] <= h[x]
      BY <1>3, <1>4
    <2> HIDE DEF f, h
    <2>2. SumOf(f) \in Nat /\ SumOf(h) \in Nat /\ SumOf(f) <= SumOf(h)
      BY <1>2, <1>3, <2>1, SumsGrow
    <2> QED
      BY <2>2 DEF f, h
  <1> HIDE DEF w, v
  <1> QED
    BY <1>1, <1>5, <1>6

LEMMA NamesFinite ==
    ASSUME NEW A, NEW N, IsRead(A, N)
    PROVE  /\ IsFiniteSet(ZoneNames(A, N)) /\ Cardinality(ZoneNames(A, N)) <= Cardinality(A) + Cardinality(N)
           /\ Cardinality(ZoneNames(A, N)) \in Nat
  <1> DEFINE f == [a \in OpenOf(A) |-> ZoneOf(a)]
             g == [n \in ToldOf(N) |-> n.topic]
             F == {f[a] : a \in OpenOf(A)}
             G == {g[n] : n \in ToldOf(N)}
  <1>1. /\ OpenOf(A) \subseteq A /\ ToldOf(N) \subseteq N /\ IsFiniteSet(A) /\ IsFiniteSet(N)
    BY DEF OpenOf, ToldOf, IsRead, Alarms, Stories
  <1>2. /\ IsFiniteSet(OpenOf(A)) /\ Cardinality(OpenOf(A)) <= Cardinality(A) /\ IsFiniteSet(ToldOf(N))
        /\ Cardinality(ToldOf(N)) <= Cardinality(N) /\ Cardinality(OpenOf(A)) \in Nat /\ Cardinality(ToldOf(N)) \in Nat
        /\ Cardinality(A) \in Nat /\ Cardinality(N) \in Nat
    BY <1>1, FS_Subset, FS_CardinalityType
  <1>3. ZoneNames(A, N) \subseteq F \cup G /\ DOMAIN f = OpenOf(A) /\ DOMAIN g = ToldOf(N)
    BY DEF ZoneNames
  <1> HIDE DEF f, g
  <1>4. IsFiniteSet(F) /\ Cardinality(F) <= Cardinality(OpenOf(A)) /\ IsFiniteSet(G) /\ Cardinality(G) <= Cardinality(ToldOf(N))
    BY <1>2, <1>3, ImageFinite
  <1> HIDE DEF F, G
  <1>5. /\ IsFiniteSet(F \cup G) /\ Cardinality(F \cup G) = Cardinality(F) + Cardinality(G) - Cardinality(F \cap G)
        /\ Cardinality(F) \in Nat /\ Cardinality(G) \in Nat /\ Cardinality(F \cap G) \in Nat /\ Cardinality(F \cup G) \in Nat
    <2>1. IsFiniteSet(F \cup G) /\ IsFiniteSet(F \cap G)
      BY <1>4, FS_Union, FS_Intersection
    <2>2. Cardinality(F \cup G) = Cardinality(F) + Cardinality(G) - Cardinality(F \cap G)
      BY <1>4, FS_Union
    <2> QED
      BY <1>4, <2>1, <2>2, FS_CardinalityType
  <1>6. /\ IsFiniteSet(ZoneNames(A, N)) /\ Cardinality(ZoneNames(A, N)) <= Cardinality(F \cup G)
        /\ Cardinality(ZoneNames(A, N)) \in Nat
    BY <1>3, <1>5, FS_Subset, FS_CardinalityType
  <1> QED
    BY <1>2, <1>4, <1>5, <1>6

-----------------------------------------------------------------------------
(* The levels of the board.                                                  *)

Above(Z, z) == {x \in Z : x.score > z.score}
Mighty(Z, t) == {z \in Z : z.score >= t}
TopOf(Z) == Page(Z, LAMBDA z : <<z.score>>, 30, 0)
AreZones(Z) == IsFiniteSet(Z) /\ \A z \in Z : z.score \in Nat /\ z.level = ZoneLevel(z.score)

LEMMA BeforeOne ==
    ASSUME NEW a \in Int, NEW b \in Int
    PROVE  Before(<<a>>, <<b>>) <=> a > b
  <1> DEFINE s == <<a>>
             t == <<b>>
  <1>1. DOMAIN s = {1} /\ s[1] = a /\ t[1] = b
    OBVIOUS
  <1>2. a # None /\ b # None
    BY NoneAssumption
  <1> HIDE DEF s, t
  <1>3. Before(s, t) <=> a > b
    BY <1>1, <1>2 DEF Before, Later
  <1> QED
    BY <1>3 DEF s, t

LEMMA ScoredOrder ==
    ASSUME NEW Z, AreZones(Z)
    PROVE  TopOf(Z) = {z \in Z : Cardinality(Above(Z, z)) < 30}
  <1> DEFINE k == [z \in Z |-> <<z.score>>]
  <1>1. TopOf(Z) = Paged(k, Z, 30)
    BY DEF TopOf, Page, Rank, Paged, Place
  <1>2. \A z \in Z : z.score \in Int /\ k[z] = <<z.score>>
    BY DEF AreZones
  <1> HIDE DEF k
  <1>3. \A x, z \in Z : Before(k[x], k[z]) <=> x.score > z.score
    BY <1>2, BeforeOne
  <1>4. \A z \in Z : Place(k, Z, z) = Cardinality(Above(Z, z))
    <2>1. \A z \in Z : {x \in Z : Before(k[x], k[z])} = Above(Z, z)
      BY <1>3 DEF Above
    <2> QED
      BY <2>1 DEF Place
  <1>5. \A z \in Z : Cardinality(Above(Z, z)) \in Nat
    BY FS_Subset, FS_CardinalityType DEF Above, AreZones
  <1> QED
    BY <1>1, <1>4, <1>5 DEF Paged

LEMMA LevelsAre ==
    ASSUME NEW s \in Nat
    PROVE  /\ ZoneLevel(s) = "critical" <=> s >= 1500
           /\ ZoneLevel(s) = "high" <=> s >= 800 /\ ~(s >= 1500)
           /\ ZoneLevel(s) = "medium" <=> s >= 300 /\ ~(s >= 800)
           /\ ZoneLevel(s) \in {"critical", "high", "medium", "low", "monitoring"}
  BY DEF ZoneLevel

\* As many of the mightiest are shown as there is room for.
LEMMA MightyShown ==
    ASSUME NEW Z, AreZones(Z), NEW t \in Nat, NEW m \in Nat, m <= 30, m <= Cardinality(Mighty(Z, t))
    PROVE  m <= Cardinality(Mighty(TopOf(Z), t))
  <1> DEFINE C == Mighty(Z, t)
             P == TopOf(Z)
             n(z) == Cardinality(Above(Z, z))
  <1>1. IsFiniteSet(Z) /\ C \subseteq Z /\ P \subseteq Z /\ Mighty(P, t) = C \cap P
    BY DEF Mighty, TopOf, Page, AreZones
  <1>2. IsFiniteSet(Mighty(P, t)) /\ Cardinality(Mighty(P, t)) \in Nat
    <2>1. Mighty(P, t) \subseteq Z
      BY <1>1
    <2> QED
      BY <1>1, <2>1, FS_Subset, FS_CardinalityType
  <1>3. \A z \in Z : IsFiniteSet(Above(Z, z)) /\ n(z) \in Nat
    BY <1>1, FS_Subset, FS_CardinalityType DEF Above
  <1>4. CASE C \subseteq P
    <2>1. Mighty(P, t) = C
      BY <1>1, <1>4
    <2> QED
      BY <2>1
  <1>5. ASSUME ~(C \subseteq P)
        PROVE  m <= Cardinality(Mighty(P, t))
    <2> DEFINE N == {n(z) : z \in C \ P}
    <2>1. N \in SUBSET Nat /\ N # {}
      <3>1. C \ P # {} /\ C \ P \subseteq Z
        BY <1>1, <1>5
      <3> HIDE DEF C, P
      <3> QED
        BY <1>3, <3>1
    <2>2. PICK c \in C \ P : \A z \in C \ P : n(c) <= n(z)
      <3>1. PICK x \in N : \A y \in N : x <= y
        <4> HIDE DEF N
        <4> QED
          BY <2>1, Least
      <3>2. PICK c \in C \ P : x = n(c)
        BY <3>1
      <3> QED
        BY <3>1, <3>2
    <2>3. n(c) >= 30
      <3>1. P = {z \in Z : n(z) < 30}
        BY ScoredOrder
      <3> HIDE DEF P
      <3> QED
        BY <1>1, <1>3, <2>2, <3>1
    <2>4. ASSUME NEW x \in Above(Z, c)
          PROVE  x \in C /\ x \in P
      <3>1. x \in Z /\ c \in Z /\ x.score > c.score /\ c.score >= t /\ c.score \in Nat /\ x.score \in Nat
        BY <1>1, <2>2, <2>4 DEF Above, Mighty, AreZones
      <3>2. x \in C
        BY <3>1 DEF Mighty
      <3>3. ASSUME x \notin P PROVE FALSE
        <4>1. n(c) <= n(x)
          BY <2>2, <3>2, <3>3
        <4>2. Above(Z, x) \subseteq Above(Z, c) \ {x}
          BY <3>1 DEF Above, AreZones
        <4>3. Cardinality(Above(Z, c) \ {x}) = n(c) - 1 /\ IsFiniteSet(Above(Z, c) \ {x})
          BY <1>3, <2>4, <3>1, FS_RemoveElement
        <4>4. n(x) <= n(c) - 1
          BY <4>2, <4>3, FS_Subset
        <4> HIDE DEF n
        <4> QED
          BY <1>3, <3>1, <4>1, <4>4
      <3> QED
        BY <3>2, <3>3
    <2>5. Above(Z, c) \subseteq Mighty(P, t)
      BY <1>1, <2>4
    <2>6. n(c) <= Cardinality(Mighty(P, t))
      BY <1>2, <2>5, FS_Subset
    <2>7. n(c) \in Nat
      BY <1>1, <1>3, <2>2
    <2> HIDE DEF n, P
    <2> QED
      BY <1>2, <2>3, <2>6, <2>7
  <1> QED
    BY <1>4, <1>5

\* The overall level follows from how many zones are how mighty.
LEMMA OverallIs ==
    ASSUME NEW Z, AreZones(Z)
    PROVE  LET c == Cardinality(Mighty(Z, 1500))
               h == Cardinality(Mighty(Z, 800))
               m == Cardinality(Mighty(Z, 300))
           IN  /\ c \in Nat /\ h \in Nat /\ m \in Nat
               /\ OverallLevel(Z) = IF Z = {} THEN "monitoring"
                                    ELSE IF c >= 1 THEN "critical"
                                    ELSE IF h >= 2 THEN "high"
                                    ELSE IF h >= 1 \/ m >= 3 THEN "elevated" ELSE "normal"
  <1> DEFINE At(level) == {z \in Z : z.level = level}
             c == Cardinality(Mighty(Z, 1500))
             h == Cardinality(Mighty(Z, 800))
             m == Cardinality(Mighty(Z, 300))
             p == Cardinality(At("critical"))
             q == Cardinality(At("high"))
             r == Cardinality(At("medium"))
  <1>1. IsFiniteSet(Z) /\ \A z \in Z : z.score \in Nat /\ z.level = ZoneLevel(z.score)
    BY DEF AreZones
  <1>2. At("critical") = Mighty(Z, 1500)
    BY <1>1, LevelsAre DEF Mighty
  <1>3. At("high") = Mighty(Z, 800) \ Mighty(Z, 1500)
    BY <1>1, LevelsAre DEF Mighty
  <1>4. At("medium") = Mighty(Z, 300) \ Mighty(Z, 800)
    BY <1>1, LevelsAre DEF Mighty
  <1>5. Mighty(Z, 1500) \subseteq Mighty(Z, 800) /\ Mighty(Z, 800) \subseteq Mighty(Z, 300)
    BY <1>1 DEF Mighty
  <1>6. IsFiniteSet(Mighty(Z, 1500)) /\ IsFiniteSet(Mighty(Z, 800)) /\ IsFiniteSet(Mighty(Z, 300))
    BY <1>1, FS_Subset DEF Mighty
  <1>7. c \in Nat /\ h \in Nat /\ m \in Nat
    BY <1>6, FS_CardinalityType
  <1>8. p = c /\ q = h - c /\ r = m - h
    <2>1. \A S, T : IsFiniteSet(T) /\ S \subseteq T => Cardinality(T \ S) = Cardinality(T) - Cardinality(S)
      <3> SUFFICES ASSUME NEW S, NEW T, IsFiniteSet(T), S \subseteq T PROVE Cardinality(T \ S) = Cardinality(T) - Cardinality(S)
        OBVIOUS
      <3>1. T \cap S = S
        OBVIOUS
      <3>2. Cardinality(T \ S) = Cardinality(T) - Cardinality(T \cap S)
        BY FS_Difference
      <3> QED
        BY <3>1, <3>2
    <2> HIDE DEF At
    <2> QED
      BY <1>2, <1>3, <1>4, <1>5, <1>6, <2>1
  <1>9. OverallLevel(Z) = CASE Z = {} -> "monitoring"
          [] p >= 1 -> "critical"
          [] p = 0 /\ q >= 2 -> "high"
          [] p = 0 /\ (q = 1 \/ (q = 0 /\ r >= 3)) -> "elevated"
          [] OTHER -> "normal"
    BY DEF OverallLevel
  <1>10. c <= h /\ h <= m
    BY <1>5, <1>6, FS_Subset
  <1>11. Z = {} => c = 0
    <2>1. Z = {} => Mighty(Z, 1500) = {}
      BY DEF Mighty
    <2> QED
      BY <2>1, FS_EmptySet
  <1> HIDE DEF p, q, r, c, h, m
  <1>12. OverallLevel(Z) = IF Z = {} THEN "monitoring" ELSE IF c >= 1 THEN "critical" ELSE IF h >= 2 THEN "high"
                           ELSE IF h >= 1 \/ m >= 3 THEN "elevated" ELSE "normal"
    <2>1. CASE Z = {}
      <3>1. ~(p >= 1) /\ p = 0 /\ q = h
        BY <1>7, <1>8, <1>11, <2>1
      <3>2. h = 0
        <4>1. Mighty(Z, 800) = {} /\ Mighty(Z, 300) = {}
          BY <2>1 DEF Mighty
        <4> QED
          BY <4>1, FS_EmptySet DEF h
      <3>3. m = 0 /\ r = 0
        <4>1. Mighty(Z, 300) = {}
          BY <2>1 DEF Mighty
        <4> QED
          BY <1>7, <1>8, <3>2, <4>1, FS_EmptySet DEF m
      <3> QED
        BY <1>9, <2>1, <3>1, <3>2, <3>3
    <2>2. CASE Z # {}
      BY <1>7, <1>8, <1>9, <1>10, <2>2
    <2> QED
      BY <2>1, <2>2
  <1> QED
    BY <1>7, <1>12 DEF c, h, m

LEMMA HeightsAre ==
    /\ Height("monitoring") = 1 /\ Height("normal") = 2 /\ Height("elevated") = 3
    /\ Height("high") = 4 /\ Height("critical") = 5
  <1>1. /\ DOMAIN Levels = 1..5
        /\ Levels[1] = "monitoring" /\ Levels[2] = "normal" /\ Levels[3] = "elevated" /\ Levels[4] = "high"
        /\ Levels[5] = "critical"
    BY DEF Levels
  <1>2. \A n \in 1..5 : n = 1 \/ n = 2 \/ n = 3 \/ n = 4 \/ n = 5
    OBVIOUS
  <1> QED
    BY <1>1, <1>2 DEF Height

LEMMA HeightGrows ==
    ASSUME NEW P, AreZones(P), NEW Q, AreZones(Q), Q # {} => P # {},
           \A t, m \in Nat : m <= 30 /\ m <= Cardinality(Mighty(Q, t)) => m <= Cardinality(Mighty(P, t))
    PROVE  Height(OverallLevel(Q)) <= Height(OverallLevel(P))
  <1> DEFINE c(Z) == Cardinality(Mighty(Z, 1500))
             h(Z) == Cardinality(Mighty(Z, 800))
             m(Z) == Cardinality(Mighty(Z, 300))
             Level_(Z) == IF Z = {} THEN "monitoring" ELSE IF c(Z) >= 1 THEN "critical" ELSE IF h(Z) >= 2 THEN "high"
                          ELSE IF h(Z) >= 1 \/ m(Z) >= 3 THEN "elevated" ELSE "normal"
  <1>1. OverallLevel(P) = Level_(P) /\ OverallLevel(Q) = Level_(Q)
    BY OverallIs
  <1>2. /\ c(P) \in Nat /\ h(P) \in Nat /\ m(P) \in Nat
        /\ c(Q) \in Nat /\ h(Q) \in Nat /\ m(Q) \in Nat
    BY OverallIs
  <1>3. /\ 1 <= c(Q) => 1 <= c(P)
        /\ 2 <= h(Q) => 2 <= h(P)
        /\ 1 <= h(Q) => 1 <= h(P)
        /\ 3 <= m(Q) => 3 <= m(P)
    OBVIOUS
  <1> HIDE DEF c, h, m
  <1> QED
    BY <1>1, <1>2, <1>3, HeightsAre

ZonesOf(A, N) == Zones(A, N, Day, Day)

LEMMA BoardZones ==
    ASSUME NEW A, NEW N, IsRead(A, N)
    PROVE  /\ AreZones(ZonesOf(A, N)) /\ AreZones(TopOf(ZonesOf(A, N)))
           /\ TopOf(ZonesOf(A, N)) \subseteq ZonesOf(A, N)
           /\ Level(A, N) = Height(OverallLevel(TopOf(ZonesOf(A, N))))
           /\ Cardinality(ZonesOf(A, N)) <= Cardinality(ZoneNames(A, N)) /\ Cardinality(ZonesOf(A, N)) \in Nat
  <1> DEFINE f == [k \in ZoneNames(A, N) |-> ZoneAt(k, A, N)]
             Z == ZonesOf(A, N)
  <1>1. Z = {f[k] : k \in ZoneNames(A, N)} /\ DOMAIN f = ZoneNames(A, N)
    BY ZonesAre DEF ZonesOf
  <1>2. \A k : ZoneAt(k, A, N).score \in Nat
    BY ZoneScores
  <1>3. \A k : ZoneAt(k, A, N).level = ZoneLevel(ZoneAt(k, A, N).score)
    BY DEF ZoneAt, Zone
  <1>4. \A z \in Z : z.score \in Nat /\ z.level = ZoneLevel(z.score)
    BY <1>1, <1>2, <1>3
  <1> HIDE DEF f
  <1>5. IsFiniteSet(Z) /\ Cardinality(Z) <= Cardinality(ZoneNames(A, N)) /\ Cardinality(Z) \in Nat
    <2> HIDE DEF Z
    <2> QED
      BY <1>1, NamesFinite, ImageFinite
  <1>6. TopOf(Z) \subseteq Z
    BY DEF TopOf, Page
  <1>7. AreZones(Z)
    BY <1>4, <1>5 DEF AreZones
  <1>8. AreZones(TopOf(Z))
    BY <1>6, <1>7, FS_Subset DEF AreZones
  <1>9. Level(A, N) = Height(OverallLevel(TopOf(Z)))
    BY DEF Level, ThreatboardOf, Board, TopOf, ZonesOf
  <1> QED
    BY <1>5, <1>6, <1>7, <1>8, <1>9

LEMMA MightyGrow ==
    ASSUME NEW A, NEW N, IsRead(A, N), NEW fewer \in SUBSET A, NEW less \in SUBSET N, IsRead(fewer, less), NEW t \in Nat
    PROVE  Cardinality(Mighty(ZonesOf(fewer, less), t)) <= Cardinality(Mighty(ZonesOf(A, N), t))
  <1> DEFINE Q == Mighty(ZonesOf(fewer, less), t)
             P == Mighty(ZonesOf(A, N), t)
             f == [z \in Q |-> ZoneAt(z.name, A, N)]
  <1>1. \A k : ZoneAt(k, A, N).name = k /\ ZoneAt(k, fewer, less).name = k
    BY DEF ZoneAt, Zone
  <1>2. \A k : /\ ZoneAt(k, fewer, less).score \in Nat /\ ZoneAt(k, A, N).score \in Nat
               /\ ZoneAt(k, fewer, less).score <= ZoneAt(k, A, N).score
    BY ZoneScores
  <1>3. ZoneNames(fewer, less) \subseteq ZoneNames(A, N)
    BY DEF ZoneNames, OpenOf, ToldOf
  <1>4. /\ ZonesOf(A, N) = {ZoneAt(k, A, N) : k \in ZoneNames(A, N)}
        /\ ZonesOf(fewer, less) = {ZoneAt(k, fewer, less) : k \in ZoneNames(fewer, less)}
    BY ZonesAre DEF ZonesOf
  <1>5. ASSUME NEW z \in Q
        PROVE  f[z] \in P /\ f[z].name = z.name /\ z = ZoneAt(z.name, fewer, less)
    <2>1. PICK k \in ZoneNames(fewer, less) : z = ZoneAt(k, fewer, less) /\ z.score >= t
      BY <1>4 DEF Mighty
    <2>2. f[z] = ZoneAt(k, A, N) /\ z.name = k
      BY <1>1, <2>1
    <2> HIDE DEF f
    <2>3. ZoneAt(k, A, N) \in ZonesOf(A, N) /\ ZoneAt(k, A, N).score >= t
      BY <1>2, <1>3, <1>4, <2>1
    <2> QED
      BY <1>1, <2>1, <2>2, <2>3 DEF Mighty
  <1>6. f \in Injection(Q, P)
    <2>1. \A y, z \in Q : f[y] = f[z] => y = z
      BY <1>5
    <2>2. f \in [Q -> P]
      BY <1>5
    <2> HIDE DEF f, Q, P
    <2> QED
      BY <2>1, <2>2 DEF Injection, IsInjective
  <1>7. IsFiniteSet(P)
    BY BoardZones, FS_Subset DEF Mighty, AreZones
  <1> HIDE DEF f, P, Q
  <1>8. Cardinality(Q) <= Cardinality(P)
    BY <1>6, <1>7, FS_Injection
  <1> QED
    BY <1>8 DEF P, Q

LEMMA LevelGrows ==
    ASSUME NEW A, NEW N, IsRead(A, N), NEW fewer \in SUBSET A, NEW less \in SUBSET N
    PROVE  Level(fewer, less) <= Level(A, N)
  <1> DEFINE Z == ZonesOf(A, N)
             Y == ZonesOf(fewer, less)
             P == TopOf(Z)
             Q == TopOf(Y)
  <1>0. IsRead(fewer, less)
    <2>1. /\ IsFiniteSet(fewer) /\ Cardinality(fewer) <= Cardinality(A) /\ Cardinality(fewer) \in Nat /\ Cardinality(A) \in Nat
          /\ IsFiniteSet(less) /\ Cardinality(less) <= Cardinality(N) /\ Cardinality(less) \in Nat /\ Cardinality(N) \in Nat
      BY FS_Subset, FS_CardinalityType DEF IsRead, Alarms, Stories
    <2> QED
      BY <2>1 DEF IsRead, Alarms, Stories, AlertsRead, NarrativesRead
  <1>1. /\ AreZones(Z) /\ AreZones(P) /\ Level(A, N) = Height(OverallLevel(P))
        /\ AreZones(Y) /\ AreZones(Q) /\ Level(fewer, less) = Height(OverallLevel(Q)) /\ Q \subseteq Y
    BY <1>0, BoardZones
  <1>2. ASSUME NEW t \in Nat
        PROVE  /\ Cardinality(Mighty(Q, t)) <= Cardinality(Mighty(Z, t))
               /\ Cardinality(Mighty(Q, t)) \in Nat /\ Cardinality(Mighty(Z, t)) \in Nat
    <2>1. Cardinality(Mighty(Y, t)) <= Cardinality(Mighty(Z, t))
      BY <1>0, MightyGrow
    <2>2. Mighty(Q, t) \subseteq Mighty(Y, t) /\ Mighty(Y, t) \subseteq Y /\ Mighty(Z, t) \subseteq Z
      BY <1>1 DEF Mighty
    <2>3. IsFiniteSet(Mighty(Y, t)) /\ IsFiniteSet(Mighty(Z, t))
      BY <1>1, <2>2, FS_Subset DEF AreZones
    <2> HIDE DEF Y, Z, Q
    <2>4. /\ Cardinality(Mighty(Q, t)) <= Cardinality(Mighty(Y, t)) /\ IsFiniteSet(Mighty(Q, t))
      BY <2>2, <2>3, FS_Subset
    <2>5. /\ Cardinality(Mighty(Q, t)) \in Nat /\ Cardinality(Mighty(Z, t)) \in Nat /\ Cardinality(Mighty(Y, t)) \in Nat
      BY <2>3, <2>4, FS_CardinalityType
    <2> QED
      BY <2>1, <2>4, <2>5
  <1>3. ASSUME NEW t \in Nat, NEW m \in Nat, m <= 30, m <= Cardinality(Mighty(Q, t))
        PROVE  m <= Cardinality(Mighty(P, t))
    <2>1. m <= Cardinality(Mighty(Z, t))
      BY <1>2, <1>3
    <2> HIDE DEF Z
    <2> QED
      BY <1>1, <1>3, <2>1, MightyShown
  <1>4. Q # {} => P # {}
    <2> SUFFICES ASSUME Q # {} PROVE P # {}
      OBVIOUS
    <2>1. Mighty(Q, 0) = Q
      BY <1>1 DEF Mighty, AreZones
    <2>2. IsFiniteSet(Q) /\ Cardinality(Q) # 0 /\ Cardinality(Q) \in Nat
      BY <1>1, FS_EmptySet, FS_CardinalityType DEF AreZones
    <2>3. 1 <= Cardinality(Mighty(Q, 0))
      BY <2>1, <2>2
    <2>4. 1 <= Cardinality(Mighty(P, 0))
      BY <1>3, <2>3
    <2>5. ASSUME P = {} PROVE FALSE
      <3>1. Mighty(P, 0) = {}
        BY <2>5 DEF Mighty
      <3>2. Cardinality(Mighty(P, 0)) = 0
        BY <3>1, FS_EmptySet
      <3> QED
        BY <2>4, <3>2
    <2> QED
      BY <2>5
  <1> HIDE DEF P, Q
  <1> QED
    BY <1>1, <1>3, <1>4, HeightGrows

LEMMA AlarmDoesRise ==
    ASSUME Alarms(alerts), Stories(narratives), Cardinality(alerts) <= AlertsRead, Cardinality(narratives) <= NarrativesRead
    PROVE  AlarmRises
  <1>1. IsRead(alerts, narratives)
    BY DEF IsRead
  <1> QED
    BY <1>1, LevelGrows DEF AlarmRises

\* No event, dossier or level of the board sinks by what comes in besides
\* (list_feed_events and the functions that score for it in api/routers/events.py,
\* build_event_view of event_intelligence.py, get_threatboard of threatboard.py).
THEOREM EvidenceSinksNothing == Spec => []EvidenceNeverSinks
  <1>1. ReaderInv => EvidenceNeverSinks
    BY ScoresDoRise, DossiersDoFill, AlarmDoesRise DEF ReaderInv, EvidenceNeverSinks
  <1> QED
    BY <1>1, InitReader, ReaderStep, PTL DEF Spec

-----------------------------------------------------------------------------
(* The feed adds up.                                                         *)

LEMMA PartsCounted ==
    ASSUME NEW S, IsFiniteSet(S), NEW name, NEW count,
           \A r \in DOMAIN count : count[r] = Cardinality({x \in S : name[x] = r})
    PROVE  \A r \in DOMAIN count : count[r] \in Nat
  <1>1. \A r : IsFiniteSet({x \in S : name[x] = r})
    BY FS_Subset
  <1> QED
    BY <1>1, FS_CardinalityType

\* Records of the keys k, one of each, that count the elements of S with the key.
LEMMA CountedByKey ==
    ASSUME NEW S, IsFiniteSet(S), NEW K, NEW key, NEW record, NEW count, DOMAIN record = K,
           \A x \in S : key[x] \in K,
           \A k, l \in K : record[k] = record[l] => k = l,
           \A k \in K : \E x \in S : key[x] = k,
           \A k \in K : count[record[k]] = Cardinality({x \in S : key[x] = k}),
           DOMAIN count = {record[k] : k \in K}
    PROVE  SumOf(count) = Cardinality(S) /\ IsFiniteSet(DOMAIN count) /\ \A r \in DOMAIN count : count[r] \in Nat
  <1> DEFINE name == [x \in S |-> record[key[x]]]
             named == [x \in S |-> key[x]]
             seen == {named[x] : x \in S}
  <1>1. IsFiniteSet(K)
    <2>1. IsFiniteSet(seen)
      <3>1. DOMAIN named = S
        OBVIOUS
      <3> HIDE DEF named
      <3> QED
        BY <3>1, ImageFinite
    <2>2. K \subseteq seen
      OBVIOUS
    <2> HIDE DEF seen
    <2> QED
      BY <2>1, <2>2, FS_Subset
  <1>2. IsFiniteSet(DOMAIN count)
    BY <1>1, ImageFinite
  <1>3. \A x \in S : name[x] \in DOMAIN count
    OBVIOUS
  <1>4. \A r \in DOMAIN count : count[r] = Cardinality({x \in S : name[x] = r})
    <2> SUFFICES ASSUME NEW k \in K PROVE count[record[k]] = Cardinality({x \in S : name[x] = record[k]})
      OBVIOUS
    <2>1. {x \in S : name[x] = record[k]} = {x \in S : key[x] = k}
      OBVIOUS
    <2> QED
      BY <2>1
  <1> HIDE DEF name, named, seen
  <1>5. \A r \in DOMAIN count : count[r] \in Nat
    BY <1>4, PartsCounted
  <1>6. SumOf(count) = Cardinality(S)
    BY <1>2, <1>3, <1>4, PartitionAll
  <1> QED
    BY <1>2, <1>5, <1>6

\* A count of every key of a set.
LEMMA CountedEach ==
    ASSUME NEW S, IsFiniteSet(S), NEW key, NEW count, DOMAIN count = {key[x] : x \in S}, DOMAIN key = S,
           \A k \in DOMAIN count : count[k] = Cardinality({x \in S : key[x] = k})
    PROVE  SumOf(count) = Cardinality(S) /\ IsFiniteSet(DOMAIN count) /\ \A k \in DOMAIN count : count[k] \in Nat
  <1>1. IsFiniteSet(DOMAIN count)
    BY ImageFinite
  <1>2. \A x \in S : key[x] \in DOMAIN count
    OBVIOUS
  <1>3. SumOf(count) = Cardinality(S)
    BY <1>1, <1>2, PartitionAll
  <1>4. \A r : IsFiniteSet({x \in S : key[x] = r})
    BY FS_Subset
  <1> QED
    BY <1>1, <1>3, <1>4, FS_CardinalityType

LEMMA AllSelected == ASSUME NEW rows PROVE Selected(rows, NoFilter) = rows
  BY DEF Selected, NoFilter, Within, TextMatch

LEMMA RowsRead ==
    ASSUME NEW rows, IsFiniteSet(rows), NEW less \in SUBSET rows
    PROVE  IsFiniteSet({RowToEvent(r) : r \in less})
  <1> DEFINE f == [r \in less |-> RowToEvent(r)]
  <1>1. {RowToEvent(r) : r \in less} = {f[r] : r \in less} /\ DOMAIN f = less
    OBVIOUS
  <1>2. IsFiniteSet(less)
    BY FS_Subset
  <1> HIDE DEF f
  <1>3. IsFiniteSet({f[r] : r \in less})
    BY <1>1, <1>2, ImageFinite
  <1> QED
    BY <1>1, <1>3

\* The page of the feed is finite.
LEMMA FeedFinite ==
    ASSUME NEW rows, IsFiniteSet(rows), NEW S, NEW request
    PROVE  IsFiniteSet(FeedPage(rows, S, request, Day).events)
  <1> DEFINE limit == IF Candidates(request) THEN Max({8 * request.limit, 200}) ELSE request.limit
             offset == IF Candidates(request) THEN 0 ELSE request.offset
             read == FeedRows(rows, request.f, request.sort, request.tracking, limit, offset)
             some == {x \in read : Feedworthy(x, request.tracking)}
             f == [r \in some |-> FeedItem(r, Linked(r.id, rows, S), Day)]
             page == FeedPage(rows, S, request, Day).events
  <1>1. \E less \in SUBSET rows : read = {RowToEvent(r) : r \in less}
    BY DEF FeedRows, Page, Selected
  <1>2. IsFiniteSet(read)
    <2> HIDE DEF read
    <2> QED
      BY <1>1, RowsRead
  <1>3. IsFiniteSet(some)
    BY <1>2, FS_Subset
  <1>4. page \subseteq {f[r] : r \in some}
    <2>1. page = FeedOf(read, rows, S, request, Day).events
      BY DEF FeedPage
    <2>2. FeedOf(read, rows, S, request, Day).events \subseteq {f[r] : r \in some}
      BY DEF FeedOf, Grouped, Page
    <2> QED
      BY <2>1, <2>2
  <1>5. DOMAIN f = some
    OBVIOUS
  <1> HIDE DEF f, some, page
  <1>6. IsFiniteSet({f[r] : r \in some})
    BY <1>3, <1>5, ImageFinite
  <1>7. IsFiniteSet(page)
    BY <1>4, <1>6, FS_Subset
  <1> QED
    BY <1>7 DEF page

LEMMA GroupsDoAddUp ==
    ASSUME NEW items, IsFiniteSet(items)
    PROVE  SumOf([g \in BuildFeedGroups(items) |-> Cardinality(g.events)]) = Cardinality(items)
  <1> DEFINE inside(k) == {i \in items : CaseOf(i) = k}
             key == [i \in items |-> CaseOf(i)]
             K == {CaseOf(i) : i \in items}
             record == [k \in K |-> Group(k, inside(k), Cardinality(Families(inside(k))))]
             count == [g \in BuildFeedGroups(items) |-> Cardinality(g.events)]
  <1>1. DOMAIN count = {record[k] : k \in K}
    BY DEF BuildFeedGroups
  <1>2. \A k \in K : record[k].key = k /\ record[k].events = {x \in items : key[x] = k}
    BY DEF Group
  <1>3. \A k \in K : count[record[k]] = Cardinality({x \in items : key[x] = k})
    BY <1>1, <1>2
  <1>4. \A k, l \in K : record[k] = record[l] => k = l
    BY <1>2
  <1>5. (\A x \in items : key[x] \in K) /\ (\A k \in K : \E x \in items : key[x] = k) /\ DOMAIN record = K
    OBVIOUS
  <1> HIDE DEF record, count, key, K
  <1>6. SumOf(count) = Cardinality(items)
    BY <1>1, <1>3, <1>4, <1>5, CountedByKey
  <1> QED
    BY <1>6 DEF count

LEMMA NoCases ==
    ASSUME NEW rows, NEW request, NEW onPage
    PROVE  CaseGroups(rows, {}, request, onPage, Day) = {}
  <1>1. \A n : Strongest({}, n) = {}
    BY DEF Strongest, Page
  <1> QED
    BY <1>1 DEF CaseGroups

LEMMA PlainGroups ==
    ASSUME NEW rows, IsFiniteSet(rows)
    PROVE  GroupsAddUp(FeedPage(rows, {}, Asked, Day))
  <1> DEFINE plain == FeedPage(rows, {}, Asked, Day)
  <1>1. \E events : plain = Grouped(Asked, events, {})
    BY NoCases DEF FeedPage, FeedOf
  <1>2. plain.groups = BuildFeedGroups(plain.events)
    BY <1>1 DEF Grouped, Asked
  <1>3. IsFiniteSet(plain.events)
    BY FeedFinite
  <1> HIDE DEF plain
  <1>4. GroupsAddUp(plain)
    BY <1>2, <1>3, GroupsDoAddUp DEF GroupsAddUp
  <1> QED
    BY <1>4 DEF plain

LEMMA GroupedIs ==
    ASSUME NEW events, NEW cases
    PROVE  /\ Grouped(Asked, events, cases).events = events
           /\ Grouped(Asked, events, cases).groups = IF cases # {} THEN cases ELSE BuildFeedGroups(events)
  BY DEF Grouped, Asked

LEMMA GroupsInside ==
    ASSUME NEW items, NEW g \in BuildFeedGroups(items)
    PROVE  g.events \subseteq items
  <1>1. PICK key \in {CaseOf(i) : i \in items} :
           g = Group(key, {i \in items : CaseOf(i) = key}, Cardinality(Families({i \in items : CaseOf(i) = key})))
    BY DEF BuildFeedGroups
  <1>2. g.events = {i \in items : CaseOf(i) = key}
    BY <1>1 DEF Group
  <1> QED
    BY <1>2

LEMMA CasesOfTwo ==
    ASSUME NEW rows, NEW S, NEW onPage
    PROVE  \A g \in CaseGroups(rows, S, Asked, onPage, Day) : g.sources >= 2
  BY DEF CaseGroups

LEMMA CasesDoAddUp ==
    ASSUME NEW rows, NEW S
    PROVE  CasesAddUp(FeedPage(rows, S, Asked, Day))
  <1> DEFINE page == FeedPage(rows, S, Asked, Day)
  <1>1. \E events, onPage : page = Grouped(Asked, events, CaseGroups(rows, S, Asked, onPage, Day))
    BY DEF FeedPage, FeedOf
  <1> HIDE DEF page
  <1>2. PICK events, onPage : page = Grouped(Asked, events, CaseGroups(rows, S, Asked, onPage, Day))
    BY <1>1
  <1> DEFINE cases == CaseGroups(rows, S, Asked, onPage, Day)
  <1>3. \A g \in cases : g.sources >= 2
    BY CasesOfTwo
  <1>4. page = Grouped(Asked, events, cases)
    BY <1>2
  <1> HIDE DEF cases
  <1>5. page.events = events /\ page.groups = IF cases # {} THEN cases ELSE BuildFeedGroups(events)
    BY <1>4, GroupedIs
  <1>6. \A g \in BuildFeedGroups(events) : g.events \subseteq events
    BY GroupsInside
  <1>7. \A g \in page.groups : g.sources >= 2 \/ g.events \subseteq page.events
    BY <1>3, <1>5, <1>6
  <1> QED
    BY <1>7 DEF CasesAddUp, page

LEMMA LineDoesAddUp ==
    ASSUME IsFiniteSet(table)
    PROVE  LineAddsUp(SentimentTimeline(table, NoFilter, Day))
  <1> DEFINE felt == {r \in table : r.mood # None}
             key == [r \in felt |-> Bucket(r, Day)]
             line == SentimentTimeline(table, NoFilter, Day)
             count == [d \in DOMAIN line |-> line[d].count]
  <1>1. [NoFilter EXCEPT !.source = None] = NoFilter /\ NoFilter.source = None
    BY DEF NoFilter
  <1>2. {e \in Selected(table, [NoFilter EXCEPT !.source = None]) : e.mood # None /\ NoFilter.source \in {None, e.source}} = felt
    BY <1>1, AllSelected
  <1>3. DOMAIN line = {key[r] : r \in felt}
    BY <1>2 DEF SentimentTimeline
  <1>4. \A d \in DOMAIN line : line[d].count = Cardinality({r \in felt : key[r] = d})
    <2> SUFFICES ASSUME NEW d \in DOMAIN line PROVE line[d].count = Cardinality({r \in felt : key[r] = d})
      OBVIOUS
    <2>1. {r \in felt : key[r] = d} = {e \in felt : Bucket(e, Day) = d}
      OBVIOUS
    <2>2. line[d].count = Cardinality({e \in felt : Bucket(e, Day) = d})
      BY <1>2 DEF SentimentTimeline
    <2> QED
      BY <2>1, <2>2
  <1>5. IsFiniteSet(felt) /\ DOMAIN key = felt
    BY FS_Subset
  <1>6. DOMAIN count = DOMAIN line /\ \A d \in DOMAIN count : count[d] = line[d].count
    OBVIOUS
  <1> HIDE DEF felt, key, line, count
  <1>7. SumOf(count) = Cardinality(felt)
    BY <1>3, <1>4, <1>5, <1>6, CountedEach
  <1> QED
    BY <1>7 DEF LineAddsUp, line, felt, count

LEMMA FacetsAddUp ==
    ASSUME NEW rows, IsFiniteSet(rows)
    PROVE  SumOf(SourceFacets(rows, NoFilter)) = Cardinality(rows)
  <1> DEFINE key == [r \in rows |-> r.source]
             count == SourceFacets(rows, NoFilter)
  <1>1. [NoFilter EXCEPT !.source = None] = NoFilter
    BY DEF NoFilter
  <1>2. count = [s \in {e.source : e \in rows} |-> Cardinality({e \in rows : e.source = s})]
    BY <1>1, AllSelected DEF SourceFacets
  <1>3. DOMAIN count = {key[r] : r \in rows} /\ DOMAIN key = rows
    BY <1>2
  <1>4. \A s \in DOMAIN count : count[s] = Cardinality({r \in rows : key[r] = s})
    <2> SUFFICES ASSUME NEW s \in DOMAIN count PROVE count[s] = Cardinality({r \in rows : key[r] = s})
      OBVIOUS
    <2>1. {r \in rows : key[r] = s} = {e \in rows : e.source = s}
      OBVIOUS
    <2> QED
      BY <1>2, <2>1
  <1> HIDE DEF key, count
  <1>5. SumOf(count) = Cardinality(rows)
    BY <1>3, <1>4, CountedEach
  <1> QED
    BY <1>5 DEF count

-----------------------------------------------------------------------------
(* The map and the board of a reader.                                      *)

\* A page by time that has room shows everything.
TimeKey(S) == [e \in S |-> <<e.ts, e.ingest, e.id>>]
LEMMA NewestWhole ==
    ASSUME NEW rows, Stores(rows), NEW S \in SUBSET rows, NEW n \in Nat, Cardinality(S) <= n
    PROVE  Paged(TimeKey(S), S, n) = S
  <1> DEFINE k == TimeKey(S)
  <1>2. IsFiniteSet(S)
    BY FS_Subset DEF Stores
  <1>3. \A e \in S : e.id \in Int /\ {e.ts, e.ingest} \subseteq Int \cup {None}
    BY DEF Stores, IsStored, IsReport, IsEvent
  <1>4. \A e \in S : DOMAIN k[e] = 1..3 /\ k[e][1] = e.ts /\ k[e][2] = e.ingest /\ k[e][3] = e.id
    BY DEF TimeKey
  <1> HIDE DEF k
  <1>5. Keyed(k, S)
    <2>1. \A e \in S : \A i \in 1..3 : k[e][i] \in Int \cup {None}
      BY <1>3, <1>4
    <2> QED
      BY <1>4, <2>1 DEF Keyed
  <1>6. Paged(k, S, n) = S
    BY <1>2, <1>5, WholePage
  <1> QED
    BY <1>6 DEF k

\* The rows of the map, for a request without a filter.
Newest(S, n) == Page(S, ByTime, n, 0)
Sourced(rows, s) == {e \in rows : e.source = s}
Unsourced(rows) == {e \in rows : e.source \notin TrackingSources}
Mapped(all, limit) ==
    (UNION {Newest(Sourced(all, s), Min({TrackingCap, limit \div 2})) : s \in TrackingSources})
        \cup Newest(Unsourced(all), Min({IntelCap, limit}))
LEMMA MapRowsAre ==
    ASSUME NEW rows
    PROVE  MapRows(rows, NoFilter, 500)
             = {RowToEvent(r) : r \in Newest(Sourced(rows, "ais"), 150) \cup Newest(Sourced(rows, "opensky"), 150)
                                        \cup Newest(Unsourced(rows), 350)}
  <1> DEFINE all == Selected(rows, NoFilter)
  <1>1. Min({TrackingCap, 500 \div 2}) = 150
    <2>1. TrackingCap = 150 /\ 500 \div 2 = 250
      BY DEF TrackingCap
    <2>2. Min({150, 250}) = 150
      BY Extremes
    <2> QED
      BY <2>1, <2>2
  <1>2. Min({IntelCap, 500}) = 350
    <2>1. IntelCap = 350
      BY DEF IntelCap
    <2>2. Min({350, 500}) = 350
      BY Extremes
    <2> QED
      BY <2>1, <2>2
  <1>3. all = rows /\ NoFilter.source = None
    BY AllSelected DEF NoFilter
  <1>4. MapRows(rows, NoFilter, 500)
          = {RowToEvent(r) : r \in IF NoFilter.source # None THEN Newest(all, 500) ELSE Mapped(all, 500)}
    BY DEF MapRows, Mapped, Newest, Page, Rank, ByTime, Sourced, Unsourced
  <1> HIDE DEF all
  <1>5. MapRows(rows, NoFilter, 500) = {RowToEvent(r) : r \in Mapped(rows, 500)}
    BY <1>3, <1>4
  <1>6. Mapped(rows, 500) = (UNION {Newest(Sourced(rows, s), 150) : s \in TrackingSources}) \cup Newest(Unsourced(rows), 350)
    BY <1>1, <1>2 DEF Mapped
  <1>7. UNION {Newest(Sourced(rows, s), 150) : s \in TrackingSources}
          = Newest(Sourced(rows, "ais"), 150) \cup Newest(Sourced(rows, "opensky"), 150)
    BY DEF TrackingSources
  <1> QED
    BY <1>5, <1>6, <1>7

LEMMA MapIsWhole ==
    ASSUME NEW rows, Stores(rows), Cardinality(rows) <= TrackingCap
    PROVE  MapRows(rows, NoFilter, 500) = {RowToEvent(r) : r \in rows}
  <1>1. \A S \in SUBSET rows : Cardinality(S) <= 150 /\ Cardinality(S) <= 350
    <2>1. IsFiniteSet(rows)
      BY DEF Stores
    <2> SUFFICES ASSUME NEW S \in SUBSET rows PROVE Cardinality(S) <= 150 /\ Cardinality(S) <= 350
      OBVIOUS
    <2>2. Cardinality(S) <= Cardinality(rows) /\ Cardinality(S) \in Nat /\ Cardinality(rows) \in Nat
      BY <2>1, FS_Subset, FS_CardinalityType
    <2> QED
      BY <2>2 DEF TrackingCap
  <1>2. Sourced(rows, "ais") \in SUBSET rows /\ Sourced(rows, "opensky") \in SUBSET rows /\ Unsourced(rows) \in SUBSET rows
    BY DEF Sourced, Unsourced
  <1>3. \A S \in SUBSET rows : Newest(S, 150) = S /\ Newest(S, 350) = S
    <2>1. \A S, n : Newest(S, n) = Paged(TimeKey(S), S, n)
      BY DEF Newest, Page, Rank, ByTime, Paged, Place, TimeKey
    <2> QED
      BY <1>1, <2>1, NewestWhole
  <1>4. Newest(Sourced(rows, "ais"), 150) \cup Newest(Sourced(rows, "opensky"), 150) \cup Newest(Unsourced(rows), 350)
          = Sourced(rows, "ais") \cup Sourced(rows, "opensky") \cup Unsourced(rows)
    BY <1>2, <1>3
  <1>5. Sourced(rows, "ais") \cup Sourced(rows, "opensky") \cup Unsourced(rows) = rows
    BY DEF Sourced, Unsourced, TrackingSources
  <1> QED
    BY <1>4, <1>5, MapRowsAre

\* Whatever has a latitude of its own is on the map.
LEMMA RowOnMap ==
    ASSUME NEW r, IsReport(r), r.at # None, r.at.lat # 0
    PROVE  RowToEvent(r).id = r.id /\ ResolveEventCoords(RowToEvent(r)) # None
  <1>1. AreActors(RowToEvent(r).actors) /\ RowToEvent(r).id = r.id
    BY EventOfReport DEF IsReport, IsEvent
  <1>2. RowToEvent(r).at = r.at
    BY DEF RowToEvent, IsReport, IsEvent, EventFields
  <1> QED
    BY <1>1, <1>2, CoordsNone DEF Nowhere

LEMMA MapDoesShow ==
    ASSUME Stores(table), Cardinality(table) <= TrackingCap
    PROVE  {r.id : r \in {x \in table : x.at # None /\ x.at.lat # 0}} \subseteq Ids(EventsMap(table, NoFilter, 500))
  <1> SUFFICES ASSUME NEW r \in table, r.at # None, r.at.lat # 0
               PROVE  r.id \in Ids(EventsMap(table, NoFilter, 500))
    OBVIOUS
  <1> DEFINE e == RowToEvent(r)
             mark == [id |-> e.id, at |-> ResolveEventCoords(e), inferred |-> e.at = None]
  <1>1. e.id = r.id /\ ResolveEventCoords(e) # None
    BY RowOnMap DEF Stores, IsStored
  <1>2. e \in MapRows(table, NoFilter, 500)
    BY MapIsWhole
  <1>3. mark \in EventsMap(table, NoFilter, 500)
    BY <1>1, <1>2 DEF EventsMap, GeoJson
  <1> QED
    BY <1>1, <1>3 DEF Ids

\* While the board has room for one of every alert and story it has every zone.
LEMMA RoomIsRead ==
    ASSUME Alarms(alerts), Stories(narratives), BoardHasRoom
    PROVE  IsRead(alerts, narratives)
  <1>1. Cardinality(alerts) \in Nat /\ Cardinality(narratives) \in Nat
    BY FS_CardinalityType DEF Alarms, Stories
  <1> QED
    BY <1>1 DEF BoardHasRoom, IsRead, AlertsRead, NarrativesRead

LEMMA ZonesHaveRoom ==
    ASSUME NEW A, NEW N, IsRead(A, N), Cardinality(A) + Cardinality(N) <= 30
    PROVE  ThreatboardOf(A, N, Day, 30, Day) = Board({ZoneAt(k, A, N) : k \in ZoneNames(A, N)})
  <1> DEFINE Z == ZonesOf(A, N)
  <1>1. AreZones(Z) /\ Cardinality(Z) \in Nat /\ Cardinality(Z) <= 30
    <2>1. Cardinality(A) \in Nat /\ Cardinality(N) \in Nat
      BY FS_CardinalityType DEF IsRead, Alarms, Stories
    <2> QED
      BY <2>1, BoardZones, NamesFinite
  <1>2. ThreatboardOf(A, N, Day, 30, Day) = Board(TopOf(Z))
    BY DEF ThreatboardOf, TopOf, ZonesOf
  <1>3. Z = {ZoneAt(k, A, N) : k \in ZoneNames(A, N)}
    BY ZonesAre DEF ZonesOf
  <1> HIDE DEF Z
  <1>4. \A z \in Z : Cardinality(Above(Z, z)) < 30
    <2> SUFFICES ASSUME NEW z \in Z PROVE Cardinality(Above(Z, z)) < 30
      OBVIOUS
    <2>1. IsFiniteSet(Z) /\ z.score \in Nat
      BY <1>1 DEF AreZones
    <2>2. Above(Z, z) \subseteq Z \ {z}
      BY <2>1 DEF Above
    <2>3. Cardinality(Z \ {z}) = Cardinality(Z) - 1 /\ IsFiniteSet(Z \ {z})
      BY <2>1, FS_RemoveElement
    <2>4. Cardinality(Above(Z, z)) <= Cardinality(Z \ {z}) /\ Cardinality(Above(Z, z)) \in Nat
      BY <2>2, <2>3, FS_Subset, FS_CardinalityType
    <2> QED
      BY <1>1, <2>3, <2>4
  <1>5. TopOf(Z) = Z
    BY <1>1, <1>4, ScoredOrder
  <1> QED
    BY <1>2, <1>3, <1>5

LEMMA AlarmedActors ==
    ASSUME Alarms(alerts), Stories(narratives), NEW a \in alerts, ~a.resolved, a.entity # None, a.at >= Day - 1, BoardHasRoom
    PROVE  a.entity \in {z.name : z \in ThreatboardOf(alerts, narratives, Day, 30, Day).zones}
  <1> DEFINE Z == {ZoneAt(k, alerts, narratives) : k \in ZoneNames(alerts, narratives)}
  <1>1. ThreatboardOf(alerts, narratives, Day, 30, Day).zones = Z
    <2>1. IsRead(alerts, narratives) /\ Cardinality(alerts) + Cardinality(narratives) <= 30
      BY RoomIsRead DEF BoardHasRoom
    <2>2. ThreatboardOf(alerts, narratives, Day, 30, Day) = Board(Z)
      BY <2>1, ZonesHaveRoom
    <2> HIDE DEF Z
    <2> QED
      BY <2>2 DEF Board
  <1>2. a.at >= 0 /\ Day - Day = 0
    BY DEF Day, Alarms, IsAlert
  <1>3. a \in OpenOf(alerts)
    BY <1>2 DEF OpenOf
  <1>4. ZoneOf(a) = a.entity
    BY FirstOfTwo DEF ZoneOf
  <1>5. a.entity \in ZoneNames(alerts, narratives)
    BY <1>3, <1>4 DEF ZoneNames
  <1>6. ZoneAt(a.entity, alerts, narratives) \in Z
    BY <1>5
  <1>7. ZoneAt(a.entity, alerts, narratives).name = a.entity
    BY DEF ZoneAt, Zone
  <1> HIDE DEF Z
  <1> QED
    BY <1>1, <1>6, <1>7

LEMMA FeedDoesAddUp == ReaderInv /\ subject = "reader" => FeedAddsUp
  <1> SUFFICES ASSUME ReaderInv, subject = "reader" PROVE FeedAddsUp
    OBVIOUS
  <1>1. Stores(table) /\ IsFiniteSet(table) /\ Alarms(alerts) /\ Stories(narratives)
    BY DEF ReaderInv, Stores
  <1>2. GroupsAddUp(FeedPage(table, {}, Asked, Day)) /\ CasesAddUp(FeedPage(table, situations, Asked, Day))
    BY <1>1, PlainGroups, CasesDoAddUp
  <1>3. LineAddsUp(SentimentTimeline(table, NoFilter, Day)) /\ SumOf(SourceFacets(table, NoFilter)) = Cardinality(table)
    BY <1>1, LineDoesAddUp, FacetsAddUp
  <1>4. Cardinality(table) <= TrackingCap =>
          {r.id : r \in {x \in table : x.at # None /\ x.at.lat # 0}} \subseteq Ids(EventsMap(table, NoFilter, 500))
    BY <1>1, MapDoesShow
  <1>5. \A a \in alerts : (/\ a.type = "entity_spike" /\ a.severity = "critical" /\ ~a.resolved
                           /\ a.entity # None /\ a.at >= Day - 1 /\ BoardHasRoom)
          => a.entity \in {z.name : z \in ThreatboardOf(alerts, narratives, Day, 30, Day).zones}
    BY <1>1, AlarmedActors
  <1> QED
    BY <1>2, <1>3, <1>4, <1>5 DEF FeedAddsUp

-----------------------------------------------------------------------------
(* The board and the views of a reader.                                    *)

LEMMA ZonesAreFinite ==
    ASSUME NEW A, IsFiniteSet(A), NEW N, IsFiniteSet(N)
    PROVE  IsFiniteSet(ZonesOf(A, N)) /\ \A z \in ZonesOf(A, N) : \E s : z.level = ZoneLevel(s)
  <1> DEFINE O == Page({a \in A : a.at >= Day - Day /\ ~a.resolved}, LAMBDA a : <<a.at, a.aid>>, AlertsRead, 0)
             P == {a \in A : a.at >= Day - 2 * Day /\ a.at < Day - Day}
             T == Page({n \in N : n.at >= Day - Day}, LAMBDA n : <<n.at, n.nid>>, NarrativesRead, 0)
             place == [a \in O |-> ZoneOf(a)]
             topic == [n \in T |-> n.topic]
             names == ({place[a] : a \in O} \cup {topic[n] : n \in T}) \ {None}
             zone == [k \in names |-> Zone(k, {a \in O : ZoneOf(a) = k}, {n \in T : n.topic = k}, {a \in P : a.entity = k})]
  <1>1. O \subseteq A /\ T \subseteq N
    BY DEF Page
  <1>2. ZonesOf(A, N) = {zone[k] : k \in names} /\ DOMAIN zone = names /\ DOMAIN place = O /\ DOMAIN topic = T
    <2>1. ZonesOf(A, N) = {Zone(k, {a \in O : ZoneOf(a) = k}, {n \in T : n.topic = k}, {a \in P : a.entity = k})
                             : k \in ({ZoneOf(a) : a \in O} \cup {n.topic : n \in T}) \ {None}}
      BY DEF ZonesOf, Zones, Page, Rank
    <2> HIDE DEF O, P, T
    <2>2. names = ({ZoneOf(a) : a \in O} \cup {n.topic : n \in T}) \ {None}
      OBVIOUS
    <2>3. ZonesOf(A, N) = {Zone(k, {a \in O : ZoneOf(a) = k}, {n \in T : n.topic = k}, {a \in P : a.entity = k}) : k \in names}
      BY <2>1, <2>2
    <2> HIDE DEF names
    <2> QED
      BY <2>3
  <1>3. \A k \in names : \E s : zone[k].level = ZoneLevel(s)
    BY DEF Zone
  <1> HIDE DEF zone, place, topic, O, P, T
  <1>4. IsFiniteSet({place[a] : a \in O}) /\ IsFiniteSet({topic[n] : n \in T})
    <2>1. IsFiniteSet(O) /\ IsFiniteSet(T)
      BY <1>1, FS_Subset
    <2>2. DOMAIN place = O /\ DOMAIN topic = T
      BY <1>2
    <2> QED
      BY <2>1, <2>2, ImageFinite
  <1>5. IsFiniteSet(names)
    BY <1>4, FS_Union, FS_Subset
  <1> HIDE DEF names
  <1>6. IsFiniteSet({zone[k] : k \in names})
    BY <1>2, <1>5, ImageFinite
  <1> QED
    BY <1>2, <1>3, <1>6

ZoneLevels == {"critical", "high", "medium", "low", "monitoring"}
LEMMA AnyLevel == \A s : ZoneLevel(s) \in ZoneLevels
  BY DEF ZoneLevel, ZoneLevels

LEMMA SummaryAddsUp ==
    ASSUME NEW Z, IsFiniteSet(Z), \A z \in Z : z.level \in ZoneLevels
    PROVE  SumOf(Board(Z).summary) = Cardinality(Board(Z).zones)
  <1> DEFINE key == [z \in Z |-> z.level]
             count == [l \in ZoneLevels |-> Cardinality({z \in Z : z.level = l})]
  <1>1. Board(Z).summary = count /\ Board(Z).zones = Z
    BY DEF Board, ZoneLevels
  <1>2. DOMAIN count = ZoneLevels /\ \A z \in Z : key[z] \in ZoneLevels
    OBVIOUS
  <1>3. \A l \in ZoneLevels : count[l] = Cardinality({z \in Z : key[z] = l})
    <2> SUFFICES ASSUME NEW l \in ZoneLevels PROVE count[l] = Cardinality({z \in Z : key[z] = l})
      OBVIOUS
    <2>1. {z \in Z : key[z] = l} = {z \in Z : z.level = l}
      OBVIOUS
    <2> QED
      BY <2>1
  <1>4. IsFiniteSet(ZoneLevels)
    <2>1. IsFiniteSet({"critical"}) /\ IsFiniteSet({"high"}) /\ IsFiniteSet({"medium"}) /\ IsFiniteSet({"low"}) /\ IsFiniteSet({"monitoring"})
      BY FS_Singleton
    <2>2. IsFiniteSet({"critical"} \cup {"high"} \cup {"medium"} \cup {"low"} \cup {"monitoring"})
      BY <2>1, FS_Union
    <2>3. {"critical"} \cup {"high"} \cup {"medium"} \cup {"low"} \cup {"monitoring"} = ZoneLevels
      BY DEF ZoneLevels
    <2> QED
      BY <2>2, <2>3
  <1> HIDE DEF key, count
  <1>5. SumOf(count) = Cardinality(Z)
    BY <1>2, <1>3, <1>4, PartitionAll
  <1> QED
    BY <1>1, <1>5

\* What every zone counts of some records that are each in one zone.
LEMMA ZonesCount ==
    ASSUME NEW K, IsFiniteSet(K), NEW zone, DOMAIN zone = K, \A k \in K : zone[k].name = k,
           NEW S, IsFiniteSet(S), NEW place, \A x \in S : place[x] \in K,
           NEW count, DOMAIN count = {zone[k] : k \in K},
           \A k \in K : count[zone[k]] = Cardinality({x \in S : place[x] = k})
    PROVE  SumOf(count) = Cardinality(S)
  <1> DEFINE key == [x \in S |-> zone[place[x]]]
  <1>1. IsFiniteSet(DOMAIN count)
    BY ImageFinite
  <1>2. \A x \in S : key[x] \in DOMAIN count
    OBVIOUS
  <1>3. \A z \in DOMAIN count : count[z] = Cardinality({x \in S : key[x] = z})
    <2> SUFFICES ASSUME NEW k \in K PROVE count[zone[k]] = Cardinality({x \in S : key[x] = zone[k]})
      OBVIOUS
    <2>1. {x \in S : key[x] = zone[k]} = {x \in S : place[x] = k}
      OBVIOUS
    <2> QED
      BY <2>1
  <1> HIDE DEF key
  <1> QED
    BY <1>1, <1>2, <1>3, PartitionAll

LEMMA OpenAreTold ==
    ASSUME Alarms(alerts), Stories(narratives)
    PROVE  /\ OpenAlerts = {a \in OpenOf(alerts) : ZoneOf(a) # None}
           /\ OpenStories = {n \in ToldOf(narratives) : n.topic # None}
           /\ IsFiniteSet(OpenAlerts) /\ IsFiniteSet(OpenStories)
  <1>1. Day - Day = 0
    BY DEF Day
  <1>2. IsFiniteSet(alerts) /\ IsFiniteSet(narratives)
    BY DEF Alarms, Stories
  <1>3. OpenAlerts \subseteq alerts /\ OpenStories \subseteq narratives
    BY DEF OpenAlerts, OpenStories
  <1>4. IsFiniteSet(OpenAlerts) /\ IsFiniteSet(OpenStories)
    BY <1>2, <1>3, FS_Subset
  <1> QED
    BY <1>1, <1>4 DEF OpenAlerts, OpenStories, OpenOf, ToldOf

LEMMA RoomAddsUp ==
    ASSUME Alarms(alerts), Stories(narratives), BoardHasRoom
    PROVE  LET zones == ThreatboardOf(alerts, narratives, Day, 30, Day).zones
           IN  /\ SumOf([z \in zones |-> z.alerts]) = Cardinality(OpenAlerts)
               /\ SumOf([z \in zones |-> z.narratives]) = Cardinality(OpenStories)
  <1> DEFINE A == alerts
             N == narratives
             K == ZoneNames(A, N)
             zone == [k \in K |-> ZoneAt(k, A, N)]
             Z == {zone[k] : k \in K}
             open == [z \in Z |-> z.alerts]
             told == [z \in Z |-> z.narratives]
             place == [a \in OpenAlerts |-> ZoneOf(a)]
             topic == [n \in OpenStories |-> n.topic]
  <1>1. IsRead(A, N) /\ Cardinality(A) + Cardinality(N) <= 30
    BY RoomIsRead DEF BoardHasRoom
  <1>2. ThreatboardOf(A, N, Day, 30, Day).zones = Z
    <2>1. Z = {ZoneAt(k, A, N) : k \in K}
      OBVIOUS
    <2>2. ThreatboardOf(A, N, Day, 30, Day) = Board({ZoneAt(k, A, N) : k \in K})
      BY <1>1, ZonesHaveRoom
    <2> HIDE DEF Z
    <2> QED
      BY <2>1, <2>2 DEF Board
  <1>3. /\ OpenAlerts = {a \in OpenOf(A) : ZoneOf(a) # None} /\ OpenStories = {n \in ToldOf(N) : n.topic # None}
        /\ IsFiniteSet(OpenAlerts) /\ IsFiniteSet(OpenStories)
    BY OpenAreTold
  <1>4. IsFiniteSet(K)
    BY <1>1, NamesFinite
  <1>5. (\A a \in OpenAlerts : place[a] \in K) /\ (\A n \in OpenStories : topic[n] \in K)
    BY <1>3 DEF ZoneNames
  <1>6. \A k \in K : /\ zone[k].name = k /\ zone[k].alerts = Cardinality(InZone(k, A))
                     /\ zone[k].narratives = Cardinality(OnTopic(k, N))
    BY DEF ZoneAt, Zone
  <1>7. \A k \in K : {a \in OpenAlerts : place[a] = k} = InZone(k, A) /\ {n \in OpenStories : topic[n] = k} = OnTopic(k, N)
    <2>1. None \notin K
      BY DEF ZoneNames
    <2> SUFFICES ASSUME NEW k \in K
                 PROVE  {a \in OpenAlerts : place[a] = k} = InZone(k, A) /\ {n \in OpenStories : topic[n] = k} = OnTopic(k, N)
      OBVIOUS
    <2>2. k # None
      BY <2>1
    <2>3. {a \in OpenAlerts : place[a] = k} = {a \in OpenOf(A) : ZoneOf(a) = k}
      BY <1>3, <2>2
    <2>4. {n \in OpenStories : topic[n] = k} = {n \in ToldOf(N) : n.topic = k}
      BY <1>3, <2>2
    <2> QED
      BY <2>3, <2>4 DEF InZone, OnTopic
  <1>8. DOMAIN zone = K /\ DOMAIN open = {zone[k] : k \in K} /\ DOMAIN told = {zone[k] : k \in K}
    OBVIOUS
  <1>9. \A k \in K : /\ open[zone[k]] = Cardinality({a \in OpenAlerts : place[a] = k})
                     /\ told[zone[k]] = Cardinality({n \in OpenStories : topic[n] = k})
    BY <1>6, <1>7
  <1>10. open = [z \in ThreatboardOf(A, N, Day, 30, Day).zones |-> z.alerts]
         /\ told = [z \in ThreatboardOf(A, N, Day, 30, Day).zones |-> z.narratives]
    BY <1>2
  <1> HIDE DEF zone, open, told, place, topic, K, Z
  <1>11. \A k \in K : zone[k].name = k
    BY <1>6
  <1>12. SumOf(open) = Cardinality(OpenAlerts)
    <2>1. \A k \in K : open[zone[k]] = Cardinality({a \in OpenAlerts : place[a] = k})
      BY <1>9
    <2>2. IsFiniteSet(OpenAlerts) /\ \A a \in OpenAlerts : place[a] \in K
      BY <1>3, <1>5
    <2>3. DOMAIN zone = K /\ DOMAIN open = {zone[k] : k \in K}
      BY <1>8
    <2> QED
      BY <1>4, <1>11, <2>1, <2>2, <2>3, ZonesCount
  <1>13. SumOf(told) = Cardinality(OpenStories)
    <2>1. \A k \in K : told[zone[k]] = Cardinality({n \in OpenStories : topic[n] = k})
      BY <1>9
    <2>2. IsFiniteSet(OpenStories) /\ \A n \in OpenStories : topic[n] \in K
      BY <1>3, <1>5
    <2>3. DOMAIN zone = K /\ DOMAIN told = {zone[k] : k \in K}
      BY <1>8
    <2> QED
      BY <1>4, <1>11, <2>1, <2>2, <2>3, ZonesCount
  <1> QED
    BY <1>10, <1>12, <1>13

LEMMA BoardDoesAddUp ==
    ASSUME Alarms(alerts), Stories(narratives)
    PROVE  BoardAddsUp
  <1> DEFINE board == ThreatboardOf(alerts, narratives, Day, 30, Day)
             top == TopOf(ZonesOf(alerts, narratives))
  <1>1. board = Board(top)
    BY DEF ThreatboardOf, TopOf, ZonesOf
  <1>2. IsFiniteSet(top) /\ \A z \in top : z.level \in ZoneLevels
    <2>1. IsFiniteSet(alerts) /\ IsFiniteSet(narratives)
      BY DEF Alarms, Stories
    <2>2. top \subseteq ZonesOf(alerts, narratives)
      BY DEF TopOf, Page
    <2> HIDE DEF top
    <2> QED
      BY <2>1, <2>2, ZonesAreFinite, AnyLevel, FS_Subset
  <1>3. Summary(alerts, narratives, Day).overall = board.overall
    BY DEF Summary, Counted, ThreatboardOf, Board
  <1>4. BoardHasRoom => /\ SumOf([z \in board.zones |-> z.alerts]) = Cardinality(OpenAlerts)
                        /\ SumOf([z \in board.zones |-> z.narratives]) = Cardinality(OpenStories)
    BY RoomAddsUp
  <1> HIDE DEF board, top
  <1>5. SumOf(board.summary) = Cardinality(board.zones)
    BY <1>1, <1>2, SummaryAddsUp
  <1>6. ZonesAddUp(board)
    BY <1>3, <1>4, <1>5 DEF ZonesAddUp
  <1> QED
    BY <1>6 DEF BoardAddsUp, board

-----------------------------------------------------------------------------
(* Views of the same rows agree.                                           *)

\* The counts of the values of one column, whichever it is.
Column(S, of) == [k \in {of[x] : x \in S} |-> Cardinality({x \in S : of[x] = k})]
LEMMA ColumnsAddUp ==
    ASSUME NEW S, IsFiniteSet(S), NEW of, DOMAIN of = S
    PROVE  SumOf(Column(S, of)) = Cardinality(S)
  <1> DEFINE count == Column(S, of)
  <1>1. DOMAIN count = {of[x] : x \in S} /\ \A k \in DOMAIN count : count[k] = Cardinality({x \in S : of[x] = k})
    BY DEF Column
  <1> HIDE DEF count
  <1>2. SumOf(count) = Cardinality(S)
    BY <1>1, CountedEach
  <1> QED
    BY <1>2 DEF count

LEMMA TypesAddUp ==
    ASSUME NEW S, IsFiniteSet(S)
    PROVE  SumOf(CountBy(S, LAMBDA r : r.type)) = Cardinality(S)
  <1> DEFINE of == [r \in S |-> r.type]
  <1>1. CountBy(S, LAMBDA r : r.type) = Column(S, of)
    BY DEF CountBy, Column
  <1>2. DOMAIN of = S
    OBVIOUS
  <1> HIDE DEF of
  <1> QED
    BY <1>1, <1>2, ColumnsAddUp

LEMMA TimesAddUp ==
    ASSUME NEW S, IsFiniteSet(S)
    PROVE  SumOf(CountBy(S, LAMBDA r : r.ts)) = Cardinality(S)
  <1> DEFINE of == [r \in S |-> r.ts]
  <1>1. CountBy(S, LAMBDA r : r.ts) = Column(S, of)
    BY DEF CountBy, Column
  <1>2. DOMAIN of = S
    OBVIOUS
  <1> HIDE DEF of
  <1> QED
    BY <1>1, <1>2, ColumnsAddUp

LEMMA DashAddsUp ==
    ASSUME IsFiniteSet(table)
    PROVE  LET dash == DashboardSummary(table, narratives, alerts, Day)
               trends == TrendLines(table, Day)
           IN  /\ SumOf(dash.byType) = dash.total /\ dash.day <= dash.total
               /\ \A s \in DOMAIN dash.bySource : SumOf(trends[s]) = dash.bySource[s]
  <1> DEFINE day == Within24(table, Day)
             dash == DashboardSummary(table, narratives, alerts, Day)
             trends == TrendLines(table, Day)
  <1>1. day \subseteq table
    BY DEF Within24
  <1> HIDE DEF day
  <1>2. /\ dash.byType = CountBy(table, LAMBDA r : r.type) /\ dash.total = Cardinality(table) /\ dash.day = Cardinality(day)
        /\ dash.bySource = CountBy(day, LAMBDA r : r.source)
    BY DEF DashboardSummary, CountBy, day
  <1>3. SumOf(dash.byType) = dash.total
    BY <1>2, TypesAddUp
  <1>4. dash.day <= dash.total
    BY <1>1, <1>2, FS_Subset
  <1>5. ASSUME NEW s \in DOMAIN dash.bySource
        PROVE  SumOf(trends[s]) = dash.bySource[s]
    <2> DEFINE of == {r \in day : r.source = s}
    <2>1. dash.bySource = [k \in {r.source : r \in day} |-> Cardinality({r \in day : r.source = k})]
      BY <1>2 DEF CountBy
    <2>2. s \in {r.source : r \in day} /\ dash.bySource[s] = Cardinality(of)
      BY <2>1
    <2>3. trends = [k \in {r.source : r \in day} |-> CountBy({r \in day : r.source = k}, LAMBDA r : r.ts)]
      BY DEF TrendLines, CountBy, day
    <2>4. trends[s] = CountBy(of, LAMBDA r : r.ts)
      <3> DEFINE line(k) == CountBy({r \in day : r.source = k}, LAMBDA r : r.ts)
      <3>1. trends = [k \in {r.source : r \in day} |-> line(k)]
        BY <2>3
      <3>2. line(s) = CountBy(of, LAMBDA r : r.ts)
        BY DEF CountBy
      <3> HIDE DEF line, trends
      <3>3. trends[s] = line(s)
        BY <2>2, <3>1
      <3> QED
        BY <3>2, <3>3
    <2>5. IsFiniteSet(of)
      BY <1>1, FS_Subset
    <2> HIDE DEF of
    <2> QED
      BY <2>2, <2>4, <2>5, TimesAddUp
  <1> QED
    BY <1>3, <1>4, <1>5

LEMMA FeltAddsUp ==
    ASSUME IsFiniteSet(table)
    PROVE  LET felt == SentimentSummary(table, Day)
           IN  SumOf([s \in DOMAIN felt |-> felt[s].count]) <= Cardinality(Within24(table, Day))
  <1> DEFINE S == {r \in Within24(table, Day) : r.mood # None}
             of == [r \in S |-> r.source]
             felt == SentimentSummary(table, Day)
             count == [s \in DOMAIN felt |-> felt[s].count]
  <1>1. DOMAIN felt = {of[r] : r \in S}
    BY DEF SentimentSummary
  <1>2. \A s \in DOMAIN felt : felt[s].count = Cardinality({r \in S : r.source = s})
    BY DEF SentimentSummary
  <1>3. \A s \in DOMAIN count : count[s] = Cardinality({r \in S : of[r] = s})
    <2> SUFFICES ASSUME NEW s \in DOMAIN count PROVE count[s] = Cardinality({r \in S : of[r] = s})
      OBVIOUS
    <2>1. {r \in S : of[r] = s} = {r \in S : r.source = s}
      OBVIOUS
    <2> QED
      BY <1>2, <2>1
  <1>4. IsFiniteSet(Within24(table, Day))
    BY FS_Subset DEF Within24
  <1>5. S \subseteq Within24(table, Day) /\ DOMAIN of = S /\ DOMAIN count = DOMAIN felt
    OBVIOUS
  <1> HIDE DEF S, of, count, felt
  <1>6. IsFiniteSet(S) /\ Cardinality(S) <= Cardinality(Within24(table, Day))
    BY <1>4, <1>5, FS_Subset
  <1>7. SumOf(count) = Cardinality(S)
    BY <1>1, <1>3, <1>5, <1>6, CountedEach
  <1> QED
    BY <1>6, <1>7 DEF felt, count

LEMMA CountriesAddUp ==
    ASSUME IsFiniteSet(table)
    PROVE  LET countries == CountrySentiment(table, Day)
           IN  SumOf([c \in DOMAIN countries |-> countries[c].count]) <= Cardinality(table)
  <1> DEFINE named(r) == NormalizeCountry(FirstOf(<<r.xcountry, r.sourcecountry, r.origin>>))
             S == {r \in WithinWeek(table, Day) : r.mood # None /\ named(r) # None}
             of == [r \in S |-> named(r)]
             countries == CountrySentiment(table, Day)
             count == [c \in DOMAIN countries |-> countries[c].count]
  <1>1. DOMAIN countries = {named(r) : r \in S} /\ \A c \in DOMAIN countries : countries[c].count = Cardinality({r \in S : named(r) = c})
    BY DEF CountrySentiment
  <1>2. S \subseteq table
    BY DEF WithinWeek
  <1> HIDE DEF S, countries, named
  <1>3. DOMAIN countries = {of[r] : r \in S} /\ DOMAIN of = S /\ DOMAIN count = DOMAIN countries
    BY <1>1
  <1>4. \A c \in DOMAIN count : count[c] = Cardinality({r \in S : of[r] = c})
    <2> SUFFICES ASSUME NEW c \in DOMAIN count PROVE count[c] = Cardinality({r \in S : of[r] = c})
      OBVIOUS
    <2>1. {r \in S : of[r] = c} = {r \in S : named(r) = c}
      OBVIOUS
    <2> QED
      BY <1>1, <2>1
  <1>5. IsFiniteSet(S) /\ Cardinality(S) <= Cardinality(table)
    BY <1>2, FS_Subset
  <1> HIDE DEF of, count
  <1>6. SumOf(count) = Cardinality(S)
    BY <1>3, <1>4, <1>5, CountedEach
  <1> QED
    BY <1>5, <1>6 DEF countries, count

LEMMA UnscoredAddUp ==
    ASSUME IsFiniteSet(table)
    PROVE  LET sure == ConfidenceDistribution(table, <<>>, Day)
           IN  sure.high + sure.medium + sure.low + sure.unscored = Cardinality(Within24(table, Day))
  <1> DEFINE day == Within24(table, Day)
             scored == {r \in day : r.id \in DOMAIN <<>>}
             sure == ConfidenceDistribution(table, <<>>, Day)
  <1>1. scored = {}
    <2>1. DOMAIN <<>> = {}
      OBVIOUS
    <2> QED
      BY <2>1
  <1>2. /\ sure.high = Cardinality({r \in scored : <<>>[r.id] >= 700})
        /\ sure.medium = Cardinality({r \in scored : <<>>[r.id] \in 300..699})
        /\ sure.low = Cardinality({r \in scored : <<>>[r.id] < 300}) /\ sure.unscored = Cardinality(day \ scored)
    BY DEF ConfidenceDistribution
  <1>3. IsFiniteSet(day)
    BY FS_Subset DEF Within24
  <1> HIDE DEF day, scored
  <1>4. Cardinality({}) = 0 /\ Cardinality(day) \in Nat
    BY <1>3, FS_EmptySet, FS_CardinalityType
  <1>5. sure.high = 0 /\ sure.medium = 0 /\ sure.low = 0 /\ sure.unscored = Cardinality(day)
    <2>1. /\ {r \in scored : <<>>[r.id] >= 700} = {} /\ {r \in scored : <<>>[r.id] \in 300..699} = {}
          /\ {r \in scored : <<>>[r.id] < 300} = {} /\ day \ scored = day
      BY <1>1
    <2> HIDE DEF sure
    <2> QED
      BY <1>2, <1>4, <2>1
  <1> HIDE DEF sure
  <1>6. sure.high + sure.medium + sure.low + sure.unscored = Cardinality(day)
    BY <1>4, <1>5
  <1> QED
    BY <1>6 DEF sure, day

-----------------------------------------------------------------------------
(* The clusters of a day.                                                  *)
Dated(S) == {s \in S : s.ts # None /\ s.ts >= Day - Day}
Past(S) == {s \in Dated(S) : s.ts > Day - Day}
Bound(S) == {s \in S : s.cluster # None}
ClusterNames(S) == {s.cluster : s \in S} \ {None}
ClusterAt(c, S) ==
    LET of == {s \in Past(S) : s.cluster = c}
    IN  [cluster |-> c, signals |-> Cardinality(of), sources |-> {s.source : s \in of},
         score |-> Min({One, 350 + 80 * Cardinality(of)}), span |-> Max({s.ts : s \in of}) - Min({s.ts : s \in of})]
Clusters24(S) == {ClusterAt(c, S) : c \in ClusterNames(Past(S))}
Signalled(Z) == [c \in Z |-> c.signals]

\* The keys by which the largest are shown.
Sized(Z) == [c \in Z |-> <<c.signals>>]

LEMMA ToldIs ==
    ASSUME NEW S
    PROVE  LET told == CorrelationSummary(S, Day)
           IN  /\ told.clustered = Cardinality(Bound(Dated(S))) /\ told.clusters = Cardinality(ClusterNames(Dated(S)))
               /\ told.top = Paged(Sized(Clusters24(S)), Clusters24(S), 10)
  <1> DEFINE told == CorrelationSummary(S, Day)
             all == Clusters24(S)
  <1>1. told.clustered = Cardinality(Bound(Dated(S))) /\ told.clusters = Cardinality(ClusterNames(Dated(S)))
    BY DEF CorrelationSummary, Bound, Dated, ClusterNames
  <1>2. told.top = Page(all, LAMBDA c : <<c.signals>>, 10, 0)
    BY DEF CorrelationSummary, Clusters24, ClusterAt, ClusterNames, Past, Dated, Page, Rank
  <1> HIDE DEF all, told
  <1>3. told.top = Paged(Sized(all), all, 10)
    BY <1>2 DEF Page, Rank, Paged, Place, Sized
  <1> QED
    BY <1>1, <1>3 DEF told, all

LEMMA ClustersCount ==
    ASSUME NEW S, IsFiniteSet(S)
    PROVE  /\ SumOf(Signalled(Clusters24(S))) = Cardinality(Bound(Past(S)))
           /\ IsFiniteSet(Clusters24(S)) /\ \A c \in Clusters24(S) : c.signals \in Nat
           /\ Cardinality(Clusters24(S)) <= Cardinality(ClusterNames(Past(S)))
           /\ Cardinality(Clusters24(S)) \in Nat /\ IsFiniteSet(ClusterNames(Past(S)))
  <1> DEFINE B == Bound(Past(S))
             K == ClusterNames(Past(S))
             key == [s \in B |-> s.cluster]
             record == [c \in K |-> ClusterAt(c, S)]
             count == Signalled(Clusters24(S))
  <1>1. B \subseteq S
    BY DEF Bound, Past, Dated
  <1>2. DOMAIN count = {record[c] : c \in K} /\ DOMAIN record = K /\ Clusters24(S) = {record[c] : c \in K}
    BY DEF Clusters24, Signalled
  <1>3. \A c \in K : record[c].cluster = c /\ record[c].signals = Cardinality({s \in Past(S) : s.cluster = c})
    BY DEF ClusterAt
  <1>4. \A r \in DOMAIN count : count[r] = r.signals
    BY DEF Signalled
  <1>5. (\A s \in B : key[s] \in K) /\ (\A c \in K : \E s \in B : key[s] = c) /\ None \notin K
    BY DEF ClusterNames, Bound
  <1>6. \A c \in K : {s \in B : key[s] = c} = {s \in Past(S) : s.cluster = c}
    BY <1>5 DEF Bound
  <1>7. \A c \in K : count[record[c]] = Cardinality({s \in B : key[s] = c})
    BY <1>2, <1>3, <1>4, <1>6
  <1>8. \A c, d \in K : record[c] = record[d] => c = d
    BY <1>3
  <1>9. IsFiniteSet(B)
    BY <1>1, FS_Subset
  <1>10. K \subseteq {key[s] : s \in B} /\ DOMAIN key = B
    BY DEF ClusterNames, Bound
  <1> HIDE DEF B, K, key, record, count
  <1>11. SumOf(count) = Cardinality(B) /\ IsFiniteSet(DOMAIN count) /\ \A r \in DOMAIN count : count[r] \in Nat
    <2>1. DOMAIN record = K /\ DOMAIN count = {record[c] : c \in K}
      BY <1>2
    <2>2. \A s \in B : key[s] \in K
      BY <1>5
    <2>3. \A c \in K : \E s \in B : key[s] = c
      BY <1>5
    <2> QED
      BY <1>7, <1>8, <1>9, <2>1, <2>2, <2>3, CountedByKey, SMTT(60)
  <1>12. IsFiniteSet(K)
    <2>1. IsFiniteSet({key[s] : s \in B})
      BY <1>9, <1>10, ImageFinite
    <2> QED
      BY <1>10, <2>1, FS_Subset
  <1>13. Cardinality({record[c] : c \in K}) <= Cardinality(K) /\ Cardinality({record[c] : c \in K}) \in Nat
    BY <1>2, <1>12, ImageFinite
  <1>14. \A r \in DOMAIN count : r.signals \in Nat
    BY <1>4, <1>11
  <1> QED
    BY <1>2, <1>11, <1>12, <1>13, <1>14 DEF count, B, K

LEMMA ToldAddsUp ==
    ASSUME Heard(signals)
    PROVE  LET told == CorrelationSummary(signals, Day)
               shown == SumOf([c \in told.top |-> c.signals])
           IN  /\ shown <= told.clustered
               /\ told.clusters <= 10 /\ (\A s \in signals : s.ts # 0) => shown = told.clustered
  <1> DEFINE told == CorrelationSummary(signals, Day)
             all == Clusters24(signals)
             B == Bound(Past(signals))
             D == Bound(Dated(signals))
  <1>1. IsFiniteSet(signals)
    BY DEF Heard
  <1>2. /\ told.clustered = Cardinality(D) /\ told.clusters = Cardinality(ClusterNames(Dated(signals)))
        /\ told.top = Paged(Sized(all), all, 10)
    BY ToldIs
  <1>3. /\ SumOf(Signalled(all)) = Cardinality(B) /\ IsFiniteSet(all) /\ \A c \in all : c.signals \in Nat
        /\ Cardinality(all) <= Cardinality(ClusterNames(Past(signals)))
        /\ Cardinality(all) \in Nat /\ IsFiniteSet(ClusterNames(Past(signals)))
    BY <1>1, ClustersCount
  <1>4. B \subseteq D /\ D \subseteq signals
    BY DEF Bound, Past, Dated
  <1>5. IsFiniteSet(D) /\ Cardinality(B) <= Cardinality(D) /\ Cardinality(B) \in Nat /\ Cardinality(D) \in Nat
    <2>1. IsFiniteSet(D)
      BY <1>1, <1>4, FS_Subset
    <2> QED
      BY <1>4, <2>1, FS_Subset, FS_CardinalityType
  <1>6. told.top \subseteq all
    BY <1>2 DEF Paged
  <1> HIDE DEF told, all, B, D
  <1> DEFINE shown == [c \in told.top |-> c.signals]
  <1>7. SumOf(shown) <= Cardinality(B) /\ SumOf(shown) \in Nat
    <2>1. DOMAIN shown \subseteq DOMAIN Signalled(all) /\ DOMAIN Signalled(all) = all
      BY <1>6 DEF Signalled
    <2>2. (\A c \in all : Signalled(all)[c] = c.signals) /\ \A c \in DOMAIN shown : shown[c] = c.signals
      BY DEF Signalled
    <2> HIDE DEF shown
    <2>3. (\A c \in all : Signalled(all)[c] \in Nat) /\ \A c \in DOMAIN shown : shown[c] \in Nat /\ shown[c] <= Signalled(all)[c]
      BY <1>3, <2>1, <2>2
    <2>4. SumOf(shown) \in Nat /\ SumOf(shown) <= SumOf(Signalled(all))
      BY <1>3, <2>1, <2>3, SumsGrow
    <2> QED
      BY <1>3, <2>4
  <1>8. ASSUME told.clusters <= 10, \A s \in signals : s.ts # 0
        PROVE  SumOf(shown) = told.clustered
    <2>1. Past(signals) = Dated(signals)
      <3>1. \A s \in signals : s.ts # None => s.ts \in Int
        BY DEF Heard, IsSignal
      <3>2. Day - Day = 0
        BY DEF Day
      <3> QED
        BY <1>8, <3>1, <3>2 DEF Past, Dated
    <2>2. B = D /\ Cardinality(all) <= 10
      <3>1. Cardinality(ClusterNames(Past(signals))) \in Nat
        BY <1>3, FS_CardinalityType
      <3> QED
        BY <1>2, <1>3, <1>8, <2>1, <3>1 DEF B, D
    <2>3. Keyed(Sized(all), all)
      <3>1. \A c \in all : DOMAIN Sized(all)[c] = 1..1 /\ Sized(all)[c][1] = c.signals
        BY DEF Sized
      <3>2. \A c \in all : \A i \in 1..1 : Sized(all)[c][i] \in Int \cup {None}
        BY <1>3, <3>1
      <3> QED
        BY <3>1, <3>2 DEF Keyed
    <2>4. told.top = all
      BY <1>2, <1>3, <2>2, <2>3, WholePage
    <2>5. shown = Signalled(all)
      BY <2>4 DEF Signalled
    <2> QED
      BY <1>2, <1>3, <2>2, <2>5
  <1>9. SumOf(shown) <= told.clustered
    BY <1>2, <1>5, <1>7
  <1> HIDE DEF shown
  <1> QED
    BY <1>8, <1>9 DEF told, shown

LEMMA ViewsDoAddUp ==
    ASSUME IsFiniteSet(table), Heard(signals)
    PROVE  ViewsAddUp
  <1>1. DashboardSummary(table, narratives, alerts, Day).day = Cardinality(Within24(table, Day))
        /\ DashboardSummary(table, narratives, alerts, Day).total = Cardinality(table)
    BY DEF DashboardSummary
  <1> QED
    BY <1>1, DashAddsUp, FeltAddsUp, CountriesAddUp, UnscoredAddUp, ToldAddsUp DEF ViewsAddUp

-----------------------------------------------------------------------------
(* The dossier of an event adds up.                                        *)

\* What a timeline shows of one kind.
Marked(kind, S) == [kind : {kind}, item : S]
LEMMA MarkedCount ==
    ASSUME NEW S, IsFiniteSet(S), NEW kind
    PROVE  IsFiniteSet(Marked(kind, S)) /\ Cardinality(Marked(kind, S)) = Cardinality(S) /\ Cardinality(S) \in Nat
  <1> DEFINE M == Marked(kind, S)
             there == [x \in S |-> [kind |-> kind, item |-> x]]
             back == [m \in M |-> m.item]
  <1>1. M = {there[x] : x \in S} /\ DOMAIN there = S
    <2>1. \A x \in S : there[x] = [kind |-> kind, item |-> x] /\ there[x] \in M
      BY DEF Marked
    <2>2. \A m \in M : m = [kind |-> kind, item |-> m.item] /\ m.item \in S
      BY DEF Marked
    <2>3. \A m \in M : m = there[m.item] /\ m.item \in S
      BY <2>1, <2>2
    <2>4. DOMAIN there = S
      OBVIOUS
    <2> HIDE DEF M, there
    <2> QED
      BY <2>1, <2>3, <2>4
  <1>2. S = {back[m] : m \in M} /\ DOMAIN back = M
    <2>1. \A m \in M : m.item \in S
      BY DEF Marked
    <2>2. \A x \in S : [kind |-> kind, item |-> x] \in M /\ back[[kind |-> kind, item |-> x]] = x
      BY DEF Marked
    <2> HIDE DEF M
    <2> QED
      BY <2>1, <2>2
  <1> HIDE DEF M, there, back
  <1>3. IsFiniteSet(M) /\ Cardinality(M) <= Cardinality(S) /\ Cardinality(M) \in Nat
    BY <1>1, ImageFinite
  <1>4. Cardinality(S) <= Cardinality(M) /\ Cardinality(S) \in Nat
    BY <1>2, <1>3, ImageFinite
  <1> QED
    BY <1>3, <1>4 DEF M

LEMMA TwoApart ==
    ASSUME NEW S, IsFiniteSet(S), NEW T, IsFiniteSet(T), S \cap T = {}
    PROVE  IsFiniteSet(S \cup T) /\ Cardinality(S \cup T) = Cardinality(S) + Cardinality(T)
  <1>1. Cardinality(S \cup T) = Cardinality(S) + Cardinality(T) - Cardinality(S \cap T) /\ IsFiniteSet(S \cup T)
    BY FS_Union
  <1>2. Cardinality(S \cap T) = 0 /\ Cardinality(S) \in Nat /\ Cardinality(T) \in Nat
    BY FS_EmptySet, FS_CardinalityType
  <1> QED
    BY <1>1, <1>2

LEMMA TimelineCount ==
    ASSUME NEW N, IsFiniteSet(N), NEW P, IsFiniteSet(P), NEW M, IsFiniteSet(M), NEW T, IsFiniteSet(T)
    PROVE  Cardinality(Timeline(N, P, M, T)) = Cardinality(N) + Cardinality(P) + Cardinality(M) + Cardinality(T)
  <1> DEFINE n == Marked("news", N)
             p == Marked("social", P)
             m == Marked("physical", M)
             t == Marked("narrative", T)
  <1>1. Timeline(N, P, M, T) = ((n \cup p) \cup m) \cup t
    BY DEF Timeline, Marked
  <1>2. n \cap p = {} /\ (n \cup p) \cap m = {} /\ ((n \cup p) \cup m) \cap t = {}
    <2>1. /\ \A x \in n : x.kind = "news"
          /\ \A x \in p : x.kind = "social"
          /\ \A x \in m : x.kind = "physical"
          /\ \A x \in t : x.kind = "narrative"
      BY DEF Marked
    <2> HIDE DEF n, p, m, t
    <2> QED
      BY <2>1
  <1>3. IsFiniteSet(n) /\ Cardinality(n) = Cardinality(N) /\ IsFiniteSet(p) /\ Cardinality(p) = Cardinality(P)
    BY MarkedCount
  <1>4. IsFiniteSet(m) /\ Cardinality(m) = Cardinality(M) /\ IsFiniteSet(t) /\ Cardinality(t) = Cardinality(T)
    BY MarkedCount
  <1> HIDE DEF n, p, m, t
  <1>5. IsFiniteSet(n \cup p) /\ Cardinality(n \cup p) = Cardinality(n) + Cardinality(p)
    BY <1>2, <1>3, TwoApart
  <1>6. IsFiniteSet((n \cup p) \cup m) /\ Cardinality((n \cup p) \cup m) = Cardinality(n \cup p) + Cardinality(m)
    BY <1>2, <1>4, <1>5, TwoApart
  <1>7. Cardinality(((n \cup p) \cup m) \cup t) = Cardinality((n \cup p) \cup m) + Cardinality(t)
    BY <1>2, <1>4, <1>6, TwoApart
  <1> QED
    BY <1>1, <1>3, <1>4, <1>5, <1>6, <1>7

\* The related events of a store are finite and have the columns of reports.
LEMMA RelatedIn ==
    ASSUME NEW rows, Stores(rows), NEW base, NEW until
    PROVE  /\ IsFiniteSet(Related(base, rows, until))
           /\ \A e \in Related(base, rows, until) : IsReport(e)
  <1>1. Related(base, rows, until) \subseteq {RowToEvent(r) : r \in rows}
    BY DEF Related, Page
  <1>2. IsFiniteSet({RowToEvent(r) : r \in rows})
    BY RowsRead DEF Stores
  <1>3. \A r \in rows : IsReport(RowToEvent(r))
    BY EventOfReport DEF Stores, IsStored
  <1> QED
    BY <1>1, <1>2, <1>3, FS_Subset

LEMMA MoodIsNumber ==
    ASSUME NEW S, IsFiniteSet(S), \A e \in S : e.mood \in Int \cup {None}
    PROVE  MeanMood(S) \in Int
  <1> DEFINE felt == {e \in S : e.mood # None}
             f == [e \in felt |-> e.mood]
  <1>1. CASE felt = {}
    <2>1. MeanMood(S) = One \div 2
      BY <1>1 DEF MeanMood
    <2> QED
      BY <2>1 DEF One
  <1>2. CASE felt # {}
    <2>1. MeanMood(S) = SumOf(f) \div Cardinality(felt)
      BY <1>2 DEF MeanMood
    <2>2. IsFiniteSet(felt)
      BY FS_Subset
    <2>3. DOMAIN f = felt /\ \A e \in felt : f[e] \in Int
      OBVIOUS
    <2> HIDE DEF f, felt
    <2>4. SumOf(f) \in Int
      BY <2>2, <2>3, SumInt
    <2>5. Cardinality(felt) \in Nat \ {0}
      BY <1>2, <2>2, FS_CardinalityType, FS_EmptySet
    <2> QED
      BY <2>1, <2>4, <2>5
  <1> QED
    BY <1>1, <1>2

\* Two readings are apart by no more than everything.
LEMMA DivergenceBound ==
    ASSUME NEW news, IsFiniteSet(news), NEW posts, IsFiniteSet(posts),
           \A e \in news \cup posts : e.mood \in Int \cup {None}, NEW amplification \in Nat
    PROVE  Divergence(news, posts, amplification) \in 0..One
  <1> DEFINE apart == MeanMood(news) - MeanMood(posts)
             loud == amplification \div 40
             more == Min({350, loud})
             sum == (IF apart < 0 THEN -apart ELSE apart) + more
  <1>1. MeanMood(news) \in Int /\ MeanMood(posts) \in Int
    BY MoodIsNumber
  <1>2. apart \in Int
    BY <1>1
  <1>3. loud \in Nat
    OBVIOUS
  <1> HIDE DEF loud
  <1>4. more \in Nat
    <2>1. 350 \in Int /\ loud \in Int
      BY <1>3
    <2>2. Min({350, loud}) = IF 350 <= loud THEN 350 ELSE loud
      BY <2>1, Extremes
    <2> QED
      BY <1>3, <2>2
  <1> HIDE DEF more, apart
  <1>5. sum \in Nat
    BY <1>2, <1>4
  <1>6. Divergence(news, posts, amplification) = 0 \/ Divergence(news, posts, amplification) = Min({One, sum})
    BY DEF Divergence, apart, loud, more
  <1> HIDE DEF sum
  <1>7. One \in Nat
    BY DEF One
  <1>8. Min({One, sum}) \in 0..One
    <2>1. Min({One, sum}) = IF One <= sum THEN One ELSE sum
      BY <1>5, <1>7, Extremes
    <2> QED
      BY <1>5, <1>7, <2>1
  <1> QED
    BY <1>6, <1>7, <1>8

\* The signals of a dossier's clusters.
LEMMA GroupedAddUp ==
    ASSUME NEW S, IsFiniteSet(S), NEW news, NEW posts, Bound(S) # {}
    PROVE  SumOf([c \in NarrativeClusters(S, news, posts) |-> c.signals]) = Cardinality(Bound(S))
  <1> DEFINE B == Bound(S)
             K == ClusterNames(S)
             Z == NarrativeClusters(S, news, posts)
             key == [s \in B |-> s.cluster]
             record == [c \in K |-> [key |-> c, signals |-> Cardinality({s \in S : s.cluster = c}),
                                     sources |-> {s.source : s \in {x \in S : x.cluster = c}}]]
             count == [c \in Z |-> c.signals]
  <1>1. K # {}
    BY DEF ClusterNames, Bound
  <1>2. Z = {record[c] : c \in K} /\ DOMAIN record = K
    BY <1>1 DEF NarrativeClusters, ClusterNames
  <1>3. \A c \in K : record[c].key = c /\ record[c].signals = Cardinality({s \in S : s.cluster = c})
    OBVIOUS
  <1>4. \A s \in B : key[s] \in K
    BY DEF ClusterNames, Bound
  <1>5. \A c \in K : \E s \in B : key[s] = c
    BY DEF ClusterNames, Bound
  <1>6. \A c \in K : {s \in B : key[s] = c} = {s \in S : s.cluster = c}
    BY DEF ClusterNames, Bound
  <1>7. IsFiniteSet(B)
    BY FS_Subset DEF Bound
  <1>8. DOMAIN count = Z /\ \A r \in Z : count[r] = r.signals
    OBVIOUS
  <1> HIDE DEF record, count, key, B, K, Z
  <1>9. DOMAIN count = {record[c] : c \in K}
    BY <1>2, <1>8
  <1>10. \A c \in K : count[record[c]] = Cardinality({s \in B : key[s] = c})
    BY <1>2, <1>3, <1>6, <1>8
  <1>11. \A c, d \in K : record[c] = record[d] => c = d
    BY <1>3
  <1>12. DOMAIN record = K
    BY <1>2
  <1>13. SumOf(count) = Cardinality(B)
    BY <1>4, <1>5, <1>7, <1>9, <1>10, <1>11, <1>12, CountedByKey, SMTT(60)
  <1> QED
    BY <1>13 DEF count, Z, B

LEMMA ViewDoesAddUp ==
    ASSUME NEW rows, Stores(rows), NEW N, Stories(N), NEW S, Heard(S), NEW base, NEW until, NEW things
    PROVE  ViewAddsUp(ViewSince(base, rows, N, things, S, until))
  <1> DEFINE R == Related(base, rows, until)
             news == NewsOf(base, R)
             posts == {e \in R : IsSocial(e)}
             physical == {e \in R : IsPhysical(e)}
             told == RelatedNarratives(base, N, until)
             found == RelatedSignals({base.id} \cup {e.id : e \in R}, S, base.ts, until)
             amplified == InfluencerAmplification(posts)
             d == ViewSince(base, rows, N, things, S, until)
  <1>1. /\ d.news = news /\ d.posts = posts /\ d.physical = physical /\ d.narratives = told /\ d.signals = found
        /\ d.timeline = Timeline(news, posts, physical, told) /\ d.clusters = NarrativeClusters(found, news, posts)
        /\ d.divergence = Divergence(news, posts, amplified)
    BY DEF ViewSince, EventView, NewsOf
  <1>2. news \subseteq R /\ posts \subseteq R /\ physical \subseteq R
    BY DEF NewsOf, Page
  <1>3. told \subseteq N
    BY DEF RelatedNarratives, Page
  <1>4. found \subseteq S
    BY DEF RelatedSignals, Page
  <1>5. IsFiniteSet(R) /\ \A e \in R : e.mood \in Int \cup {None}
    BY RelatedIn DEF IsReport
  <1>6. IsFiniteSet(N) /\ IsFiniteSet(S)
    BY DEF Stories, Heard
  <1> HIDE DEF d, news, posts, physical, told, found, R
  <1>7. IsFiniteSet(news) /\ IsFiniteSet(posts) /\ IsFiniteSet(physical)
    BY <1>2, <1>5, FS_Subset
  <1>8. IsFiniteSet(told) /\ IsFiniteSet(found)
    BY <1>3, <1>4, <1>6, FS_Subset
  <1>9. Cardinality(d.timeline)
               = Cardinality(d.news) + Cardinality(d.posts) + Cardinality(d.physical) + Cardinality(d.narratives)
    BY <1>1, <1>7, <1>8, TimelineCount
  <1>10. d.divergence \in 0..One
    <2>1. amplified \in Nat
      BY <1>7, AmplificationGrows
    <2>2. \A e \in news \cup posts : e.mood \in Int \cup {None}
      BY <1>2, <1>5
    <2> HIDE DEF amplified
    <2> QED
      BY <1>1, <1>7, <2>1, <2>2, DivergenceBound
  <1>11. Bound(found) # {} => SumOf([c \in d.clusters |-> c.signals]) = Cardinality(Bound(found))
    BY <1>1, <1>8, GroupedAddUp
  <1>12. Bound(found) = {s \in d.signals : s.cluster # None}
    BY <1>1 DEF Bound
  <1>13. ViewAddsUp(d)
    BY <1>9, <1>10, <1>11, <1>12 DEF ViewAddsUp
  <1> QED
    BY <1>13 DEF d

\* An event that is read has a place if one can be told.
LEMMA ReadIsPlaced ==
    ASSUME NEW e, IsReport(e)
    PROVE  Placed(ApplyGeocoding(e))
  <1> DEFINE p == ApplyGeocoding(e)
  <1>1. /\ p.at = ResolveEventCoords(e) /\ p.actors = e.actors /\ p.place = e.place /\ p.sourcecountry = e.sourcecountry
        /\ p.region = e.region /\ p.country = e.country /\ p.domain = e.domain
    BY DEF ApplyGeocoding, IsReport, IsEvent, EventFields
  <1>2. AreActors(e.actors)
    BY DEF IsReport, IsEvent
  <1> HIDE DEF p
  <1>3. ASSUME p.at = None
        PROVE  ResolveEventCoords(p) = None
    <2>1. Nowhere(e)
      BY <1>1, <1>2, <1>3, CoordsNone
    <2>2. Nowhere(p) /\ AreActors(p.actors)
      BY <1>1, <1>2, <1>3, <2>1 DEF Nowhere
    <2> QED
      BY <2>2, CoordsNone
  <1>4. Placed(p)
    BY <1>3 DEF Placed
  <1> QED
    BY <1>4 DEF p

-----------------------------------------------------------------------------
(* What posts say of an event.                                             *)

LEMMA ProductFinite ==
    ASSUME NEW S, IsFiniteSet(S), NEW T, IsFiniteSet(T)
    PROVE  IsFiniteSet(S \X T)
  <1> DEFINE Good == {s \in SUBSET S : IsFiniteSet(s \X T)}
  <1>1. {} \in Good
    <2>1. {} \X T = {}
      OBVIOUS
    <2> QED
      BY <2>1, FS_EmptySet
  <1>2. ASSUME NEW s \in SUBSET S, s # {}, \A x \in s : s \ {x} \in Good
        PROVE  s \in Good
    <2>1. PICK x \in s : TRUE
      BY <1>2
    <2> DEFINE row == [t \in T |-> <<x, t>>]
    <2>2. s \X T = ((s \ {x}) \X T) \cup {row[t] : t \in T}
      OBVIOUS
    <2>3. DOMAIN row = T
      OBVIOUS
    <2> HIDE DEF row
    <2>4. IsFiniteSet({row[t] : t \in T})
      BY <2>3, ImageFinite
    <2>5. IsFiniteSet((s \ {x}) \X T)
      BY <1>2, <2>1
    <2>6. IsFiniteSet(((s \ {x}) \X T) \cup {row[t] : t \in T})
      BY <2>4, <2>5, FS_Union
    <2>7. IsFiniteSet(s \X T)
      BY <2>2, <2>6
    <2> QED
      BY <2>7
  <1>3. SUBSET S \subseteq Good
    <2> HIDE DEF Good
    <2> QED
      BY <1>1, <1>2, PartsInduction
  <1> QED
    BY <1>3

LEMMA CapOne ==
    ASSUME NEW n \in Nat
    PROVE  Min({One, n}) \in 0..One
  <1>1. One \in Nat
    BY DEF One
  <1>2. Min({One, n}) \in Nat /\ Min({One, n}) <= One
    BY <1>1, CapNat
  <1> QED
    BY <1>1, <1>2

LEMMA MessagingIs ==
    ASSUME NEW posts, IsFiniteSet(posts)
    PROVE  \E n \in Nat : Messaging(posts) \in {{}, {[type |-> "propaganda", confidence |-> Min({One, n})]}}
  <1> DEFINE some == {y \in posts \X posts : y[1] # y[2] /\ y[1].words # {} /\ y[2].words # {}}
             pair == [x \in some |-> {x[1], x[2]}]
             pairs == {pair[x] : x \in some}
             alike == {pq \in pairs : \E p, q \in pq : /\ p # q
                         /\ 100 * Cardinality(p.words \cap q.words) > 45 * Cardinality(p.words \cup q.words)}
             titled == {p \in posts : p.words # {}}
             n == (2500 * Cardinality(alike)) \div Cardinality(pairs)
  <1>1. pairs = {{x[1], x[2]} : x \in some} /\ DOMAIN pair = some
    OBVIOUS
  <1>2. Messaging(posts) = IF Cardinality(titled) >= 3 /\ 4 * Cardinality(alike) > Cardinality(pairs)
                             THEN {[type |-> "propaganda", confidence |-> Min({One, n})]} ELSE {}
    <2> DEFINE raw == {{x[1], x[2]} : x \in some}
    <2>1. Messaging(posts)
            = IF Cardinality(titled) >= 3 /\ 4 * Cardinality({pq \in raw : \E p, q \in pq : /\ p # q
                   /\ 100 * Cardinality(p.words \cap q.words) > 45 * Cardinality(p.words \cup q.words)}) > Cardinality(raw)
                THEN {[type |-> "propaganda", confidence |-> Min({One, (2500 * Cardinality({pq \in raw : \E p, q \in pq : /\ p # q
                   /\ 100 * Cardinality(p.words \cap q.words) > 45 * Cardinality(p.words \cup q.words)})) \div Cardinality(raw)})]}
                ELSE {}
      BY DEF Messaging
    <2>2. raw = pairs
      BY <1>1
    <2> HIDE DEF raw, pairs
    <2> QED
      BY <2>1, <2>2
  <1>3. IsFiniteSet(some)
    BY ProductFinite, FS_Subset
  <1>4. alike \subseteq pairs
    OBVIOUS
  <1> HIDE DEF some, pair
  <1>5. IsFiniteSet(pairs)
    BY <1>1, <1>3, ImageFinite
  <1> HIDE DEF pairs, alike, titled
  <1>6. Cardinality(pairs) \in Nat /\ Cardinality(alike) \in Nat /\ Cardinality(alike) <= Cardinality(pairs)
    BY <1>4, <1>5, FS_Subset, FS_CardinalityType
  <1>7. CASE Cardinality(pairs) = 0
    <2>1. Messaging(posts) = {}
      BY <1>2, <1>6, <1>7
    <2> QED
      BY <2>1
  <1>8. CASE Cardinality(pairs) # 0
    <2>1. n \in Nat
      BY <1>6, <1>8
    <2> HIDE DEF n
    <2> QED
      BY <1>2, <2>1
  <1> QED
    BY <1>7, <1>8

LEMMA InfluenceIs ==
    ASSUME NEW posts, IsFiniteSet(posts), posts # {}
    PROVE  \E n \in Nat : Influence(posts) \in {{}, {[type |-> "influence", confidence |-> Min({One, n})]}}
  <1> DEFINE loud == {p \in posts : p.id \in DOMAIN Engagement /\
                         (Engagement[p.id].score > 500 \/ Engagement[p.id].upvoted > 920)}
             n == (3 * One * Cardinality(loud)) \div Cardinality(posts)
  <1>1. Influence(posts) = IF loud # {} THEN {[type |-> "influence", confidence |-> Min({One, n})]} ELSE {}
    BY DEF Influence
  <1>2. IsFiniteSet(loud)
    BY FS_Subset
  <1> HIDE DEF loud
  <1>3. Cardinality(loud) \in Nat /\ Cardinality(posts) \in Nat \ {0}
    BY <1>2, FS_CardinalityType, FS_EmptySet
  <1>4. n \in Nat
    BY <1>3 DEF One
  <1> HIDE DEF n
  <1> QED
    BY <1>1, <1>4

\* The surest of what is said is said.
LEMMA VerdictIs ==
    ASSUME NEW a, NEW b, NEW M \in {{}, {a}}, NEW I \in {{}, {b}}, a.confidence \in 0..One, b.confidence \in 0..One
    PROVE  Verdict(M \cup I).confidence \in 0..One
  <1>1. CASE M \cup I = {}
    BY <1>1 DEF Verdict, One
  <1>2. CASE M \cup I # {}
    <2>1. 0..One \subseteq Int
      BY DEF One
    <2>2. \E s \in M \cup I : \A t \in M \cup I : t.confidence <= s.confidence
      BY <1>2, <2>1
    <2> DEFINE top == CHOOSE s \in M \cup I : \A t \in M \cup I : t.confidence <= s.confidence
    <2>3. top \in M \cup I
      BY <2>2
    <2>4. Verdict(M \cup I) = [label |-> top.type, confidence |-> top.confidence]
      BY <1>2 DEF Verdict
    <2> HIDE DEF top
    <2>5. top.confidence \in 0..One
      BY <2>3
    <2> QED
      BY <2>4, <2>5
  <1> QED
    BY <1>1, <1>2

LEMMA NarrativeIsCertain ==
    ASSUME NEW posts, IsFiniteSet(posts), Cardinality(posts) <= 4
    PROVE  ClassifySocialNarrative(posts).confidence \in 0..One
  <1>1. CASE posts = {}
    BY <1>1 DEF ClassifySocialNarrative, One
  <1>2. CASE posts # {}
    <2>1. PICK m \in Nat : Messaging(posts) \in {{}, {[type |-> "propaganda", confidence |-> Min({One, m})]}}
      BY MessagingIs
    <2>2. PICK i \in Nat : Influence(posts) \in {{}, {[type |-> "influence", confidence |-> Min({One, i})]}}
      BY <1>2, InfluenceIs
    <2>3. Herd(posts) = {}
      <3>1. ~(Cardinality(posts) >= 5)
        BY FS_CardinalityType
      <3> QED
        BY <3>1 DEF Herd
    <2> DEFINE a == [type |-> "propaganda", confidence |-> Min({One, m})]
               b == [type |-> "influence", confidence |-> Min({One, i})]
    <2>4. a.confidence \in 0..One /\ b.confidence \in 0..One
      BY CapOne
    <2>5. Messaging(posts) \in {{}, {a}} /\ Influence(posts) \in {{}, {b}}
      BY <2>1, <2>2
    <2> HIDE DEF a, b
    <2>6. Verdict(Messaging(posts) \cup Influence(posts)).confidence \in 0..One
      BY <2>4, <2>5, VerdictIs
    <2>7. (Messaging(posts) \cup Herd(posts)) \cup Influence(posts) = Messaging(posts) \cup Influence(posts)
      BY <2>3
    <2> QED
      BY <1>2, <2>6, <2>7 DEF ClassifySocialNarrative
  <1> QED
    BY <1>1, <1>2

LEMMA NamesOfFinite ==
    ASSUME NEW e, IsReport(e)
    PROVE  IsFiniteSet(NamesOf(e))
  <1> DEFINE n == [i \in DOMAIN e.actors |-> e.actors[i].name]
  <1>1. NamesOf(e) = {n[i] : i \in DOMAIN e.actors} /\ DOMAIN n = DOMAIN e.actors
    BY DEF NamesOf
  <1>2. IsFiniteSet(DOMAIN e.actors)
    <2>1. PICK len \in Nat : DOMAIN e.actors = 1..len
      BY DEF IsReport, IsEvent, AreActors
    <2> QED
      BY <2>1, FS_Interval
  <1> HIDE DEF n
  <1> QED
    BY <1>1, <1>2, ImageFinite

LEMMA RelevanceIsNumber ==
    ASSUME NEW keywords, IsFiniteSet(keywords), NEW post, IsFiniteSet(post.words)
    PROVE  Relevance(keywords, post) \in Int
  <1> DEFINE both == keywords \cap post.words
             n == Cardinality(keywords)
  <1>1. IsFiniteSet(both)
    BY FS_Subset
  <1> HIDE DEF both
  <1>2. Cardinality(both) \in Nat /\ n \in Nat
    BY <1>1, FS_CardinalityType
  <1>3. Relevance(keywords, post) = (One * Cardinality(both)) \div Max({n, 1})
    BY DEF Relevance, both
  <1> HIDE DEF n
  <1>4. Max({n, 1}) = IF n >= 1 THEN n ELSE 1
    BY <1>2, Extremes
  <1>5. Max({n, 1}) \in Nat \ {0}
    BY <1>2, <1>4
  <1>6. One * Cardinality(both) \in Nat
    BY <1>2 DEF One
  <1> QED
    BY <1>3, <1>5, <1>6

LEMMA ReactionsDoAddUp ==
    ASSUME NEW r, IsReport(r), NEW N
    PROVE  ReactionsAddUp(EventSocial(RowToEvent(r), Fetched, N, 4))
  <1> DEFINE e == RowToEvent(r)
             keywords == SocialKeywords(e)
             heard == IF keywords = {} THEN {} ELSE Fetched
             k == [p \in heard |-> <<Relevance(keywords, p), p.id>>]
             posts == Paged(k, heard, 4)
             social == EventSocial(e, Fetched, N, 4)
  <1>1. IsReport(e)
    BY EventOfReport
  <1> HIDE DEF e
  <1>2. IsFiniteSet(keywords)
    <2>1. IsFiniteSet(NamesOf(e)) /\ IsFiniteSet(e.words) /\ IsFiniteSet(e.tags)
      BY <1>1, NamesOfFinite DEF IsReport
    <2> QED
      BY <2>1, FS_Union DEF SocialKeywords
  <1>3. social.posts = posts /\ social.narrative = ClassifySocialNarrative(social.posts)
    BY DEF EventSocial, Page, Rank, Paged, Place
  <1> HIDE DEF keywords
  <1>4. IsFiniteSet(heard) /\ \A p \in heard : p.id \in Int /\ IsFiniteSet(p.words)
    BY FoundAssumption, FS_EmptySet
  <1>5. \A p, q \in heard : p.id = q.id => p = q
    BY FoundAssumption
  <1>6. \A p \in heard : DOMAIN k[p] = 1..2 /\ k[p][1] = Relevance(keywords, p) /\ k[p][2] = p.id
    OBVIOUS
  <1> HIDE DEF heard, k, posts, social
  <1>7. Keyed(k, heard)
    <2>1. \A p \in heard : Relevance(keywords, p) \in Int
      BY <1>2, <1>4, RelevanceIsNumber
    <2>2. \A p \in heard : \A i \in 1..2 : k[p][i] \in Int \cup {None}
      BY <1>4, <1>6, <2>1
    <2> QED
      BY <1>6, <2>2 DEF Keyed
  <1>8. Telling(k, heard)
    BY <1>5, <1>6 DEF Telling
  <1>9. IsFiniteSet(posts) /\ Cardinality(posts) <= 4
    BY <1>4, <1>7, <1>8, PageHolds DEF posts
  <1>10. ReactionsAddUp(social)
    BY <1>3, <1>9, NarrativeIsCertain DEF ReactionsAddUp
  <1> QED
    BY <1>10 DEF social, e

LEMMA DossierDoesAddUp ==
    ASSUME Stores(table), Stories(narratives), Heard(signals)
    PROVE  DossierAddsUp
  <1> SUFFICES ASSUME NEW r \in table
               PROVE  /\ ViewAddsUp(BuildEventView(r.id, table, narratives, assets, signals, Horizon, Day))
                      /\ ReactionsAddUp(EventSocial(RowToEvent(r), Fetched, narratives, 4))
                      /\ Placed(GetEvent(r.id, table))
    BY DEF DossierAddsUp
  <1>1. IsReport(r) /\ (CHOOSE x \in table : x.id = r.id) = r /\ {x \in table : x.id = r.id} = {r}
    BY DEF Stores, IsStored
  <1>2. ViewAddsUp(BuildEventView(r.id, table, narratives, assets, signals, Horizon, Day))
    <2> DEFINE row == RowToEvent(r)
               from == FirstOf(<<row.ts, Day>>)
               base == [row EXCEPT !.ts = from]
    <2>1. BuildEventView(r.id, table, narratives, assets, signals, Horizon, Day)
             = ViewSince(base, table, narratives, assets, signals, from + Horizon)
      BY <1>1 DEF BuildEventView
    <2> HIDE DEF base, from
    <2> QED
      BY <2>1, ViewDoesAddUp
  <1>3. ReactionsAddUp(EventSocial(RowToEvent(r), Fetched, narratives, 4))
    BY <1>1, ReactionsDoAddUp
  <1>4. GetEvent(r.id, table) = ApplyGeocoding(RowToEvent(r))
    <2>1. (CHOOSE x \in {r} : TRUE) = r
      OBVIOUS
    <2> QED
      BY <1>1, <2>1 DEF GetEvent
  <1>5. Placed(GetEvent(r.id, table))
    BY <1>1, <1>4, EventOfReport, ReadIsPlaced
  <1> QED
    BY <1>2, <1>3, <1>5

-----------------------------------------------------------------------------
(* Families take turns.                                                    *)

\* Those of a family that come before e, in the order R.
Ahead(e, R, fam, E) == {x \in E : fam[x] = fam[e] /\ <<x, e>> \in R}
Kin(e, fam, C) == {x \in C : fam[x] = fam[e]}

LEMMA AheadGrows ==
    ASSUME NEW E, IsFiniteSet(E), NEW fam, NEW R, Orders(R, E)
    PROVE  /\ \A e \in E : IsFiniteSet(Ahead(e, R, fam, E)) /\ Cardinality(Ahead(e, R, fam, E)) \in Nat
           /\ \A x, y \in E : fam[x] = fam[y] /\ <<x, y>> \in R
                => Cardinality(Ahead(x, R, fam, E)) < Cardinality(Ahead(y, R, fam, E))
  <1>1. ASSUME NEW e \in E
        PROVE  IsFiniteSet(Ahead(e, R, fam, E)) /\ Cardinality(Ahead(e, R, fam, E)) \in Nat
    <2>1. Ahead(e, R, fam, E) \subseteq E
      BY DEF Ahead
    <2>2. IsFiniteSet(Ahead(e, R, fam, E))
      BY <2>1, FS_Subset
    <2> QED
      BY <2>2, FS_CardinalityType
  <1>2. ASSUME NEW x \in E, NEW y \in E, fam[x] = fam[y], <<x, y>> \in R
        PROVE  Cardinality(Ahead(x, R, fam, E)) < Cardinality(Ahead(y, R, fam, E))
    <2> DEFINE X == Ahead(x, R, fam, E)
               Y == Ahead(y, R, fam, E)
    <2>1. X \subseteq Y /\ x \in Y /\ x \notin X
      BY <1>2 DEF Ahead, Orders
    <2>2. IsFiniteSet(X) /\ IsFiniteSet(Y) /\ Cardinality(X) \in Nat /\ Cardinality(Y) \in Nat
      BY <1>1
    <2> HIDE DEF X, Y
    <2>3. Cardinality(X) <= Cardinality(Y) /\ Cardinality(X) # Cardinality(Y)
      BY <2>1, <2>2, FS_Subset
    <2>4. Cardinality(X) < Cardinality(Y)
      BY <2>2, <2>3
    <2> QED
      BY <2>4 DEF X, Y
  <1> QED
    BY <1>1, <1>2

\* If whoever is chosen has no more ahead of him than whoever is not, the
\* families of the chosen have shares that differ by one at most.
LEMMA SharesAreFair ==
    ASSUME NEW E, IsFiniteSet(E), NEW fam, NEW R, Orders(R, E), NEW C \in SUBSET E,
           \A x \in C, e \in E \ C : Cardinality(Ahead(x, R, fam, E)) <= Cardinality(Ahead(e, R, fam, E)),
           NEW e \in E \ C, NEW f \in C
    PROVE  Cardinality(Kin(f, fam, C)) <= Cardinality(Kin(e, fam, C)) + 1
  <1> DEFINE rank(x) == Cardinality(Ahead(x, R, fam, E))
             G == Kin(e, fam, E \ C)
             K == Kin(f, fam, C)
             ranksG == {rank(x) : x \in G}
             ranksK == {rank(x) : x \in K}
  <1>1. \A x \in E : IsFiniteSet(Ahead(x, R, fam, E)) /\ rank(x) \in Nat
    BY AheadGrows
  <1>2. \A x, y \in E : fam[x] = fam[y] /\ <<x, y>> \in R => rank(x) < rank(y)
    BY AheadGrows
  <1>3. e \in G /\ G \subseteq E \ C /\ f \in K /\ K \subseteq C /\ (\A x \in G : fam[x] = fam[e]) /\ \A x \in K : fam[x] = fam[f]
    BY DEF Kin
  <1>4. IsFiniteSet(C)
    BY FS_Subset
  <1>5. IsFiniteSet(K) /\ Cardinality(K) \in Nat
    <2>1. IsFiniteSet(K)
      BY <1>3, <1>4, FS_Subset
    <2> QED
      BY <2>1, FS_CardinalityType
  <1>6. IsFiniteSet(Kin(e, fam, C)) /\ Cardinality(Kin(e, fam, C)) \in Nat
    <2>1. IsFiniteSet(Kin(e, fam, C))
      BY <1>4, FS_Subset DEF Kin
    <2> QED
      BY <2>1, FS_CardinalityType
  \* Of his family, everybody ahead of the first who is not chosen is.
  <1>7. PICK u \in G : \A x \in G : rank(u) <= rank(x)
    <2>1. ranksG \in SUBSET Nat /\ ranksG # {}
      BY <1>1, <1>3
    <2> HIDE DEF ranksG
    <2>2. \E m \in ranksG : \A n \in ranksG : m <= n
      BY <2>1, Least
    <2> QED
      BY <2>2 DEF ranksG
  <1>8. Ahead(u, R, fam, E) \subseteq Kin(e, fam, C)
    <2> SUFFICES ASSUME NEW x \in Ahead(u, R, fam, E) PROVE x \in Kin(e, fam, C)
      OBVIOUS
    <2>1. x \in E /\ u \in E /\ fam[x] = fam[u] /\ <<x, u>> \in R /\ fam[u] = fam[e]
      BY <1>3, <1>7 DEF Ahead
    <2>2. rank(x) < rank(u) /\ rank(x) \in Nat /\ rank(u) \in Nat
      BY <1>1, <1>2, <2>1
    <2>3. x \notin G
      BY <1>7, <2>2
    <2> QED
      BY <2>1, <2>3 DEF Kin
  <1>9. rank(u) <= Cardinality(Kin(e, fam, C))
    BY <1>6, <1>8, FS_Subset
  \* Of the other family, everybody chosen is the last of them or ahead of him.
  <1>10. PICK v \in K : \A x \in K : rank(x) <= rank(v)
    <2>1. \A x \in K : rank(x) \in Nat /\ rank(x) <= rank(u)
      BY <1>1, <1>3, <1>7
    <2>2. ranksK \in SUBSET Nat /\ ranksK # {} /\ \A n \in ranksK : n <= rank(u)
      BY <1>3, <2>1
    <2>3. rank(u) \in Nat
      BY <1>1, <1>3, <1>7
    <2> HIDE DEF ranksK, rank
    <2>4. Max(ranksK) \in ranksK /\ \A n \in ranksK : n <= Max(ranksK)
      BY <2>2, <2>3, Greatest
    <2> QED
      BY <2>4 DEF ranksK
  <1>11. K \subseteq Ahead(v, R, fam, E) \cup {v}
    <2> SUFFICES ASSUME NEW x \in K, x # v PROVE x \in Ahead(v, R, fam, E)
      OBVIOUS
    <2>1. x \in E /\ v \in E /\ fam[x] = fam[v]
      BY <1>3, <1>10
    <2>2. rank(x) <= rank(v) /\ rank(x) \in Nat /\ rank(v) \in Nat
      BY <1>1, <1>10, <2>1
    <2>3. <<v, x>> \notin R
      BY <1>2, <2>1, <2>2
    <2>4. <<x, v>> \in R
      BY <2>1, <2>3 DEF Orders
    <2> QED
      BY <2>1, <2>4 DEF Ahead
  <1>12. Cardinality(K) <= rank(v) + 1
    <2> DEFINE A == Ahead(v, R, fam, E)
    <2>1. IsFiniteSet(A) /\ Cardinality(A) \in Nat
      BY <1>1, <1>3, <1>10
    <2> HIDE DEF A
    <2>2. IsFiniteSet(A \cup {v}) /\ Cardinality(A \cup {v}) <= Cardinality(A) + 1 /\ Cardinality(A \cup {v}) \in Nat
      <3>1. IsFiniteSet(A \cup {v}) /\ Cardinality(A \cup {v}) = IF v \in A THEN Cardinality(A) ELSE Cardinality(A) + 1
        BY <2>1, FS_AddElement
      <3> QED
        BY <2>1, <3>1
    <2>3. Cardinality(K) <= Cardinality(A \cup {v})
      BY <1>11, <2>2, FS_Subset DEF A
    <2>4. Cardinality(K) <= Cardinality(A) + 1
      BY <1>5, <2>1, <2>2, <2>3
    <2> QED
      BY <2>4 DEF A
  <1>13. rank(v) <= rank(u) /\ rank(v) \in Nat /\ rank(u) \in Nat
    BY <1>1, <1>3, <1>7, <1>10
  <1> HIDE DEF rank, K
  <1>14. Cardinality(K) <= Cardinality(Kin(e, fam, C)) + 1
    BY <1>5, <1>6, <1>9, <1>12, <1>13
  <1> QED
    BY <1>14 DEF K

-----------------------------------------------------------------------------
(* The turns of the events of a workspace.                                 *)
FamilyPlace(f) == CHOOSE i \in DOMAIN FamilyOrder : FamilyOrder[i] = f
FamilyIn(E) == [e \in E |-> WorkspaceFamily(e.source)]
ThreatKey(E) == [e \in E |-> <<e.risk, e.ts, e.id>>]
TurnIn(E) == [e \in E |-> <<-Cardinality(Ahead(e, Precedes(ThreatKey(E), E), FamilyIn(E), E)), -FamilyPlace(FamilyIn(E)[e])>>]

\* Events to take turns: they have the columns of reports, and their families
\* a place.
Comparable(E) ==
    /\ IsFiniteSet(E) /\ \A e, x \in E : e.id = x.id => e = x
    /\ \A e \in E : IsReport(e) /\ WorkspaceFamily(e.source) \in Range(FamilyOrder)

LEMMA BalancedIs ==
    ASSUME NEW E, NEW n
    PROVE  BalancedEvents(E, n) = Paged(TurnIn(E), E, n)
  <1> DEFINE R == Precedes(ThreatKey(E), E)
             k == [e \in E |-> Turn(e, E)]
  <1>1. BalancedEvents(E, n) = Paged(k, E, n)
    BY DEF BalancedEvents, Page, Rank, Paged, Place
  <1>2. ASSUME NEW e \in E
        PROVE  Turn(e, E) = <<-Cardinality(Ahead(e, R, FamilyIn(E), E)), -FamilyPlace(FamilyIn(E)[e])>>
    <2> DEFINE own == {x \in E : WorkspaceFamily(x.source) = WorkspaceFamily(e.source)}
               ahead == {x \in own : Before(<<x.risk, x.ts, x.id>>, <<e.risk, e.ts, e.id>>)}
    <2>1. Turn(e, E) = <<-Cardinality(ahead), -FamilyPlace(WorkspaceFamily(e.source))>>
      BY DEF Turn, Rank, FamilyPlace
    <2>2. \A x \in E : <<x, e>> \in R <=> Before(<<x.risk, x.ts, x.id>>, <<e.risk, e.ts, e.id>>)
      BY DEF Precedes, ThreatKey
    <2>3. \A x \in E : FamilyIn(E)[x] = WorkspaceFamily(x.source)
      BY DEF FamilyIn
    <2> HIDE DEF R
    <2>4. ahead = Ahead(e, R, FamilyIn(E), E)
      BY <2>2, <2>3 DEF Ahead
    <2> HIDE DEF ahead
    <2> QED
      BY <2>1, <2>3, <2>4
  <1>3. k = TurnIn(E)
    BY <1>2 DEF TurnIn
  <1> QED
    BY <1>1, <1>3

LEMMA PlacesDiffer ==
    \A f \in Range(FamilyOrder) : FamilyPlace(f) \in Nat /\ FamilyOrder[FamilyPlace(f)] = f
  <1> SUFFICES ASSUME NEW f \in Range(FamilyOrder) PROVE FamilyPlace(f) \in Nat /\ FamilyOrder[FamilyPlace(f)] = f
    OBVIOUS
  <1>1. \E i \in DOMAIN FamilyOrder : FamilyOrder[i] = f
    BY DEF Range
  <1>2. FamilyPlace(f) \in DOMAIN FamilyOrder /\ FamilyOrder[FamilyPlace(f)] = f
    BY <1>1 DEF FamilyPlace
  <1>3. DOMAIN FamilyOrder \subseteq Nat
    <2>1. FamilyOrder \in Seq(Range(FamilyOrder))
      BY FamilyOrderAssumption
    <2> QED
      BY <2>1
  <1> QED
    BY <1>2, <1>3

LEMMA ThreatOrders ==
    ASSUME NEW E, Comparable(E)
    PROVE  Orders(Precedes(ThreatKey(E), E), E)
  <1> DEFINE k == ThreatKey(E)
  <1>1. \A e \in E : DOMAIN k[e] = 1..3 /\ k[e][1] = e.risk /\ k[e][2] = e.ts /\ k[e][3] = e.id
    BY DEF ThreatKey
  <1>2. \A e \in E : e.risk \in Int /\ e.ts \in Int \cup {None} /\ e.id \in Int
    BY DEF Comparable, IsReport, IsEvent
  <1> HIDE DEF k
  <1>3. Keyed(k, E)
    <2>1. \A e \in E : \A i \in 1..3 : k[e][i] \in Int \cup {None}
      BY <1>1, <1>2
    <2> QED
      BY <1>1, <2>1 DEF Keyed
  <1>4. Telling(k, E)
    BY <1>1 DEF Telling, Comparable
  <1>5. Orders(Precedes(k, E), E)
    BY <1>3, <1>4, BeforeOrders
  <1> QED
    BY <1>5 DEF k

LEMMA BalancedIsFair ==
    ASSUME NEW E, Comparable(E), NEW n \in Nat, NEW e \in E \ BalancedEvents(E, n), NEW x \in BalancedEvents(E, n)
    PROVE  FamilyShare(BalancedEvents(E, n), WorkspaceFamily(x.source))
             <= FamilyShare(BalancedEvents(E, n), WorkspaceFamily(e.source)) + 1
  <1> DEFINE R == Precedes(ThreatKey(E), E)
             fam == FamilyIn(E)
             C == Paged(TurnIn(E), E, n)
             k == TurnIn(E)
             rank(y) == Cardinality(Ahead(y, R, fam, E))
  <1>1. BalancedEvents(E, n) = C
    BY BalancedIs
  <1>2. IsFiniteSet(E) /\ C \subseteq E
    BY DEF Comparable, Paged
  <1>3. Orders(R, E)
    BY ThreatOrders
  <1>4. \A y \in E : fam[y] = WorkspaceFamily(y.source)
    BY DEF FamilyIn
  <1>5. \A y \in E : DOMAIN k[y] = 1..2 /\ k[y][1] = -rank(y) /\ k[y][2] = -FamilyPlace(fam[y])
    BY DEF TurnIn
  <1>6. \A y \in E : FamilyPlace(fam[y]) \in Nat /\ FamilyOrder[FamilyPlace(fam[y])] = fam[y]
    BY <1>4, PlacesDiffer DEF Comparable
  <1> HIDE DEF R, fam, C, k
  <1>7. /\ \A y \in E : rank(y) \in Nat
        /\ \A y, z \in E : fam[y] = fam[z] /\ <<y, z>> \in R => rank(y) < rank(z)
    BY <1>2, <1>3, AheadGrows
  <1> HIDE DEF rank
  <1>8. Keyed(k, E)
    <2>1. \A y \in E : \A i \in 1..2 : k[y][i] \in Int \cup {None}
      BY <1>5, <1>6, <1>7
    <2> QED
      BY <1>5, <2>1 DEF Keyed
  <1>9. Telling(k, E)
    <2> SUFFICES ASSUME NEW y \in E, NEW z \in E, \A i \in DOMAIN k[y] : k[y][i] = k[z][i] PROVE y = z
      BY DEF Telling
    <2>1. -rank(y) = -rank(z) /\ -FamilyPlace(fam[y]) = -FamilyPlace(fam[z])
      BY <1>5
    <2>2. rank(y) = rank(z) /\ FamilyPlace(fam[y]) = FamilyPlace(fam[z])
      BY <1>6, <1>7, <2>1
    <2>3. fam[y] = fam[z]
      BY <1>6, <2>2
    <2>4. ~(rank(y) < rank(z)) /\ ~(rank(z) < rank(y))
      BY <1>7, <2>2
    <2>5. <<y, z>> \notin R /\ <<z, y>> \notin R
      BY <1>7, <2>3, <2>4
    <2> QED
      BY <1>3, <2>5 DEF Orders
  <1>10. \A c \in C, y \in E : Before(k[y], k[c]) => y \in C
    BY <1>2, <1>8, <1>9, PageHolds DEF C, k
  <1>11. \A c \in C, y \in E \ C : rank(c) <= rank(y)
    <2> SUFFICES ASSUME NEW c \in C, NEW y \in E \ C, rank(y) < rank(c) PROVE FALSE
      BY <1>2, <1>7
    <2>1. Later(k[y][1], k[c][1])
      <3>1. k[y][1] = -rank(y) /\ k[c][1] = -rank(c) /\ rank(y) \in Nat /\ rank(c) \in Nat
        BY <1>2, <1>5, <1>7
      <3> QED
        BY <3>1, NoneAssumption DEF Later
    <2>2. 1 \in DOMAIN k[y] /\ 1..(1 - 1) = {}
      BY <1>5
    <2>3. Before(k[y], k[c])
      BY <2>1, <2>2 DEF Before
    <2> QED
      BY <1>10, <2>3
  <1>12. Cardinality(Kin(x, fam, C)) <= Cardinality(Kin(e, fam, C)) + 1
    <2>1. \A c \in C, y \in E \ C : Cardinality(Ahead(c, R, fam, E)) <= Cardinality(Ahead(y, R, fam, E))
      BY <1>11 DEF rank
    <2> QED
      BY <1>1, <1>2, <1>3, <2>1, SharesAreFair
  <1>13. /\ Kin(x, fam, C) = {y \in C : WorkspaceFamily(y.source) = WorkspaceFamily(x.source)}
         /\ Kin(e, fam, C) = {y \in C : WorkspaceFamily(y.source) = WorkspaceFamily(e.source)}
    BY <1>1, <1>2, <1>4 DEF Kin
  <1> QED
    BY <1>1, <1>12, <1>13 DEF FamilyShare

LEMMA RowsAreComparable == Stores(table) => Comparable(Rows)
  <1> SUFFICES ASSUME Stores(table) PROVE Comparable(Rows)
    OBVIOUS
  <1>1. \A r \in table : IsReport(r) /\ WorkspaceFamily(r.source) \in Range(FamilyOrder)
    BY DEF Stores, IsStored
  <1>2. \A r \in table : /\ IsReport(RowToEvent(r)) /\ RowToEvent(r).id = r.id /\ RowToEvent(r).source = r.source
    BY <1>1, EventOfReport
  <1>3. IsFiniteSet(Rows)
    BY RowsRead DEF Rows, Stores
  <1>4. \A e, x \in Rows : e.id = x.id => e = x
    BY <1>2 DEF Rows, Stores
  <1>5. \A e \in Rows : IsReport(e) /\ WorkspaceFamily(e.source) \in Range(FamilyOrder)
    BY <1>1, <1>2 DEF Rows
  <1> QED
    BY <1>3, <1>4, <1>5 DEF Comparable

LEMMA SharesAre == Stores(table) => FairShares
  BY RowsAreComparable, BalancedIsFair DEF FairShares, Shared

-----------------------------------------------------------------------------
(* A workspace adds up: its events, its assets, its names and its links.    *)

LEMMA SourcesAddUp ==
    ASSUME NEW S, IsFiniteSet(S)
    PROVE  SumOf(CountBy(S, LAMBDA e : e.source)) = Cardinality(S)
  <1> DEFINE of == [e \in S |-> e.source]
  <1>1. CountBy(S, LAMBDA e : e.source) = Column(S, of)
    BY DEF CountBy, Column
  <1>2. DOMAIN of = S
    OBVIOUS
  <1> HIDE DEF of
  <1> QED
    BY <1>1, <1>2, ColumnsAddUp

LEMMA RiskiestRead ==
    ASSUME NEW rows, NEW q, NEW hours, NEW until
    PROVE  \E less \in SUBSET rows : Riskiest(rows, q, hours, until) = {RowToEvent(r) : r \in less}
  BY DEF Riskiest, ListEvents, Page, Selected

\* What a workspace finds of its table are events of its table, each once.
LEMMA RiskiestRows ==
    ASSUME NEW q, NEW hours, NEW until, Stores(table)
    PROVE  Riskiest(table, q, hours, until) \subseteq Rows /\ IsFiniteSet(Riskiest(table, q, hours, until))
  <1>1. PICK less \in SUBSET table : Riskiest(table, q, hours, until) = {RowToEvent(r) : r \in less}
    BY RiskiestRead
  <1>2. IsFiniteSet({RowToEvent(r) : r \in less})
    BY RowsRead DEF Stores
  <1> QED
    BY <1>1, <1>2 DEF Rows

LEMMA EventsDoAddUp ==
    ASSUME NEW q, Stores(table)
    PROVE  EventsAddUp(ResolveEvents(table, q, Day), q)
  <1> DEFINE hours == Max({1, q.hours})
             near(events) == {e \in events : InBbox(e.at, q.geo)}
             first == Riskiest(table, q, hours, Day)
             second == Riskiest(table, q, Week, Day)
             sought == near(first)
             found == IF Cardinality(sought) < Few /\ hours < Week
                        THEN sought \cup {e \in near(second) : \A a \in sought : a.id # e.id}
                        ELSE sought
             events == ResolveEvents(table, q, Day)
  <1>1. events = BalancedEvents(found, 100)
    BY DEF ResolveEvents
  <1>2. first \subseteq Rows /\ IsFiniteSet(first) /\ second \subseteq Rows /\ IsFiniteSet(second)
    BY RiskiestRows
  <1> HIDE DEF first, second
  <1>3. found \subseteq first \cup second /\ \A e \in found : InBbox(e.at, q.geo)
    OBVIOUS
  <1> HIDE DEF found, events
  <1>4. events \subseteq found
    BY <1>1 DEF BalancedEvents, Page
  <1>5. IsFiniteSet(first \cup second)
    BY <1>2, FS_Union
  <1>6. IsFiniteSet(events)
    BY <1>3, <1>4, <1>5, FS_Subset
  <1>7. SumOf(CountBy(events, LAMBDA e : e.source)) = Cardinality(events)
    BY <1>6, SourcesAddUp
  <1>8. \A e \in events : InBbox(e.at, q.geo)
    BY <1>3, <1>4
  <1>9. EventsAddUp(events, q)
    BY <1>7, <1>8 DEF EventsAddUp
  <1> QED
    BY <1>9 DEF events

LEMMA AssetsDoAddUp ==
    ASSUME NEW q, IsFiniteSet(assets)
    PROVE  AssetsAddUp(ResolveAssets(assets, q))
  <1> DEFINE found == ResolveAssets(assets, q)
  <1>1. \E shown \in SUBSET assets : \E regional : found = AssetsShown(shown, q, regional)
    BY DEF ResolveAssets, Page
  <1> HIDE DEF found
  <1>2. PICK shown \in SUBSET assets : \E regional : found = AssetsShown(shown, q, regional)
    BY <1>1
  <1>3. IsFiniteSet(shown)
    BY FS_Subset
  <1>4. found.assets = shown /\ found.counts = CountBy(shown, LAMBDA a : a.type) /\ found.anomalies \subseteq shown
    <2>1. PICK regional : found = AssetsShown(shown, q, regional)
      BY <1>2
    <2> DEFINE anomalies == AssetsShown(shown, q, regional).anomalies
    <2>2. anomalies \subseteq shown
      BY DEF AssetsShown, Page
    <2>3. AssetsShown(shown, q, regional).assets = shown
      BY DEF AssetsShown
    <2>4. AssetsShown(shown, q, regional).counts = CountBy(shown, LAMBDA a : a.type)
      BY DEF AssetsShown, CountBy
    <2> QED
      BY <2>1, <2>2, <2>3, <2>4
  <1>5. SumOf(CountBy(shown, LAMBDA r : r.type)) = Cardinality(shown)
    BY <1>3, TypesAddUp
  <1>6. AssetsAddUp(found)
    BY <1>4, <1>5 DEF AssetsAddUp
  <1> QED
    BY <1>6 DEF found

-----------------------------------------------------------------------------
(* Names.                                                                    *)

\* Two finite sets together hold no less than half of what they hold apart.
LEMMA TogetherAndApart ==
    ASSUME NEW A, IsFiniteSet(A), NEW B, IsFiniteSet(B)
    PROVE  /\ Cardinality(A) + Cardinality(B) \in Cardinality(A \cup B)..(2 * Cardinality(A \cup B))
           /\ IsFiniteSet(A \cup B) /\ Cardinality(A \cup B) \in Nat
  <1>1. IsFiniteSet(A \cup B) /\ IsFiniteSet(A \cap B)
    BY FS_Union, FS_Subset
  <1>2. /\ Cardinality(A) \in Nat /\ Cardinality(B) \in Nat /\ Cardinality(A \cap B) \in Nat
        /\ Cardinality(A \cup B) \in Nat
    BY <1>1, FS_CardinalityType
  <1>3. Cardinality(A \cup B) = Cardinality(A) + Cardinality(B) - Cardinality(A \cap B)
    BY FS_Union
  <1>4. Cardinality(A \cap B) <= Cardinality(A)
    <2>1. A \cap B \in SUBSET A
      OBVIOUS
    <2> QED
      BY <2>1, FS_Subset
  <1>5. Cardinality(A \cap B) <= Cardinality(B)
    <2>1. A \cap B \in SUBSET B
      OBVIOUS
    <2> QED
      BY <2>1, FS_Subset
  <1> QED
    BY <1>1, <1>2, <1>3, <1>4, <1>5

LEMMA OneIdEach ==
    ASSUME NEW S, IsFiniteSet(S), \A x, y \in S : x.id = y.id => x = y
    PROVE  Cardinality({x.id : x \in S}) = Cardinality(S)
  <1> DEFINE T == {x.id : x \in S}
             f == [x \in S |-> x.id]
  <1>1. f \in Bijection(S, T)
    BY DEF Bijection, Injection, IsInjective, Surjection
  <1> HIDE DEF f, T
  <1>2. ExistsBijection(S, T)
    BY <1>1 DEF ExistsBijection
  <1>3. Cardinality(T) = Cardinality(S)
    BY <1>2, FS_Bijection
  <1> QED
    BY <1>3 DEF T

LEMMA RowsOnce ==
    ASSUME Stores(table)
    PROVE  \A x, y \in Rows : x.id = y.id => x = y
  <1>1. \A r \in table : RowToEvent(r).id = r.id
    BY EventOfReport DEF Stores, IsStored
  <1>2. \A r, s \in table : r.id = s.id => r = s
    BY DEF Stores
  <1> QED
    BY <1>1, <1>2 DEF Rows

LEMMA NamesCount ==
    ASSUME Stores(table), NEW q, NEW hours,
           NEW sought, sought \subseteq Rows, IsFiniteSet(sought), NEW week, week \subseteq Rows, IsFiniteSet(week)
    PROVE  NamesAddUp(NamesFound(q, hours, sought, week))
  <1> DEFINE Names(events) == UNION {Mentioned(e, q) : e \in events}
             again == IF Cardinality(Names(sought)) < FewActors /\ hours < Week THEN week ELSE {}
             By(n, events) == {e \in events : n \in Mentioned(e, q)}
             found == NamesFound(q, hours, sought, week)
  <1>1. again \subseteq Rows /\ IsFiniteSet(again)
    BY FS_EmptySet
  <1>2. \A n \in DOMAIN found :
          /\ found[n].count = Cardinality(By(n, sought)) + Cardinality(By(n, again))
          /\ found[n].events = Cardinality({e.id : e \in By(n, sought \cup again)})
    BY DEF NamesFound
  <1> HIDE DEF again, found
  <1> SUFFICES ASSUME NEW n \in DOMAIN found
               PROVE  found[n].count \in found[n].events..(2 * found[n].events)
    BY DEF NamesAddUp, found
  <1> DEFINE A == By(n, sought)
             B == By(n, again)
  <1>3. A \subseteq sought /\ B \subseteq again /\ By(n, sought \cup again) = A \cup B
    OBVIOUS
  <1>4. found[n].count = Cardinality(A) + Cardinality(B) /\ found[n].events = Cardinality({e.id : e \in A \cup B})
    BY <1>2, <1>3
  <1> HIDE DEF A, B
  <1>5. IsFiniteSet(A) /\ IsFiniteSet(B) /\ A \cup B \subseteq Rows
    BY <1>1, <1>3, FS_Subset
  <1>6. Cardinality(A) + Cardinality(B) \in Cardinality(A \cup B)..(2 * Cardinality(A \cup B)) /\ IsFiniteSet(A \cup B)
    BY <1>5, TogetherAndApart
  <1>7. \A x, y \in A \cup B : x.id = y.id => x = y
    BY <1>5, RowsOnce
  <1>8. Cardinality({e.id : e \in A \cup B}) = Cardinality(A \cup B)
    BY <1>6, <1>7, OneIdEach
  <1> QED
    BY <1>4, <1>6, <1>8

LEMMA NamesDoAddUp ==
    ASSUME NEW q, Stores(table)
    PROVE  NamesAddUp(ResolveEntities(table, q, Day))
  <1> DEFINE hours == Max({1, q.hours})
             first == Riskiest(table, q, hours, Day)
             second == Riskiest(table, q, Week, Day)
  <1>1. ResolveEntities(table, q, Day) = NamesFound(q, hours, first, second)
    BY DEF ResolveEntities
  <1>2. first \subseteq Rows /\ IsFiniteSet(first) /\ second \subseteq Rows /\ IsFiniteSet(second)
    BY RiskiestRows
  <1> HIDE DEF hours, first, second
  <1> QED
    BY <1>1, <1>2, NamesCount

LEMMA WebDoesAddUp ==
    ASSUME NEW q
    PROVE  WebAddsUp(ResolveCorrelation(table, q, Links, Day))
  <1> DEFINE web == ResolveCorrelation(table, q, Links, Day)
  <1> DEFINE events == ListEvents(table, [NoFilter EXCEPT !.words = q.queries, !.from = Day - q.hours], "latest", 200, 0)
             Actors(e) == NamesOf(e) \cup (q.seeds \cap e.words)
             pairs == UNION {kSubset(2, Actors(e)) : e \in events}
             Count(p) == Cardinality({e \in events : p \subseteq Actors(e)})
             found == {p \in pairs : (Count(p) >= 2 \/ p \cap q.seeds # {}) /\ p \notin Links}
  <1>1. web.links = Links \cup found
    BY DEF ResolveCorrelation
  <1>2. \A S : \A p \in kSubset(2, S) : Cardinality(p) = 2
    BY DEF kSubset
  <1> HIDE DEF web, events, Actors, Count
  <1>3. \A p \in found : Cardinality(p) = 2
    BY <1>2
  <1> HIDE DEF web
  <1> HIDE DEF found
  <1>4. WebAddsUp(web)
    BY <1>1, <1>3, LinksAssumption DEF WebAddsUp
  <1> QED
    BY <1>4 DEF web

-----------------------------------------------------------------------------
(* The sentiment of a workspace adds up.                                    *)

\* The points of a line: moods are among what is counted.
IsPoint(p) ==
    /\ p.positive \in Nat /\ p.neutral \in Nat /\ p.negative \in Nat /\ p.count \in Nat
    /\ p.positive + p.neutral + p.negative <= p.count
IsLine(line) == \A d \in DOMAIN line : IsPoint(line[d])

\* Three labels are apart.
LEMMA LabelsApart ==
    ASSUME NEW S, IsFiniteSet(S)
    PROVE  LET part(l) == Cardinality({e \in S : e.label = l})
           IN  /\ part("POSITIVE") \in Nat /\ part("NEUTRAL") \in Nat /\ part("NEGATIVE") \in Nat /\ Cardinality(S) \in Nat
               /\ part("POSITIVE") + part("NEUTRAL") + part("NEGATIVE") <= Cardinality(S)
  <1> DEFINE A == {e \in S : e.label = "POSITIVE"}
             B == {e \in S : e.label = "NEUTRAL"}
             C == {e \in S : e.label = "NEGATIVE"}
  <1>1. A \subseteq S /\ B \subseteq S /\ C \subseteq S /\ A \cap B = {} /\ (A \cup B) \cap C = {}
    OBVIOUS
  <1> HIDE DEF A, B, C
  <1>2. IsFiniteSet(A) /\ IsFiniteSet(B) /\ IsFiniteSet(C)
    BY <1>1, FS_Subset
  <1>3. IsFiniteSet(A \cup B) /\ Cardinality(A \cup B) = Cardinality(A) + Cardinality(B) - Cardinality(A \cap B)
    BY <1>2, FS_Union
  <1>4. Cardinality((A \cup B) \cup C) = Cardinality(A \cup B) + Cardinality(C) - Cardinality((A \cup B) \cap C)
    BY <1>2, <1>3, FS_Union
  <1>5. (A \cup B) \cup C \in SUBSET S
    BY <1>1
  <1>6. Cardinality((A \cup B) \cup C) <= Cardinality(S)
    BY <1>5, FS_Subset
  <1>7. Cardinality(A) \in Nat /\ Cardinality(B) \in Nat /\ Cardinality(C) \in Nat /\ Cardinality(S) \in Nat
    BY <1>2, FS_CardinalityType
  <1>8. Cardinality({}) = 0
    BY FS_EmptySet
  <1>9. Cardinality(A) + Cardinality(B) + Cardinality(C) <= Cardinality(S)
    BY <1>1, <1>3, <1>4, <1>6, <1>7, <1>8
  <1> QED
    BY <1>7, <1>9 DEF A, B, C

LEMMA TimelineIsLine ==
    ASSUME NEW rows, IsFiniteSet(rows), NEW f
    PROVE  IsLine(SentimentTimeline(rows, f, Day))
  <1> DEFINE felt == {e \in Selected(rows, [f EXCEPT !.source = None]) :
                        e.mood # None /\ f.source \in {None, e.source}}
             On(d) == {e \in felt : Bucket(e, Day) = d}
             Labelled(d, l) == Cardinality({e \in On(d) : e.label = l})
             line == SentimentTimeline(rows, f, Day)
  <1>1. felt \subseteq rows
    BY DEF Selected
  <1>2. \A d \in DOMAIN line :
          /\ line[d].count = Cardinality(On(d)) /\ line[d].positive = Labelled(d, "POSITIVE")
          /\ line[d].neutral = Labelled(d, "NEUTRAL") /\ line[d].negative = Labelled(d, "NEGATIVE")
    BY DEF SentimentTimeline
  <1> HIDE DEF line
  <1> SUFFICES ASSUME NEW d \in DOMAIN line PROVE IsPoint(line[d])
    BY DEF IsLine, line
  <1>3. IsFiniteSet(On(d))
    <2>1. On(d) \in SUBSET rows
      BY <1>1
    <2> QED
      BY <2>1, FS_Subset
  <1> HIDE DEF felt, On
  <1>4. /\ Labelled(d, "POSITIVE") \in Nat /\ Labelled(d, "NEUTRAL") \in Nat /\ Labelled(d, "NEGATIVE") \in Nat
        /\ Cardinality(On(d)) \in Nat
        /\ Labelled(d, "POSITIVE") + Labelled(d, "NEUTRAL") + Labelled(d, "NEGATIVE") <= Cardinality(On(d))
    BY <1>3, LabelsApart
  <1> HIDE DEF Labelled
  <1> QED
    BY <1>2, <1>4 DEF IsPoint

\* A part of the points of a day, line by line.
PartAt(lines, d, part) == [s \in {x \in DOMAIN lines : d \in DOMAIN lines[x]} |-> lines[s][d][part]]
LEMMA CombinedIs ==
    ASSUME NEW lines, NEW d \in DOMAIN Combined(lines)
    PROVE  /\ Combined(lines)[d].count = SumOf(PartAt(lines, d, "count"))
           /\ Combined(lines)[d].positive = SumOf(PartAt(lines, d, "positive"))
           /\ Combined(lines)[d].neutral = SumOf(PartAt(lines, d, "neutral"))
           /\ Combined(lines)[d].negative = SumOf(PartAt(lines, d, "negative"))
  BY DEF Combined, PartAt

LEMMA CombinedMoods ==
    ASSUME NEW lines, IsFiniteSet(DOMAIN lines), \A s \in DOMAIN lines : IsLine(lines[s])
    PROVE  MoodsAddUp(Combined(lines))
  <1> DEFINE line == Combined(lines)
  <1> SUFFICES ASSUME NEW d \in DOMAIN line
               PROVE  line[d].positive + line[d].neutral + line[d].negative <= line[d].count
    BY DEF MoodsAddUp
  <1> DEFINE S == {x \in DOMAIN lines : d \in DOMAIN lines[x]}
             p == PartAt(lines, d, "positive")
             n == PartAt(lines, d, "neutral")
             m == PartAt(lines, d, "negative")
             c == PartAt(lines, d, "count")
             pn == [s \in S |-> p[s] + n[s]]
             all == [s \in S |-> pn[s] + m[s]]
  <1>1. line[d].count = SumOf(c) /\ line[d].positive = SumOf(p) /\ line[d].neutral = SumOf(n) /\ line[d].negative = SumOf(m)
    BY CombinedIs
  <1>2. IsFiniteSet(S)
    <2>1. S \in SUBSET DOMAIN lines
      OBVIOUS
    <2> QED
      BY <2>1, FS_Subset
  <1>3. DOMAIN p = S /\ DOMAIN n = S /\ DOMAIN m = S /\ DOMAIN c = S
    BY DEF PartAt
  <1>4. \A s \in S : p[s] = lines[s][d].positive /\ n[s] = lines[s][d].neutral /\ m[s] = lines[s][d].negative
                     /\ c[s] = lines[s][d].count
    BY DEF PartAt
  <1>5. \A s \in S : IsPoint(lines[s][d])
    BY DEF IsLine
  <1> HIDE DEF line, S, p, n, m, c
  <1>6. \A s \in S : p[s] \in Nat /\ n[s] \in Nat /\ m[s] \in Nat /\ c[s] \in Nat /\ p[s] + n[s] + m[s] <= c[s]
    BY <1>4, <1>5 DEF IsPoint
  <1>7. DOMAIN pn = S /\ DOMAIN all = S /\ \A s \in S : pn[s] = p[s] + n[s] /\ all[s] = pn[s] + m[s]
    OBVIOUS
  <1> HIDE DEF pn, all
  <1>8. \A s \in S : pn[s] \in Nat /\ all[s] \in Nat /\ all[s] <= c[s]
    BY <1>6, <1>7
  <1>9. SumOf(p) + SumOf(n) = SumOf(pn)
    <2>1. \A s \in S : p[s] \in Int /\ n[s] \in Int /\ pn[s] = p[s] + n[s]
      BY <1>6, <1>7
    <2> QED
      BY <1>2, <1>3, <1>7, <2>1, SumsAdd
  <1>10. SumOf(pn) + SumOf(m) = SumOf(all)
    <2>1. \A s \in S : pn[s] \in Int /\ m[s] \in Int /\ all[s] = pn[s] + m[s]
      BY <1>6, <1>7, <1>8
    <2> QED
      BY <1>2, <1>3, <1>7, <2>1, SumsAdd
  <1>11. SumOf(all) <= SumOf(c)
    <2>1. \A s \in S : c[s] \in Nat
      BY <1>6
    <2>2. \A s \in S : all[s] \in Nat /\ all[s] <= c[s]
      BY <1>8
    <2> QED
      BY <1>2, <1>3, <1>7, <2>1, <2>2, SumsGrow
  <1> QED
    BY <1>1, <1>9, <1>10, <1>11

LEMMA RowsHaveIds == Stores(table) => Ids(Rows) = Ids(table)
  <1> SUFFICES ASSUME Stores(table) PROVE Ids(Rows) = Ids(table)
    OBVIOUS
  <1>1. \A r \in table : RowToEvent(r).id = r.id
    BY EventOfReport DEF Stores, IsStored
  <1> QED
    BY <1>1 DEF Rows, Ids

\* What is shown after a live search is stored by then.
LEMMA WarmedAddsUp ==
    ASSUME Stores(table), NEW q, NEW found, IsFiniteSet(DOMAIN found), NEW hours, NEW reddit \in SUBSET Rows,
           \A s \in DOMAIN found : IsLine(found[s].line) /\ found[s].items \subseteq Rows
    PROVE  SentimentAddsUp(Warmed(table, q, found, reddit, WarmYoutube(Videos), hours, Day))
  <1> DEFINE youtube == WarmYoutube(Videos)
             cold == {s \in {"reddit", "youtube"} \cap DOMAIN found : found[s].items = {}}
             warm(s) == IF s = "reddit" THEN reddit ELSE youtube
             stored == IF "youtube" \in cold THEN UpsertMany(table, youtube) ELSE table
             line(s) == IF s \in cold /\ warm(s) # {} THEN TimelineOf(stored, q, s, Max({hours, Week}), Day)
                        ELSE found[s].line
             shown(s) == CASE s \in cold -> warm(s)
                           [] s \in DOMAIN found \ cold -> found[s].items
                           [] OTHER -> {}
             lines == [s \in DOMAIN found |-> line(s)]
             sentiment == Warmed(table, q, found, reddit, youtube, hours, Day)
  <1>1. /\ sentiment.table = stored /\ sentiment.lines = lines
        /\ sentiment.items \subseteq shown("reddit") \cup shown("youtube")
    BY DEF Warmed, Page
  <1>2. Stores(youtube)
    BY WarmStores
  <1>3. Stores(UpsertMany(table, youtube)) /\ Ids(table) \cup Ids(youtube) \subseteq Ids(UpsertMany(table, youtube))
    BY <1>2, UpsertStores
  <1>4. Stores(stored) /\ Ids(table) \subseteq Ids(stored) /\ ("youtube" \in cold => Ids(youtube) \subseteq Ids(stored))
    <2> HIDE DEF cold, youtube
    <2> QED
      BY <1>3
  <1>5. Ids(shown("reddit") \cup shown("youtube")) \subseteq Ids(stored)
    <2>1. Ids(Rows) = Ids(table)
      BY RowsHaveIds
    <2>2. shown("reddit") \subseteq Rows
      OBVIOUS
    <2>3. CASE "youtube" \in cold
      <3>1. shown("youtube") = youtube
        BY <2>3
      <3> HIDE DEF shown, stored, youtube, cold
      <3> QED
        BY <1>4, <2>1, <2>2, <2>3, <3>1 DEF Ids
    <2>4. CASE "youtube" \notin cold
      <3>1. shown("youtube") \subseteq Rows
        BY <2>4
      <3> HIDE DEF shown, stored, youtube, cold
      <3> QED
        BY <1>4, <2>1, <2>2, <3>1 DEF Ids
    <2> QED
      BY <2>3, <2>4
  <1>6. \A s \in DOMAIN found : IsLine(line(s))
    <2> SUFFICES ASSUME NEW s \in DOMAIN found PROVE IsLine(line(s))
      OBVIOUS
    <2>1. IsFiniteSet(stored)
      BY <1>4 DEF Stores
    <2> HIDE DEF stored, cold, warm
    <2>2. IsLine(TimelineOf(stored, q, s, Max({hours, Week}), Day))
      BY <2>1, TimelineIsLine DEF TimelineOf
    <2> QED
      BY <2>2
  <1>7. DOMAIN lines = DOMAIN found /\ \A s \in DOMAIN lines : IsLine(lines[s])
    <2> HIDE DEF line
    <2> QED
      BY <1>6
  <1> HIDE DEF lines, shown, stored, sentiment
  <1>8. MoodsAddUp(Combined(lines))
    BY <1>7, CombinedMoods
  <1>9. Ids(sentiment.items) \subseteq Ids(sentiment.table)
    BY <1>1, <1>5 DEF Ids
  <1>10. SentimentAddsUp(sentiment)
    BY <1>1, <1>8, <1>9 DEF SentimentAddsUp
  <1> QED
    BY <1>10 DEF sentiment

LEMMA ReadAreRows ==
    ASSUME NEW f, NEW sort, NEW limit
    PROVE  ListEvents(table, f, sort, limit, 0) \subseteq Rows
  BY DEF ListEvents, Page, Selected, Rows

LEMMA ItemsAreRows ==
    ASSUME NEW q, NEW source, NEW hours
    PROVE  FetchSocialItems(table, q, source, hours, Day) \subseteq Rows
  <1> DEFINE f == OfSource(q, source, hours, Day)
             strict == ListEvents(table, f, "latest", 24, 0)
             recent == ListEvents(table, [f EXCEPT !.words = {}], "latest", 72, 0)
             soft == {e \in recent : TextMatch(e, f)}
             items == FetchSocialItems(table, q, source, hours, Day)
  <1>1. items = IF strict # {} THEN strict ELSE Newest(soft, 24)
    BY DEF FetchSocialItems, Newest, Page, Rank, ByTime
  <1>2. strict \subseteq Rows /\ recent \subseteq Rows
    BY ReadAreRows
  <1> HIDE DEF strict, recent, f
  <1>3. Newest(soft, 24) \subseteq recent
    BY DEF Newest, Page
  <1> HIDE DEF items, soft
  <1>4. items \subseteq Rows
    BY <1>1, <1>2, <1>3
  <1> QED
    BY <1>4 DEF items

LEMMA RedditAreRows ==
    ASSUME NEW q
    PROVE  WarmReddit(table, q) \subseteq Rows
  <1> DEFINE recent == ListEvents(table, [NoFilter EXCEPT !.source = "reddit"], "latest", 160, 0)
             topical == {e \in recent : WorkspaceTerms(q) \cap e.words # {}}
             chosen == IF topical = {} THEN recent ELSE topical
  <1>1. WarmReddit(table, q) = Newest(chosen, 16)
    BY DEF WarmReddit, Topical, Newest, Page, Rank, ByTime
  <1>2. recent \subseteq Rows
    BY ReadAreRows
  <1> HIDE DEF recent
  <1>3. chosen \subseteq recent
    OBVIOUS
  <1> HIDE DEF chosen
  <1>4. Newest(chosen, 16) \subseteq chosen
    BY DEF Newest, Page
  <1> QED
    BY <1>1, <1>2, <1>3, <1>4

LEMMA SocialFinite == ASSUME NEW q PROVE IsFiniteSet(EnabledSocial(q))
  <1>1. IsFiniteSet(WorkspaceSocial)
    <2>1. WorkspaceSocial = ((({} \cup {"reddit"}) \cup {"youtube"}) \cup {"telegram"}) \cup {"twitter"}
      BY DEF WorkspaceSocial
    <2>2. IsFiniteSet({} \cup {"reddit"})
      BY FS_EmptySet, FS_AddElement
    <2>3. IsFiniteSet(({} \cup {"reddit"}) \cup {"youtube"})
      BY <2>2, FS_AddElement
    <2>4. IsFiniteSet((({} \cup {"reddit"}) \cup {"youtube"}) \cup {"telegram"})
      BY <2>3, FS_AddElement
    <2> QED
      BY <2>1, <2>4, FS_AddElement
  <1> QED
    BY <1>1, FS_Subset DEF EnabledSocial

LEMMA SentimentDoesAddUp ==
    ASSUME NEW q, Stores(table)
    PROVE  SentimentAddsUp(ResolveSentiment(table, q, Videos, Day))
  <1> DEFINE hours == Max({1, q.hours})
             lines(h) == [s \in EnabledSocial(q) |-> TimelineOf(table, q, s, h, Day)]
             wide == Widened(lines(hours), lines(Week), hours)
             found == LookedUp(table, q, lines(hours), lines(Week), hours, Day)
  <1>1. ResolveSentiment(table, q, Videos, Day)
          = Warmed(table, q, found, WarmReddit(table, q), WarmYoutube(Videos), hours, Day)
    BY DEF ResolveSentiment
  <1>2. \A h : DOMAIN lines(h) = EnabledSocial(q) /\ \A s \in EnabledSocial(q) : IsLine(lines(h)[s])
    <2>1. \A s, h : IsLine(TimelineOf(table, q, s, h, Day))
      BY TimelineIsLine DEF TimelineOf, Stores
    <2> QED
      BY <2>1
  <1>3. /\ DOMAIN found = DOMAIN lines(hours)
        /\ \A s \in DOMAIN found :
             /\ found[s].line = IF s \in wide THEN lines(Week)[s] ELSE lines(hours)[s]
             /\ found[s].items = FetchSocialItems(table, q, s, IF s \in wide THEN Week ELSE hours, Day)
    BY DEF LookedUp
  <1> HIDE DEF lines, wide, found, hours
  <1>4. DOMAIN found = EnabledSocial(q) /\ IsFiniteSet(DOMAIN found)
    BY <1>2, <1>3, SocialFinite
  <1>5. \A s \in DOMAIN found : IsLine(found[s].line)
    BY <1>2, <1>3, <1>4
  <1>6. \A s \in DOMAIN found : found[s].items \subseteq Rows
    BY <1>3, ItemsAreRows
  <1>7. WarmReddit(table, q) \in SUBSET Rows
    BY RedditAreRows
  <1> QED
    BY <1>1, <1>4, <1>5, <1>6, <1>7, WarmedAddsUp

LEMMA PrefixesShown ==
    ASSUME NEW q
    PROVE  DevelopmentSourcePrefixes(q) # {}
  BY DEF DevelopmentSourcePrefixes, Standard

LEMMA WorkspaceDoesAddUp == Stores(table) /\ IsFiniteSet(assets) => WorkspaceAddsUp
  <1> SUFFICES ASSUME Stores(table), IsFiniteSet(assets), NEW q \in Questions
               PROVE  /\ EventsAddUp(ResolveEvents(table, q, Day), q)
                      /\ AssetsAddUp(ResolveAssets(assets, q))
                      /\ SentimentAddsUp(ResolveSentiment(table, q, Videos, Day))
                      /\ NamesAddUp(ResolveEntities(table, q, Day))
                      /\ WebAddsUp(ResolveCorrelation(table, q, Links, Day))
                      /\ WorkspaceTerms(q) # {} => DevelopmentSourcePrefixes(q) # {}
    BY DEF WorkspaceAddsUp
  <1> QED
    BY EventsDoAddUp, AssetsDoAddUp, SentimentDoesAddUp, NamesDoAddUp, WebDoesAddUp, PrefixesShown

-----------------------------------------------------------------------------
\* Whatever a reader is shown of one table adds up.
ReaderAddsUp ==
    subject = "reader" =>
        FeedAddsUp /\ DossierAddsUp /\ FairShares /\ WorkspaceAddsUp /\ BoardAddsUp /\ ViewsAddUp
LEMMA ReadingDoesAddUp == ReaderInv => ReaderAddsUp
  <1> SUFFICES ASSUME ReaderInv, subject = "reader"
               PROVE  FeedAddsUp /\ DossierAddsUp /\ FairShares /\ WorkspaceAddsUp /\ BoardAddsUp /\ ViewsAddUp
    BY DEF ReaderAddsUp
  <1>1. /\ Stores(table) /\ IsFiniteSet(table) /\ Alarms(alerts) /\ Stories(narratives) /\ IsFiniteSet(assets)
        /\ Heard(signals)
    BY DEF ReaderInv, Stores
  <1> QED
    BY <1>1, FeedDoesAddUp, DossierDoesAddUp, SharesAre, WorkspaceDoesAddUp, BoardDoesAddUp, ViewsDoAddUp

-----------------------------------------------------------------------------
(* What a job shown as done has found is read.                              *)

\* The rows that jobs store are typed as the table types them, and what Redis
\* has of a job that is done is what the process has of it, which holds events
\* only when they are ready.
RowsTyped == IsFiniteSet(table) /\ \A r \in table : IsRow(r)
OneRecord(j) == redis[j] # None /\ redis[j].status = "done" => redis[j] = mirror[j]
KeepsReady(j) ==
    /\ phase[j] = "accepted" /\ redis[j] # None => ~redis[j].kept
    /\ phase[j] \in {"accepted", "begun", "gathered", "prepared", "stored"} => ~mirror[j].kept
    /\ mirror[j] # None \/ phase[j] \in {"done", "failing"} => (mirror[j].kept => Ready(batch[j]))
    /\ mirror[j] # None /\ mirror[j].status = "done" => mirror[j].kept
RecordsInv == subject = "jobs" => RowsTyped /\ \A j \in Jobs : OneRecord(j) /\ KeepsReady(j)

LEMMA RowOfWide ==
    ASSUME NEW e, Wide(e)
    PROVE  IsRow(EventToRow(e)) /\ \A r : IsRow(r) => IsRow(Updated(r, e))
  <1> DEFINE x == EventToRow(e)
  <1>1. EventFields \subseteq DOMAIN x /\ x.id = e.id /\ x.ts = e.ts /\ x.ingest = e.ingest
    BY DEF EventToRow, Wide, EventFields
  <1>2. IsRow(x)
    BY <1>1 DEF IsRow, Wide
  <1>3. ASSUME NEW r, IsRow(r)
        PROVE  IsRow(Updated(r, e))
    <2> DEFINE u == [x EXCEPT !.ingest = r.ingest, !.risk = r.risk, !.signals = r.signals,
                              !.supporting = r.supporting, !.influence = r.influence]
    <2>1. Updated(r, e) = u
      BY DEF Updated
    <2> HIDE DEF x
    <2>2. DOMAIN u = DOMAIN x /\ u.id = x.id /\ u.ts = x.ts /\ u.ingest = r.ingest
      BY <1>1 DEF EventFields
    <2> HIDE DEF u
    <2> QED
      BY <1>2, <1>3, <2>1, <2>2 DEF IsRow
  <1> QED
    BY <1>2, <1>3

LEMMA BatchFinite ==
    ASSUME NEW b, Batch(b)
    PROVE  IsFiniteSet(Range(b))
  <1>1. Len(b) \in Nat /\ DOMAIN b = 1..Len(b)
    BY SequenceIs DEF Batch
  <1>2. IsFiniteSet(DOMAIN b)
    BY <1>1, FS_Interval
  <1>3. IsFiniteSet({b[k] : k \in DOMAIN b})
    BY <1>2, ImageFinite
  <1> QED
    BY <1>3 DEF Range

LEMMA UpsertTyped ==
    ASSUME NEW b, Ready(b), RowsTyped, table' = UpsertMany(table, Range(b))
    PROVE  RowsTyped'
  <1> DEFINE E == Range(b)
             known(e) == {r \in table : r.id = e.id}
             row(e) == IF known(e) = {} THEN EventToRow(e) ELSE Updated(CHOOSE r \in known(e) : TRUE, e)
             old == {r \in table : \A e \in E : e.id # r.id}
             f == [e \in E |-> row(e)]
             new == {f[e] : e \in E}
  <1>1. table' = old \cup new
    <2>1. new = {row(e) : e \in E}
      OBVIOUS
    <2> QED
      BY <2>1 DEF UpsertMany
  <1>2. IsFiniteSet(E) /\ \A e \in E : Wide(e)
    <2>1. IsFiniteSet(E)
      BY BatchFinite DEF Ready
    <2>2. \A e \in E : Wide(e)
      BY DEF Ready, Batch, Range
    <2> QED
      BY <2>1, <2>2
  <1>3. \A e \in E : IsRow(f[e])
    <2> SUFFICES ASSUME NEW e \in E PROVE IsRow(row(e))
      OBVIOUS
    <2>1. CASE known(e) = {}
      BY <1>2, <2>1, RowOfWide
    <2>2. CASE known(e) # {}
      <3> DEFINE r == CHOOSE r \in known(e) : TRUE
      <3>1. r \in known(e)
        BY <2>2
      <3>2. IsRow(r)
        BY <3>1 DEF RowsTyped
      <3>3. row(e) = Updated(r, e)
        BY <2>2
      <3> HIDE DEF r, row, E
      <3> QED
        BY <1>2, <3>2, <3>3, RowOfWide
    <2> QED
      BY <2>1, <2>2
  <1>4. IsFiniteSet(old) /\ DOMAIN f = E
    BY FS_Subset DEF RowsTyped
  <1>5. \A r \in old : IsRow(r)
    BY DEF RowsTyped
  <1> HIDE DEF E, f, old
  <1>6. IsFiniteSet(new)
    BY <1>2, <1>4, ImageFinite
  <1>7. \A r \in new : IsRow(r)
    BY <1>3
  <1> HIDE DEF new
  <1>8. IsFiniteSet(table')
    BY <1>1, <1>4, <1>6, FS_Union
  <1> QED
    BY <1>1, <1>5, <1>7, <1>8 DEF RowsTyped

LEMMA InitRecords == Init => RecordsInv
  BY FS_EmptySet DEF Init, JobsInit, RecordsInv, RowsTyped, OneRecord, KeepsReady

\* A step of the job j leaves one record of it.
LEMMA RecordOfStep ==
    ASSUME JobsInv, JobsInv', NEW j \in Jobs, Trigger(j) \/ Break(j) \/ JobStep(j)
    PROVE  OneRecord(j)'
  <1>1. CASE phase'[j] # "ended"
    BY <1>1 DEF JobsInv, JobInv, DoneIn, OneRecord
  <1>2. CASE phase'[j] = "ended"
    <2>1. RecordDone(j) \/ RecordFailed(j)
      BY <1>2 DEF JobsInv, JobStep, Trigger, Break, Begin, Gather, Prepare, Store, MarkDone, MarkFailed, Moves
    <2>2. /\ phase[j] # "ended" /\ mirror'[j] = mirror[j]
          /\ redis'[j] = redis[j] \/ redis'[j] = mirror[j]
      BY <2>1 DEF JobsInv, RecordDone, RecordFailed, Moves, InRedis
    <2>3. ~(redis[j] # None /\ redis[j].status = "done")
      BY <2>2 DEF JobsInv, JobInv, DoneIn
    <2> QED
      BY <2>2, <2>3 DEF OneRecord
  <1> QED
    BY <1>1, <1>2

\* A record holds its events from the time it is done.
LEMMA KeptOfStep ==
    ASSUME JobsInv, NEW j \in Jobs, KeepsReady(j), Trigger(j) \/ Break(j) \/ JobStep(j)
    PROVE  KeepsReady(j)'
  <1>1. JobInv(j) /\ DOMAIN mirror = Jobs /\ DOMAIN batch = Jobs /\ DOMAIN redis = Jobs /\ DOMAIN phase = Jobs
    BY DEF JobsInv
  <1>2. CASE Trigger(j)
    BY <1>1, <1>2 DEF JobInv, Trigger, Moves, InRedis, Record, KeepsReady
  <1>3. CASE Begin(j)
    <2> DEFINE found == IF bus THEN redis[j] ELSE mirror[j]
               record == IF found = None THEN [Record("running") EXCEPT !.started = FALSE]
                         ELSE [found EXCEPT !.status = "running"]
    <2>1. PICK ok \in BOOLEAN : /\ Moves(j, "accepted", IF ok THEN "begun" ELSE "killed")
                               /\ mirror' = IF ok THEN [mirror EXCEPT ![j] = record] ELSE mirror
      BY <1>3 DEF Begin
    <2>2. phase[j] = "accepted" /\ phase'[j] \in {"begun", "killed"} /\ batch' = batch
      BY <1>1, <1>3, <2>1 DEF Begin, Moves
    <2>3. ~record.kept /\ record.status = "running"
      BY <1>1, <2>2 DEF JobInv, KeepsReady, Record, Fields
    <2>4. ~mirror[j].kept /\ mirror[j].status # "done"
      BY <1>1, <2>2 DEF JobInv, KeepsReady
    <2> HIDE DEF record
    <2>5. ~mirror'[j].kept /\ mirror'[j].status # "done"
      BY <1>1, <2>1, <2>3, <2>4
    <2> QED
      BY <2>2, <2>5 DEF KeepsReady
  <1>4. CASE Gather(j) \/ Prepare(j) \/ Break(j)
    <2>1. /\ phase[j] \in {"begun", "gathered"} /\ mirror' = mirror
          /\ phase'[j] \in {"gathered", "prepared", "failing"}
      BY <1>1, <1>4 DEF Gather, Prepare, Break, Moves, recordVars
    <2>2. ~mirror[j].kept /\ mirror[j].status # "done"
      BY <1>1, <2>1 DEF JobInv, KeepsReady
    <2> QED
      BY <2>1, <2>2 DEF KeepsReady
  <1>5. CASE Store(j)
    <2>1. phase[j] = "prepared" /\ phase'[j] = "stored"
          /\ mirror' \in {mirror, [mirror EXCEPT ![j].warnings = @ \cup {"DB persist"}]}
      BY <1>1, <1>5 DEF Store, Moves
    <2>2. mirror'[j].kept = mirror[j].kept /\ mirror'[j].status = mirror[j].status
      BY <1>1, <2>1 DEF JobInv, Fields
    <2>3. ~mirror[j].kept /\ mirror[j].status # "done"
      BY <1>1, <2>1 DEF JobInv, KeepsReady
    <2> QED
      BY <2>1, <2>2, <2>3 DEF KeepsReady
  <1>6. CASE MarkDone(j)
    <2>1. /\ phase[j] = "stored" /\ phase'[j] = "done" /\ batch' = batch
          /\ mirror'[j] = [mirror[j] EXCEPT !.status = "done", !.kept = TRUE]
      BY <1>1, <1>6 DEF MarkDone, Moves
    <2>2. Ready(batch'[j]) /\ mirror'[j].kept
      BY <1>1, <2>1 DEF JobInv, Fields
    <2> QED
      BY <2>1, <2>2 DEF KeepsReady
  <1>7. CASE RecordDone(j) \/ RecordFailed(j)
    <2>1. /\ phase[j] \in {"done", "failed"} /\ phase'[j] \in {"ended", "failing", "killed"}
          /\ phase'[j] = "failing" => phase[j] = "done"
          /\ batch' = batch /\ mirror' = mirror
      BY <1>1, <1>7 DEF RecordDone, RecordFailed, Moves
    <2> QED
      BY <2>1 DEF KeepsReady
  <1>8. CASE MarkFailed(j)
    <2>1. /\ phase[j] = "failing" /\ phase'[j] = "failed" /\ batch' = batch
          /\ mirror'[j] = [mirror[j] EXCEPT !.status = "failed"]
      BY <1>1, <1>8 DEF MarkFailed, Moves
    <2>2. mirror'[j].kept = mirror[j].kept /\ mirror'[j].status = "failed"
      BY <1>1, <2>1, NoneAssumption DEF JobInv, Fields
    <2>3. mirror[j].kept => Ready(batch[j])
      BY <2>1 DEF KeepsReady
    <2> QED
      BY <2>1, <2>2, <2>3 DEF KeepsReady
  <1> QED
    BY <1>2, <1>3, <1>4, <1>5, <1>6, <1>7, <1>8 DEF JobStep

LEMMA OtherRecord ==
    ASSUME JobsInv, NEW j \in Jobs, NEW k \in Jobs, k # j, Trigger(j) \/ Break(j) \/ JobStep(j)
    PROVE  redis'[k] = redis[k] /\ mirror'[k] = mirror[k] /\ batch'[k] = batch[k] /\ phase'[k] = phase[k]
  BY DEF JobsInv, JobStep, Trigger, Break, Begin, Gather, Prepare, Store, MarkDone, RecordDone, MarkFailed, RecordFailed,
         Moves, InRedis, recordVars

LEMMA RowsOfStep ==
    ASSUME JobsInv, RowsTyped, NEW j \in Jobs, Trigger(j) \/ Break(j) \/ JobStep(j)
    PROVE  RowsTyped'
  <1>1. table' = table \/ (phase[j] = "prepared" /\ table' = UpsertMany(table, Range(batch[j])))
    BY DEF JobStep, Trigger, Break, Begin, Gather, Prepare, Store, MarkDone, RecordDone, MarkFailed, RecordFailed, Moves
  <1>2. phase[j] = "prepared" => Ready(batch[j])
    BY DEF JobsInv, JobInv
  <1>3. CASE table' = table
    BY <1>3 DEF RowsTyped
  <1> QED
    BY <1>1, <1>2, <1>3, UpsertTyped

LEMMA RecordsStep ==
    ASSUME JobsInv, RecordsInv, [Next]_vars
    PROVE  RecordsInv'
  <1>1. subject' = subject
    BY DEF Next, JobsServed, Stored, ScreenServed, Session, ViewsServed, ReaderServed, WalkerServed, Serve, vars
  <1> SUFFICES ASSUME subject = "jobs" PROVE RecordsInv'
    BY <1>1 DEF RecordsInv
  <1>2. RowsTyped /\ \A j \in Jobs : OneRecord(j) /\ KeepsReady(j)
    BY DEF RecordsInv
  <1>3. JobsServed \/ UNCHANGED vars
    BY DEF Next, JobsServed, Stored, ScreenServed, Session, ViewsServed, ReaderServed, WalkerServed, Serve
  <1>4. CASE UNCHANGED vars
    <2>1. UNCHANGED <<table, redis, mirror, batch, phase>>
      BY <1>4 DEF vars, jobVars
    <2> QED
      BY <1>2, <2>1 DEF RecordsInv, RowsTyped, OneRecord, KeepsReady
  <1>5. ASSUME NEW j \in Jobs, Trigger(j) \/ Break(j) \/ JobStep(j)
        PROVE  RecordsInv'
    <2>1. JobsInv'
      BY JobsStep
    <2>2. RowsTyped' /\ OneRecord(j)' /\ KeepsReady(j)'
      BY <1>2, <1>5, <2>1, RowsOfStep, RecordOfStep, KeptOfStep
    <2>3. \A k \in Jobs : k # j => OneRecord(k)' /\ KeepsReady(k)'
      BY <1>2, <1>5, OtherRecord DEF OneRecord, KeepsReady
    <2> QED
      BY <2>2, <2>3 DEF RecordsInv
  <1> QED
    BY <1>3, <1>4, <1>5 DEF JobsServed

\* A page by time of typed rows has all of them if it has room.
LEMMA RowsWhole ==
    ASSUME NEW S, IsFiniteSet(S), Cardinality(S) <= 50, \A e \in S : IsRow(e)
    PROVE  /\ Page(S, ByTime, 50, 0) = S
           /\ Page(S, ByIngest, 50, 0) = S
  <1> DEFINE k == [e \in S |-> <<e.ts, e.ingest, e.id>>]
             l == [e \in S |-> <<e.ingest, e.ts, e.id>>]
  <1>1. \A e \in S : e.id \in Int /\ {e.ts, e.ingest} \subseteq Int \cup {None}
    BY DEF IsRow
  <1>2. \A e \in S : DOMAIN k[e] = 1..3 /\ k[e][1] = e.ts /\ k[e][2] = e.ingest /\ k[e][3] = e.id
    OBVIOUS
  <1>3. \A e \in S : DOMAIN l[e] = 1..3 /\ l[e][1] = e.ingest /\ l[e][2] = e.ts /\ l[e][3] = e.id
    OBVIOUS
  <1>4. Page(S, ByTime, 50, 0) = Paged(k, S, 50)
    BY DEF Page, Rank, ByTime, Paged, Place
  <1>5. Page(S, ByIngest, 50, 0) = Paged(l, S, 50)
    BY DEF Page, Rank, ByIngest, Paged, Place
  <1> HIDE DEF k, l
  <1>6. Keyed(k, S)
    <2>1. \A e \in S : \A i \in 1..3 : k[e][i] \in Int \cup {None}
      BY <1>1, <1>2
    <2> QED
      BY <1>2, <2>1 DEF Keyed
  <1>7. Keyed(l, S)
    <2>1. \A e \in S : \A i \in 1..3 : l[e][i] \in Int \cup {None}
      BY <1>1, <1>3
    <2> QED
      BY <1>3, <2>1 DEF Keyed
  <1>8. Paged(k, S, 50) = S
    BY <1>6, WholePage
  <1>9. Paged(l, S, 50) = S
    BY <1>7, WholePage
  <1>10. Page(S, ByTime, 50, 0) = S
    BY <1>4, <1>8
  <1>11. Page(S, ByIngest, 50, 0) = S
    BY <1>5, <1>9
  <1> QED
    BY <1>10, <1>11

\* A row of the snapshot's time is in it while it has room.
LEMMA RowInSnapshot ==
    ASSUME RowsTyped, NEW r \in table, r.ts \in 0..Day, Cardinality(table) <= 50
    PROVE  r.id \in Ids(Snapshot(table, Day, Day, 50))
  <1> DEFINE f == [NoFilter EXCEPT !.from = Day - Day, !.to = Day]
             S == Selected(table, f)
             page == Page(S, ByTime, 50, 0)
  <1>1. /\ f.source = None /\ f.type = None /\ f.label = None /\ f.words = {} /\ f.from = 0 /\ f.to = Day
    BY DEF NoFilter, Day
  <1>2. Snapshot(table, Day, Day, 50) = {RowToEvent(x) : x \in page}
    BY DEF Snapshot, ListEvents, ListOrder, ByTime, Page, Rank
  <1>3. r \in S
    <2>1. r.ts # None /\ r.ts >= 0 /\ r.ts <= Day
      BY NoneAssumption DEF Day
    <2> HIDE DEF f
    <2> QED
      BY <1>1, <2>1 DEF Selected, Within, TextMatch
  <1>4. S \in SUBSET table
    BY DEF Selected
  <1> HIDE DEF S
  <1>5. IsFiniteSet(S) /\ Cardinality(S) <= 50 /\ \A e \in S : IsRow(e)
    <2>1. IsFiniteSet(S) /\ Cardinality(S) <= Cardinality(table)
      BY <1>4, FS_Subset DEF RowsTyped
    <2>2. Cardinality(S) \in Nat /\ Cardinality(table) \in Nat
      BY <2>1, FS_CardinalityType DEF RowsTyped
    <2> QED
      BY <1>4, <2>1, <2>2 DEF RowsTyped
  <1>6. page = S
    BY <1>5, RowsWhole
  <1>7. RowToEvent(r) \in Snapshot(table, Day, Day, 50)
    <2> HIDE DEF page
    <2> QED
      BY <1>2, <1>3, <1>6
  <1>8. RowToEvent(r).id = r.id
    BY DEF RowToEvent, RowsTyped, IsRow, EventFields
  <1> QED
    BY <1>7, <1>8 DEF Ids

\* Geocoding gives a place to whatever one can be told of.
LEMMA GeocodedPlaced ==
    ASSUME NEW e, Wide(e)
    PROVE  Wide(ApplyGeocoding(e)) /\ ApplyGeocoding(e).id = e.id /\ Placed(ApplyGeocoding(e))
  <1> DEFINE x == ApplyGeocoding(e)
  <1>1. /\ Wide(x) /\ x.id = e.id /\ x.at = ResolveEventCoords(e) /\ x.place = e.place /\ x.actors = e.actors
        /\ x.sourcecountry = e.sourcecountry /\ x.region = e.region /\ x.country = e.country /\ x.domain = e.domain
    BY DEF ApplyGeocoding, Wide, EventFields
  <1> HIDE DEF x
  <1>2. AreActors(e.actors) /\ AreActors(x.actors)
    BY <1>1 DEF Wide
  <1>3. CASE ResolveEventCoords(e) = None
    <2>1. Nowhere(e)
      BY <1>2, <1>3, CoordsNone
    <2>2. Nowhere(x)
      BY <1>1, <1>3, <2>1 DEF Nowhere
    <2>3. ResolveEventCoords(x) = None
      BY <1>2, <2>2, CoordsNone
    <2> QED
      BY <1>1, <2>3 DEF Placed, x
  <1>4. CASE ResolveEventCoords(e) # None
    BY <1>1, <1>4 DEF Placed, x
  <1> QED
    BY <1>3, <1>4

\* The memory of the process shows what it holds while it has room.
LEMMA MemoryShows ==
    ASSUME NEW E, IsFiniteSet(E), Cardinality(E) <= 50, \A e \in E : Wide(e), NEW e \in E, Feedworthy(e, TRUE)
    PROVE  \E x \in {i.event : i \in MemoryFeed(E, Everything, Day).events} : x.id = e.id /\ Placed(x)
  <1> DEFINE worthy == {x \in E : Feedworthy(x, TRUE)}
             found == {ApplyGeocoding(x) : x \in worthy}
             page == Page(found, ByIngest, 50, 0)
  <1>1. /\ Everything.f = NoFilter /\ Everything.sort = "latest" /\ Everything.tracking = TRUE
        /\ Everything.limit = 50 /\ Everything.offset = 0
    BY DEF Everything
  <1>2. Filter(E, NoFilter) = E
    BY DEF Filter, NoFilter, Within, TextMatch
  <1>3. MemoryFeed(E, Everything, Day).events = {FeedItem(x, None, Day) : x \in page}
    <2>1. {x \in Filter(E, Everything.f) : Feedworthy(x, Everything.tracking)} = worthy
      BY <1>1, <1>2
    <2> DEFINE paged == Page(found, LAMBDA x : MemoryOrder(Everything, x), Everything.limit, Everything.offset)
    <2>2. paged = page
      BY <1>1 DEF MemoryOrder, ByIngest, Page, Rank
    <2>3. MemoryFeed(E, Everything, Day).events
            = {FeedItem(x, None, Day) : x \in {y \in paged : Everything.sort = "priority" => PriorityEligible(y, None, Day)}}
      BY <2>1 DEF MemoryFeed
    <2> HIDE DEF paged, page
    <2>4. {y \in paged : Everything.sort = "priority" => PriorityEligible(y, None, Day)} = page
      BY <1>1, <2>2
    <2> QED
      BY <2>3, <2>4
  <1>4. IsFiniteSet(found) /\ Cardinality(found) <= 50
    <2> DEFINE g == [x \in worthy |-> ApplyGeocoding(x)]
    <2>1. found = {g[x] : x \in worthy} /\ DOMAIN g = worthy /\ worthy \in SUBSET E
      OBVIOUS
    <2> HIDE DEF g, worthy, found
    <2>2. IsFiniteSet(worthy) /\ Cardinality(worthy) <= Cardinality(E)
      BY <2>1, FS_Subset
    <2>3. IsFiniteSet({g[x] : x \in worthy}) /\ Cardinality({g[x] : x \in worthy}) <= Cardinality(worthy)
          /\ Cardinality({g[x] : x \in worthy}) \in Nat
      BY <2>1, <2>2, ImageFinite
    <2>4. Cardinality(worthy) \in Nat /\ Cardinality(E) \in Nat
      BY <2>2, FS_CardinalityType
    <2> QED
      BY <2>1, <2>2, <2>3, <2>4
  <1>5. \A x \in found : IsRow(x)
    BY GeocodedPlaced DEF Wide, IsRow
  <1>6. page = found
    <2> HIDE DEF found
    <2> QED
      BY <1>4, <1>5, RowsWhole
  <1> DEFINE x == ApplyGeocoding(e)
             item == FeedItem(x, None, Day)
  <1>7. x \in found
    OBVIOUS
  <1>8. x.id = e.id /\ Placed(x)
    BY GeocodedPlaced
  <1> HIDE DEF page, found, x
  <1>9. item \in MemoryFeed(E, Everything, Day).events /\ item.event = x
    BY <1>3, <1>6, <1>7 DEF FeedItem
  <1> QED
    BY <1>8, <1>9

LEMMA MemoryIs ==
    ASSUME JobsInv, RecordsInv
    PROVE  IsFiniteSet(MemoryEvents) /\ \A e \in MemoryEvents : Wide(e)
  <1> DEFINE D == {i \in Jobs : mirror[i] # None /\ mirror[i].kept}
             f == [i \in D |-> Range(batch[i])]
             parts == {f[i] : i \in D}
  <1>1. MemoryEvents = UNION parts
    <2>1. parts = {Range(batch[i]) : i \in D}
      OBVIOUS
    <2> QED
      BY <2>1 DEF MemoryEvents
  <1>2. \A i \in D : Ready(batch[i])
    BY DEF JobsInv, JobInv, RecordsInv, KeepsReady
  <1>3. \A s \in parts : IsFiniteSet(s) /\ \A e \in s : Wide(e)
    <2> SUFFICES ASSUME NEW i \in D PROVE IsFiniteSet(Range(batch[i])) /\ \A e \in Range(batch[i]) : Wide(e)
      OBVIOUS
    <2>1. Batch(batch[i])
      BY <1>2 DEF Ready
    <2> QED
      BY <2>1, BatchFinite DEF Batch, Range
  <1>4. IsFiniteSet(D) /\ DOMAIN f = D
    BY JobsAssumption, FS_Subset
  <1> HIDE DEF f, D
  <1>5. IsFiniteSet(parts)
    BY <1>4, ImageFinite
  <1> HIDE DEF parts
  <1>6. IsFiniteSet(UNION parts)
    BY <1>3, <1>5, FS_UNION
  <1> QED
    BY <1>1, <1>3, <1>6

LEMMA DoneDoesRead == JobsInv /\ RecordsInv => DoneIsRead
  <1> SUFFICES ASSUME JobsInv, RecordsInv, NEW j \in Jobs, Status(j) = "done", NEW e \in Range(batch[j])
               PROVE  /\ Feedworthy(e, TRUE) /\ Cardinality(MemoryEvents) <= 50 =>
                           \E x \in {i.event : i \in MemoryFeed(MemoryEvents, Everything, Day).events} :
                              x.id = e.id /\ Placed(x)
                      /\ asked[j].db /\ mirror[j].warnings = {} =>
                           \E r \in table : /\ r.id = e.id
                                            /\ r.ts \in 0..Day /\ Cardinality(table) <= 50 =>
                                                 e.id \in Ids(Snapshot(table, Day, Day, 50))
    BY DEF DoneIsRead
  <1>1. Shown(j) # None /\ Shown(j).status = "done"
    <2>1. CASE Shown(j) = None
      BY <2>1 DEF Status
    <2>2. CASE Shown(j) # None /\ ~Shown(j).started
      BY <2>2 DEF Status
    <2>3. CASE Shown(j) # None /\ Shown(j).started
      BY <2>3 DEF Status
    <2> QED
      BY <2>1, <2>2, <2>3
  <1>2. subject = "jobs"
    <2> SUFFICES ASSUME subject # "jobs" PROVE FALSE
      OBVIOUS
    <2>1. mirror[j] = None /\ redis[j] = None
      BY DEF JobsInv, JobInv
    <2> QED
      BY <1>1, <2>1 DEF Shown
  <1>3. RowsTyped /\ OneRecord(j) /\ KeepsReady(j) /\ JobInv(j)
    BY <1>2 DEF RecordsInv, JobsInv
  <1>4. mirror[j] # None /\ mirror[j].status = "done"
    BY <1>1, <1>3 DEF Shown, OneRecord
  <1>5. Ready(batch[j]) /\ Backed(j, mirror[j])
    BY <1>3, <1>4 DEF JobInv, DoneIn
  <1>6. ASSUME Feedworthy(e, TRUE), Cardinality(MemoryEvents) <= 50
        PROVE  \E x \in {i.event : i \in MemoryFeed(MemoryEvents, Everything, Day).events} : x.id = e.id /\ Placed(x)
    <2>1. e \in MemoryEvents
      BY <1>3, <1>4 DEF MemoryEvents, KeepsReady
    <2> DEFINE E == MemoryEvents
    <2>2. e \in E /\ IsFiniteSet(E) /\ (\A x \in E : Wide(x)) /\ Cardinality(E) <= 50
      BY <1>6, <2>1, MemoryIs
    <2> HIDE DEF E
    <2>3. \E x \in {i.event : i \in MemoryFeed(E, Everything, Day).events} : x.id = e.id /\ Placed(x)
      BY <1>6, <2>2, MemoryShows
    <2> QED
      BY <2>3 DEF E
  <1>7. ASSUME asked[j].db, mirror[j].warnings = {}
        PROVE  \E r \in table : /\ r.id = e.id
                                /\ r.ts \in 0..Day /\ Cardinality(table) <= 50 =>
                                     e.id \in Ids(Snapshot(table, Day, Day, 50))
    <2>1. PICK r \in table : r.id = e.id
      BY <1>5, <1>7 DEF Backed, Range
    <2>2. r.ts \in 0..Day /\ Cardinality(table) <= 50 => r.id \in Ids(Snapshot(table, Day, Day, 50))
      BY <1>3, RowInSnapshot
    <2> QED
      BY <2>1, <2>2
  <1> QED
    BY <1>6, <1>7

\* What is done is read, a walk through a window returns what it owes, and what
\* a reader is shown of one table adds up, whatever comes in (ingest.py, events.py,
\* workspace.py and threatboard.py of api/routers, event_intelligence.py and
\* precompute.py of intelligence).
THEOREM EveryReadComplete == Spec => []ReadsComplete
  <1>1. JobsInv /\ RecordsInv /\ WalkInv /\ ReaderInv => ReadsComplete
    BY DoneDoesRead, ReadingDoesAddUp DEF WalkInv, ReadsComplete, ReaderAddsUp
  <1> QED
    BY <1>1, InitJobs, JobsStep, InitRecords, RecordsStep, InitWalk, WalkStep, InitReader, ReaderStep, PTL DEF Spec
=============================================================================
