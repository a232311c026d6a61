---------------------------- MODULE WorkerProofs ----------------------------
(***************************************************************************)
(* What the shared variables of the cache warmer can and cannot mix up,    *)
(* for every set of requests, every number of slots and of messages; and   *)
(* that what a process lacks after its start is accounted for, for every   *)
(* set of columns, and every number of starts and outages (Startup).       *)
(***************************************************************************)
EXTENDS Startup, FiniteSetTheorems, SequenceTheorems, TLAPS

\* The variables hold the last message read, so one that every unfinished task
\* has seen.
CellSeen == \A t \in Tasks : Unfinished(t) => cell \in during[t] /\ request[t] \in during[t]

\* Tasks are numbered in the order of their messages; the number of a task is
\* in the cache only once the task has ended.
Numbered ==
    /\ \A t \in Tasks : stage[t] = "none" <=> t > taken
    /\ \A k \in Requests, t \in Tasks : WarmedBy(k, t) => stage[t] = "ended"

\* What a task carries if no other message has been read since it started.
Alone(t) == during[t] = {request[t]}
CarriesOwn ==
    \A t \in Tasks : Alone(t) =>
        /\ stage[t] \in {"built", "fetching"} => found[t] = request[t]
        /\ stage[t] = "returned" => found[t] \in {request[t], Nothing}
        /\ stage[t] = "writing" =>
              entry[t].key = request[t] /\ entry[t].value.events \in {request[t], Nothing}

\* What a task is about to store, whatever else has been read.
Stamped ==
    \A t \in Tasks : stage[t] = "writing" =>
        /\ entry[t] \in [key : Requests, value : Values]
        /\ entry[t].value.by = t
        /\ entry[t].value.label = entry[t].key.source

Shaped == \A t \in Tasks : stage[t] \in {"built", "fetching"} => found[t] \in Fetches

\* Every slot is free or held by one task.
Holding == InThread \cup {"returned", "writing"}
Holders(st) == {t \in Tasks : st[t] \in Holding}
Accounted == slots + Cardinality(Holders(stage)) = Slots

IInv ==
    /\ TypeOK
    /\ Accounted
    /\ CellSeen
    /\ Numbered
    /\ CarriesOwn
    /\ Stamped
    /\ Shaped
    /\ RightWhenUndisturbed
    /\ LabelMatchesKey

\* A request is one of the things a thread can fetch.
LEMMA RequestIsFetch == Requests \subseteq Fetches
  <1> SUFFICES ASSUME NEW r \in Requests PROVE r \in Fetches
    OBVIOUS
  <1>1. r.source \in Sources /\ r.query \in Queries
    BY DEF Sources, Queries
  <1>2. r = [source |-> r.source, query |-> r.query]
    BY RequestAssumption
  <1>3. [source |-> r.source, query |-> r.query] \in Fetches
    BY <1>1 DEF Fetches
  <1> QED
    BY <1>2, <1>3

LEMMA HoldersFinite ==
    ASSUME NEW st
    PROVE  IsFiniteSet(Holders(st)) /\ Cardinality(Holders(st)) \in Nat
  <1>1. IsFiniteSet(Tasks)
    BY MessageAssumption, FS_Interval DEF Tasks
  <1>2. IsFiniteSet(Holders(st))
    BY <1>1, FS_Subset DEF Holders
  <1> QED
    BY <1>2, FS_CardinalityType

\* A task that takes a slot, one that gives it back and one that does neither.
LEMMA HoldersChange ==
    ASSUME NEW t \in Tasks, NEW st, NEW st2,
           \A u \in Tasks \ {t} : st2[u] = st[u]
    PROVE  /\ st[t] \in Holding <=> st2[t] \in Holding => Holders(st2) = Holders(st)
           /\ st[t] \notin Holding /\ st2[t] \in Holding =>
                 Cardinality(Holders(st2)) = Cardinality(Holders(st)) + 1
           /\ st[t] \in Holding /\ st2[t] \notin Holding =>
                 Cardinality(Holders(st2)) = Cardinality(Holders(st)) - 1
  <1>1. CASE st[t] \in Holding <=> st2[t] \in Holding
    <2>1. Holders(st2) = Holders(st)
      BY <1>1 DEF Holders
    <2> QED
      BY <1>1, <2>1
  <1>2. CASE st[t] \notin Holding /\ st2[t] \in Holding
    <2>1. Holders(st2) = Holders(st) \cup {t} /\ t \notin Holders(st)
      BY <1>2 DEF Holders
    <2>2. Cardinality(Holders(st2)) = Cardinality(Holders(st)) + 1
      BY <2>1, HoldersFinite, FS_AddElement
    <2> QED
      BY <1>2, <2>2
  <1>3. CASE st[t] \in Holding /\ st2[t] \notin Holding
    <2>1. Holders(st2) = Holders(st) \ {t} /\ t \in Holders(st)
      BY <1>3 DEF Holders
    <2>2. Cardinality(Holders(st2)) = Cardinality(Holders(st)) - 1
      BY <2>1, HoldersFinite, FS_RemoveElement
    <2> QED
      BY <1>3, <2>2
  <1> QED
    BY <1>1, <1>2, <1>3

LEMMA InitIInv == Init => IInv
  <1> SUFFICES ASSUME Init PROVE IInv
    OBVIOUS
  <1>1. TypeOK
    BY SlotAssumption, MessageAssumption, EmptySeq DEF Init, TypeOK, Stages, Tasks
  <1>2. Numbered
    BY DEF Init, Numbered, WarmedBy, Tasks
  <1>3. Holders(stage) = {}
    BY DEF Init, Holders, Holding, InThread
  <1>4. Accounted
    <2>1. slots = Slots /\ Cardinality(Holders(stage)) = 0
      BY <1>3, FS_EmptySet DEF Init
    <2> QED
      BY <2>1, SlotAssumption DEF Accounted
  <1>5. \A t \in Tasks : stage[t] = "none"
    BY DEF Init
  <1>6. CellSeen /\ CarriesOwn /\ Stamped /\ Shaped
    BY <1>5 DEF CellSeen, CarriesOwn, Stamped, Shaped, Unfinished
  <1>7. RightWhenUndisturbed /\ LabelMatchesKey
    BY DEF Init, RightWhenUndisturbed, WarmedBy, LabelMatchesKey
  <1> QED
    BY <1>1, <1>2, <1>4, <1>6, <1>7 DEF IInv

\* Nothing the tasks read or write changes.
LEMMA IdleStep ==
    ASSUME IInv, TypeOK', UNCHANGED <<cell, taken, request, during, taskVars, cache>>
    PROVE  IInv'
  BY DEF IInv, Accounted, CellSeen, Numbered, CarriesOwn, Stamped, Shaped, Alone, Unfinished,
     WarmedBy, RightWhenUndisturbed, LabelMatchesKey, taskVars

LEMMA AskStep == ASSUME IInv, NEW k \in Requests, Ask(k) PROVE IInv'
  <1>1. channel' \in Seq(Requests) /\ Len(channel') <= Len(channel) + 1
    BY DEF IInv, TypeOK, Ask
  <1>2. TypeOK'
    BY <1>1, MessageAssumption DEF IInv, TypeOK, Ask, taskVars
  <1> QED
    BY <1>2, IdleStep DEF Ask

LEMMA SubscribeStep == ASSUME IInv, Subscribe PROVE IInv'
  <1>1. TypeOK'
    BY DEF IInv, TypeOK, Subscribe, taskVars
  <1> QED
    BY <1>1, IdleStep DEF Subscribe

LEMMA LoopDiesStep == ASSUME IInv, LoopDies PROVE IInv'
  <1>1. channel' = <<>> /\ Len(channel) \in Nat
    BY DEF IInv, TypeOK, LoopDies
  <1>2. TypeOK'
    BY <1>1, EmptySeq DEF IInv, TypeOK, LoopDies, taskVars
  <1> QED
    BY <1>2, IdleStep DEF LoopDies

\* A value the API stores, and no value at all, are no task's.
LEMMA CacheStep ==
    ASSUME IInv, NEW k \in Requests, NEW v \in Values \cup {NoValue},
           cache' = [cache EXCEPT ![k] = v], v.by = 0, v # NoValue => v.label = k.source,
           UNCHANGED <<loop, channel, published, cell, taken, request, during, taskVars>>
    PROVE  IInv'
  <1>1. TypeOK'
    BY DEF IInv, TypeOK, taskVars
  <1>2. \A j \in Requests, t \in Tasks : WarmedBy(j, t)' => WarmedBy(j, t) /\ cache'[j] = cache[j]
    BY DEF IInv, TypeOK, WarmedBy, Tasks
  <1>3. RightWhenUndisturbed'
    BY <1>2 DEF IInv, RightWhenUndisturbed
  <1>4. LabelMatchesKey'
    BY DEF IInv, TypeOK, LabelMatchesKey
  <1>5. Numbered'
    BY <1>2 DEF IInv, Numbered, taskVars
  <1> QED
    BY <1>1, <1>3, <1>4, <1>5
    DEF IInv, Accounted, CellSeen, CarriesOwn, Stamped, Shaped, Alone, Unfinished, taskVars

LEMMA ServeDirectStep == ASSUME IInv, NEW k \in Requests, ServeDirect(k) PROVE IInv'
  <1>1. PICK events \in {k, Nothing} :
            cache' = [cache EXCEPT ![k] = [label |-> k.source, events |-> events, by |-> 0]]
    BY DEF ServeDirect
  <1> DEFINE v == [label |-> k.source, events |-> events, by |-> 0]
  <1>2. v \in Values /\ v.by = 0 /\ v.label = k.source
    BY RequestIsFetch, MessageAssumption DEF Values, Sources
  <1>3. cache' = [cache EXCEPT ![k] = v]
    BY <1>1
  <1> HIDE DEF v
  <1> QED
    BY <1>2, <1>3, CacheStep DEF ServeDirect

LEMMA ExpireStep == ASSUME IInv, NEW k \in Requests, Expire(k) PROVE IInv'
  <1>1. NoValue.by = 0
    BY DEF NoValue
  <1> QED
    BY <1>1, CacheStep DEF Expire

\* A message read joins what every unfinished task has seen, and starts a task.
LEMMA TakeStep == ASSUME IInv, Take PROVE IInv'
  <1> DEFINE r == Head(channel)
             t == taken + 1
  <1>1. r \in Requests /\ channel' \in Seq(Requests) /\ Len(channel') = Len(channel) - 1
    BY DEF IInv, TypeOK, Take
  <1>2. t \in Tasks /\ Len(channel) \in Nat \ {0}
    BY MessageAssumption DEF IInv, TypeOK, Take, Tasks
  <1>3. /\ cell' = r
        /\ taken' = t
        /\ stage' = [stage EXCEPT ![t] = "waiting"]
        /\ request' = [request EXCEPT ![t] = r]
        /\ during' = [u \in Tasks |->
               IF u = t \/ Unfinished(u) THEN during[u] \cup {r} ELSE during[u]]
        /\ UNCHANGED <<loop, published, slots, found, entry, cache>>
    BY DEF Take, Unpacked
  <1> HIDE DEF r, t
  <1>4. stage[t] = "none"
    BY <1>2 DEF IInv, TypeOK, Numbered, t, Tasks
  <1>5. TypeOK'
    BY <1>1, <1>2, <1>3, MessageAssumption DEF IInv, TypeOK, Stages, t, Tasks
  <1>6. \A u \in Tasks : u # t => stage'[u] = stage[u] /\ request'[u] = request[u]
    BY <1>3 DEF IInv, TypeOK
  <1>7. stage'[t] = "waiting" /\ request'[t] = r /\ r \in during'[t]
    BY <1>2, <1>3 DEF IInv, TypeOK
  <1>8. CellSeen'
    BY <1>3, <1>6, <1>7 DEF IInv, CellSeen, Unfinished
  <1>9. Numbered'
    <2>1. \A u \in Tasks : stage'[u] = "none" <=> u > taken'
      BY <1>2, <1>3, <1>6, <1>7 DEF IInv, TypeOK, Numbered, t, Tasks
    <2>2. \A k \in Requests, u \in Tasks : WarmedBy(k, u)' => stage'[u] = "ended"
      BY <1>3, <1>4, <1>6 DEF IInv, Numbered, WarmedBy
    <2> QED
      BY <2>1, <2>2 DEF Numbered
  <1>10. \A u \in Tasks : u # t /\ Alone(u)' /\ Unfinished(u) => Alone(u)
    BY <1>3, <1>6 DEF IInv, CellSeen, Alone
  <1>11. CarriesOwn'
    BY <1>3, <1>6, <1>7, <1>10 DEF IInv, CarriesOwn, Unfinished
  <1>12. Stamped' /\ Shaped'
    BY <1>3, <1>6, <1>7 DEF IInv, Stamped, Shaped
  <1>13. RightWhenUndisturbed'
    <2> SUFFICES ASSUME NEW k \in Requests, NEW u \in Tasks,
                        WarmedBy(k, u)', during'[u] = {request'[u]}
                 PROVE  k = request'[u] /\ cache'[k].events \in {request'[u], Nothing}
      BY DEF RightWhenUndisturbed
    <2>1. WarmedBy(k, u) /\ stage[u] = "ended"
      BY <1>3 DEF IInv, Numbered, WarmedBy
    <2>2. during'[u] = during[u] /\ request'[u] = request[u]
      BY <1>3, <1>4, <1>6, <2>1 DEF Unfinished
    <2> QED
      BY <1>3, <2>1, <2>2 DEF IInv, RightWhenUndisturbed
  <1>14. LabelMatchesKey'
    BY <1>3 DEF IInv, LabelMatchesKey
  <1>15. Accounted'
    <2>1. Holders(stage') = Holders(stage)
      BY <1>2, <1>4, <1>6, <1>7, HoldersChange DEF Holding, InThread
    <2> QED
      BY <1>3, <2>1 DEF IInv, Accounted
  <1> QED
    BY <1>15, <1>5, <1>8, <1>9, <1>11, <1>12, <1>13, <1>14 DEF IInv

\* The variables one action of a task leaves alone, and the tasks it leaves alone.
Others(t) ==
    /\ UNCHANGED <<loop, channel, published, cell, taken, request, during>>
    /\ \A u \in Tasks \ {t} :
          stage'[u] = stage[u] /\ found'[u] = found[u] /\ entry'[u] = entry[u]
    /\ stage[t] \notin {"none", "ended"} /\ stage'[t] # "none"

\* A task moves without touching the cache: what it carries afterwards is all
\* there is to show.
LEMMA CarryStep ==
    ASSUME IInv, TypeOK', Accounted', NEW t \in Tasks, Others(t), cache' = cache,
           Alone(t) =>
              /\ stage'[t] \in {"built", "fetching"} => found'[t] = request[t]
              /\ stage'[t] = "returned" => found'[t] \in {request[t], Nothing}
              /\ stage'[t] = "writing" =>
                    entry'[t].key = request[t] /\ entry'[t].value.events \in {request[t], Nothing},
           stage'[t] = "writing" =>
              /\ entry'[t] \in [key : Requests, value : Values]
              /\ entry'[t].value.by = t
              /\ entry'[t].value.label = entry'[t].key.source,
           stage'[t] \in {"built", "fetching"} => found'[t] \in Fetches
    PROVE  IInv'
  <1>1. CellSeen'
    BY DEF IInv, CellSeen, Others, Unfinished
  <1>2. Numbered'
    <2>1. \A u \in Tasks : stage'[u] = "none" <=> stage[u] = "none"
      BY DEF Others
    <2>2. \A k \in Requests, u \in Tasks : WarmedBy(k, u)' => stage'[u] = "ended"
      BY DEF IInv, Numbered, WarmedBy, Others
    <2> QED
      BY <2>1, <2>2 DEF IInv, Numbered, Others
  <1>3. \A u \in Tasks : Alone(u)' <=> Alone(u)
    BY DEF Alone, Others
  <1>4. CarriesOwn'
    BY <1>3 DEF IInv, CarriesOwn, Others
  <1>5. Stamped' /\ Shaped'
    BY DEF IInv, Stamped, Shaped, Others
  <1>6. RightWhenUndisturbed' /\ LabelMatchesKey'
    BY DEF IInv, RightWhenUndisturbed, LabelMatchesKey, WarmedBy, Others
  <1> QED
    BY <1>1, <1>2, <1>4, <1>5, <1>6 DEF IInv

LEMMA SameSlots ==
    ASSUME IInv, NEW t \in Tasks, Others(t), slots' = slots,
           stage[t] \in Holding, stage'[t] \in Holding
    PROVE  Accounted'
  <1>1. Holders(stage') = Holders(stage)
    BY HoldersChange DEF Others
  <1> QED
    BY <1>1 DEF IInv, Accounted

LEMMA AcquireStep == ASSUME IInv, NEW t \in Tasks, Acquire(t) PROVE IInv'
  <1>1. TypeOK'
    BY SlotAssumption DEF IInv, TypeOK, Acquire, Stages
  <1>2. Others(t) /\ stage'[t] = "queued"
    BY DEF IInv, TypeOK, Acquire, Others
  <1>3. Accounted'
    <2>1. Cardinality(Holders(stage')) = Cardinality(Holders(stage)) + 1
      BY <1>2, HoldersChange DEF Others, Holding, InThread, Acquire
    <2> QED
      BY <2>1, HoldersFinite, SlotAssumption DEF IInv, TypeOK, Accounted, Acquire
  <1> QED
    BY <1>1, <1>2, <1>3, CarryStep DEF Acquire

LEMMA ConstructStep == ASSUME IInv, NEW t \in Tasks, Construct(t) PROVE IInv'
  <1>1. cell \in during[t] /\ cell \in Requests
    BY DEF IInv, TypeOK, CellSeen, Construct, Unfinished
  <1>2. Others(t) /\ stage'[t] = "built" /\ found'[t] = cell
    BY DEF IInv, TypeOK, Construct, Others
  <1>3. cell \in Fetches
    BY <1>1, RequestIsFetch
  <1>4. TypeOK'
    BY <1>3 DEF IInv, TypeOK, Construct, Stages
  <1>5. Alone(t) => cell = request[t]
    BY <1>1 DEF Alone
  <1>9. Accounted'
    BY <1>2, SameSlots DEF Holding, InThread, Construct
  <1> QED
    BY <1>9, <1>2, <1>3, <1>4, <1>5, CarryStep DEF Construct

LEMMA CallStep == ASSUME IInv, NEW t \in Tasks, Call(t) PROVE IInv'
  <1>1. cell \in during[t] /\ cell \in Requests /\ found[t] \in Fetches
    BY DEF IInv, TypeOK, CellSeen, Shaped, Call, Unfinished
  <1> DEFINE f == [found[t] EXCEPT !.query = cell.query]
  <1>2. Others(t) /\ stage'[t] = "fetching" /\ found'[t] = f
    BY DEF IInv, TypeOK, Call, Others
  <1>3. f \in Fetches
    BY <1>1, RequestIsFetch DEF Fetches
  <1>4. TypeOK'
    BY <1>2, <1>3 DEF IInv, TypeOK, Call, Stages
  <1>5. Alone(t) => f = request[t]
    <2> SUFFICES ASSUME Alone(t) PROVE f = request[t]
      OBVIOUS
    <2>1. cell = request[t] /\ found[t] = request[t]
      BY <1>1 DEF IInv, CarriesOwn, Alone, Call
    <2> QED
      BY <1>1, <2>1 DEF Fetches
  <1> HIDE DEF f
  <1>9. Accounted'
    BY <1>2, SameSlots DEF Holding, InThread, Call
  <1> QED
    BY <1>9, <1>2, <1>3, <1>4, <1>5, CarryStep DEF Call

LEMMA ReturnStep == ASSUME IInv, NEW t \in Tasks, Return(t) PROVE IInv'
  <1>1. PICK events \in {found[t], Nothing} : found' = [found EXCEPT ![t] = events]
    BY DEF Return
  <1>2. Others(t) /\ stage'[t] = "returned" /\ found'[t] = events
    BY <1>1 DEF IInv, TypeOK, Return, Others
  <1>3. TypeOK'
    BY <1>1 DEF IInv, TypeOK, Return, Stages
  <1>4. Alone(t) => found'[t] \in {request[t], Nothing}
    BY <1>2 DEF IInv, CarriesOwn, Return
  <1>9. Accounted'
    BY <1>2, SameSlots DEF Holding, InThread, Return
  <1> QED
    BY <1>9, <1>2, <1>3, <1>4, CarryStep DEF Return

LEMMA StoreStep == ASSUME IInv, NEW t \in Tasks, Store(t) PROVE IInv'
  <1>1. PICK events \in Fetches \cup {Nothing} :
            /\ \/ stage[t] = "returned" /\ events = found[t]
               \/ stage[t] \in InThread /\ events = Nothing
            /\ entry' = [entry EXCEPT ![t] = Entry(t, events)]
    BY DEF Store
  <1>2. cell \in during[t] /\ cell \in Requests
    BY <1>1 DEF IInv, TypeOK, CellSeen, InThread, Unfinished
  <1> DEFINE e == Entry(t, events)
  <1>3. /\ e \in [key : Requests, value : Values]
        /\ e.key = cell
        /\ e.value.by = t
        /\ e.value.label = cell.source
        /\ e.value.events = events
    BY <1>2 DEF Entry, Values, Sources, Tasks
  <1> HIDE DEF e
  <1>4. Others(t) /\ stage'[t] = "writing" /\ entry'[t] = e
    BY <1>1 DEF IInv, TypeOK, Store, Others, InThread, e
  <1>5. TypeOK'
    BY <1>1, <1>3 DEF IInv, TypeOK, Store, Stages, e
  <1>6. Alone(t) => e.key = request[t] /\ e.value.events \in {request[t], Nothing}
    BY <1>1, <1>2, <1>3 DEF IInv, CarriesOwn, Alone
  <1>9. Accounted'
    BY <1>1, <1>4, SameSlots DEF Holding, InThread, Store
  <1> QED
    BY <1>9, <1>3, <1>4, <1>5, <1>6, CarryStep DEF Store

\* A task that ends, whether it has written or failed, gives its slot back.
LEMMA EndKeepsSlots ==
    ASSUME IInv, NEW t \in Tasks, End(t), stage[t] \in Holding
    PROVE  Others(t) /\ stage'[t] = "ended" /\ Accounted' /\ slots' \in 0..Slots
  <1>1. Others(t) /\ stage'[t] = "ended" /\ slots' = slots + 1
    BY DEF IInv, TypeOK, End, Released, Others, Holding, InThread
  <1>2. Cardinality(Holders(stage')) = Cardinality(Holders(stage)) - 1
    BY <1>1, HoldersChange DEF Others, Holding, InThread
  <1>3. Cardinality(Holders(stage)) \in Nat /\ Cardinality(Holders(stage')) \in Nat
    BY HoldersFinite
  <1> QED
    BY <1>1, <1>2, <1>3, SlotAssumption DEF IInv, TypeOK, Accounted

LEMMA TaskFailsStep == ASSUME IInv, NEW t \in Tasks, TaskFails(t) PROVE IInv'
  <1>1. stage[t] \in Holding
    BY DEF TaskFails, Holding
  <1>2. Others(t) /\ stage'[t] = "ended" /\ Accounted' /\ slots' \in 0..Slots
    BY <1>1, EndKeepsSlots DEF TaskFails
  <1>3. TypeOK'
    BY <1>2 DEF IInv, TypeOK, TaskFails, End, Stages
  <1> QED
    BY <1>2, <1>3, CarryStep DEF TaskFails

\* The one step of a task that changes the cache: the value is the task's own.
LEMMA WrittenStep == ASSUME IInv, NEW t \in Tasks, Written(t) PROVE IInv'
  <1> DEFINE e == entry[t]
  <1>1. e \in [key : Requests, value : Values] /\ e.value.by = t /\ e.value.label = e.key.source
    BY DEF IInv, Stamped, Written
  <1>2. Others(t) /\ stage'[t] = "ended" /\ Accounted' /\ slots' \in 0..Slots
    BY EndKeepsSlots DEF Written, Holding
  <1>3. cache' = [cache EXCEPT ![e.key] = e.value]
    BY DEF Written
  <1>4. TypeOK'
    <2>1. cache' \in [Requests -> Values \cup {NoValue}]
      BY <1>1, <1>3 DEF IInv, TypeOK
    <2>2. UNCHANGED <<loop, channel, published, cell, taken, request, during>>
      BY <1>2 DEF Others
    <2>3. /\ stage' \in [Tasks -> Stages]
          /\ found' \in [Tasks -> Fetches \cup {Nothing}]
          /\ entry' \in [Tasks -> [key : Requests, value : Values] \cup {NoEntry}]
      BY DEF IInv, TypeOK, Written, End, Stages
    <2> QED
      BY <1>2, <2>1, <2>2, <2>3 DEF IInv, TypeOK
  <1>5. Alone(t) => e.key = request[t] /\ e.value.events \in {request[t], Nothing}
    BY DEF IInv, CarriesOwn, Written
  <1> HIDE DEF e
  <1>6. \A k \in Requests : cache'[k] = cache[k] \/ (k = e.key /\ cache'[k] = e.value)
    BY <1>1, <1>3 DEF IInv, TypeOK
  <1>7. CellSeen' /\ CarriesOwn' /\ Stamped' /\ Shaped'
    BY <1>2 DEF IInv, CellSeen, CarriesOwn, Stamped, Shaped, Alone, Others, Unfinished
  <1>8. \A k \in Requests, u \in Tasks : WarmedBy(k, u)' => WarmedBy(k, u) \/ u = t
    BY <1>1, <1>6 DEF WarmedBy
  <1>9. Numbered'
    <2>1. \A u \in Tasks : stage'[u] = "none" <=> stage[u] = "none"
      BY <1>2 DEF Others
    <2>2. \A k \in Requests, u \in Tasks : WarmedBy(k, u)' => stage'[u] = "ended"
      BY <1>2, <1>8 DEF IInv, Numbered, Others
    <2> QED
      BY <1>2, <2>1, <2>2 DEF IInv, Numbered, Others
  <1>10. RightWhenUndisturbed'
    <2> SUFFICES ASSUME NEW k \in Requests, NEW u \in Tasks,
                        WarmedBy(k, u)', during'[u] = {request'[u]}
                 PROVE  k = request'[u] /\ cache'[k].events \in {request'[u], Nothing}
      BY DEF RightWhenUndisturbed
    <2>1. during' = during /\ request' = request
      BY <1>2 DEF Others
    <2>2. CASE cache'[k] = cache[k]
      BY <2>1, <2>2 DEF IInv, RightWhenUndisturbed, WarmedBy
    <2>3. CASE k = e.key /\ cache'[k] = e.value
      <3>1. u = t
        BY <1>1, <2>3 DEF WarmedBy
      <3> QED
        BY <1>5, <2>1, <2>3, <3>1 DEF Alone
    <2> QED
      BY <1>6, <2>2, <2>3
  <1>11. LabelMatchesKey'
    BY <1>1, <1>6 DEF IInv, LabelMatchesKey
  <1> QED
    BY <1>2, <1>4, <1>7, <1>9, <1>10, <1>11 DEF IInv

\* After a crash no task is left, and the cache is what it was.
LEMMA CrashStep == ASSUME IInv, Crash PROVE IInv'
  <1>1. \A t \in Tasks : stage'[t] \in {"none", "ended"} /\ (stage'[t] = "none" <=> stage[t] = "none")
    BY DEF Crash
  <1>2. Holders(stage') = {}
    BY <1>1 DEF Holders, Holding, InThread
  <1>3. Accounted'
    BY <1>2, FS_EmptySet, SlotAssumption DEF Accounted, Crash
  <1>4. TypeOK'
    <2>1. Len(channel) \in Nat /\ channel' = <<>>
      BY DEF IInv, TypeOK, Crash
    <2> QED
      BY <2>1, EmptySeq, SlotAssumption DEF IInv, TypeOK, Crash, Stages
  <1>5. Numbered'
    BY <1>1 DEF IInv, Numbered, WarmedBy, Crash
  <1>6. CellSeen' /\ CarriesOwn' /\ Stamped' /\ Shaped'
    BY <1>1 DEF CellSeen, CarriesOwn, Stamped, Shaped, Unfinished
  <1>7. RightWhenUndisturbed' /\ LabelMatchesKey'
    BY DEF IInv, RightWhenUndisturbed, LabelMatchesKey, WarmedBy, Crash
  <1> QED
    BY <1>3, <1>4, <1>5, <1>6, <1>7 DEF IInv

LEMMA NextIInv == IInv /\ [Next]_vars => IInv'
  <1> SUFFICES ASSUME IInv, [Next]_vars PROVE IInv'
    OBVIOUS
  <1>1. ASSUME NEW k \in Requests, Client(k) PROVE IInv'
    BY <1>1, AskStep, ServeDirectStep, ExpireStep DEF Client
  <1>2. CASE Subscribe \/ Take \/ LoopDies \/ Crash
    BY <1>2, SubscribeStep, TakeStep, LoopDiesStep, CrashStep
  <1>3. ASSUME NEW t \in Tasks, Thread(t) PROVE IInv'
    BY <1>3, ConstructStep, CallStep, ReturnStep DEF Thread
  <1>4. ASSUME NEW t \in Tasks, Task(t) PROVE IInv'
    BY <1>4, AcquireStep, StoreStep, WrittenStep, TaskFailsStep DEF Task
  <1>5. CASE UNCHANGED vars
    <2>1. TypeOK'
      BY <1>5 DEF IInv, TypeOK, vars
    <2> QED
      BY <1>5, <2>1, IdleStep DEF vars, taskVars
  <1> QED
    BY <1>1, <1>2, <1>3, <1>4, <1>5 DEF Next

\* The invariant holds in every reachable state.
THEOREM Invariance == Spec => []IInv
  BY InitIInv, NextIInv, PTL DEF Spec

\* TypeOK, and with it that the semaphore never exceeds its size.
THEOREM TypeCorrect == Spec => []TypeOK
  <1>1. IInv => TypeOK
    BY DEF IInv
  <1> QED
    BY <1>1, Invariance, PTL

\* A task that no other message overlapped warms the key it was asked for with
\* the events of that key or with none.
THEOREM UndisturbedWarmIsRight == Spec => []RightWhenUndisturbed
  <1>1. IInv => RightWhenUndisturbed
    BY DEF IInv
  <1> QED
    BY <1>1, Invariance, PTL

\* However the messages overlap, a cached response names the source of its key.
THEOREM LabelsMatch == Spec => []LabelMatchesKey
  <1>1. IInv => LabelMatchesKey
    BY DEF IInv
  <1> QED
    BY <1>1, Invariance, PTL

\* The same within the life of the processes: their start leaves the warmer alone.
THEOREM WarmerWithinStart == AllSpec => [](RightWhenUndisturbed /\ LabelMatchesKey)
  <1>1. AllInit => Init
    BY DEF AllInit
  <1>2. [AllNext]_allVars => [Next]_vars
    BY DEF AllNext, Over, allVars
  <1>3. IInv => RightWhenUndisturbed /\ LabelMatchesKey
    BY DEF IInv
  <1> QED
    BY <1>1, <1>2, <1>3, InitIInv, NextIInv, PTL DEF AllSpec

-----------------------------------------------------------------------------
(* The start of the processes *)

Awake == {"connecting", "creating", "reading", "repairing"}
Settled == {"graph", "bus", "ready"}
AnyProcess == [at : {"off"} \cup Awake \cup Settled, saw : BOOLEAN, unread : SUBSET Columns,
               todo : SUBSET Columns, skipped : SUBSET Columns, excuse : {"none", "outage", "race"},
               db : BOOLEAN, graph : BOOLEAN, attempts : 0..MaxAttempts,
               bus : {"none", "deaf", "subscribed"}]

\* The columns that r may still add, or knows it has not.
Owed(r) == CASE r.at = "reading" -> r.unread \cup r.todo \cup r.skipped
             [] r.at = "repairing" -> r.todo \cup r.skipped
             [] OTHER -> r.skipped

\* What the record of a process says, given the tables and what they lack.
Honest(r, there, lack) ==
    /\ r \in AnyProcess
    /\ r.db => r.at \in Settled
    /\ r.at \in {"reading", "repairing"} \/ r.db => there /\ lack \subseteq Owed(r)
    /\ r.at \in Settled /\ ~r.db => r.excuse # "none"
    /\ r.excuse = "race" => there

SInv ==
    /\ tables \in BOOLEAN /\ lacking \subseteq Columns
    /\ process \in [Processes -> AnyProcess]
    /\ \A p \in Processes : Honest(process[p], tables, lacking)
    /\ file \in [content : {"none", "part", "seed", "fetched"}, old : BOOLEAN, fetched : BOOLEAN]
    /\ file.fetched => file.content = "fetched"
    /\ refresher = "copying" => ~file.fetched

LEMMA InitSInv == StartInit => SInv
  BY StartupAssumption DEF StartInit, SInv, Honest, AnyProcess, NoProcess, Awake, Settled, Processes

LEMMA SInvSuffices == SInv => StartAccounted
  BY DEF SInv, Honest, Owed, Settled, Awake, AnyProcess, StartAccounted

\* Tables are never dropped and columns never removed, so what a process knows
\* remains true when another acts.
LEMMA StaysHonest ==
    ASSUME NEW r, NEW there, NEW lack, NEW more, NEW less,
           Honest(r, there, lack), there => more, less \subseteq lack
    PROVE  Honest(r, more, less)
  BY DEF Honest

\* A step of process p keeps the invariant if the record it leaves is honest.
LEMMA StepOfProcess ==
    ASSUME SInv, NEW p \in Processes, NEW r, Becomes(p, r),
           tables' \in BOOLEAN, tables => tables', lacking' \subseteq lacking,
           Honest(r, tables', lacking'), UNCHANGED tracking
    PROVE  SInv'
  <1>1. process' \in [Processes -> AnyProcess] /\ process'[p] = r
    BY DEF SInv, Becomes, Honest
  <1>2. ASSUME NEW q \in Processes PROVE Honest(process'[q], tables', lacking')
    <2>1. CASE q = p
      BY <2>1, <1>1
    <2>2. CASE q # p
      <3>1. process'[q] = process[q] /\ Honest(process[q], tables, lacking)
        BY <2>2 DEF SInv, Becomes
      <3> QED
        BY <3>1, StaysHonest
    <2> QED
      BY <2>1, <2>2
  <1> QED
    BY <1>1, <1>2 DEF SInv, tracking

LEMMA InitDbStep ==
    ASSUME SInv, NEW p \in Processes, InitDb(p) PROVE SInv'
  <1> DEFINE me == process[p]
  <1>1. /\ me \in AnyProcess /\ Honest(me, tables, lacking) /\ UNCHANGED tracking
        /\ tables \in BOOLEAN /\ lacking \subseteq Columns
    BY DEF SInv, InitDb
  <1>2. CASE InitFails(p)
    <2> DEFINE r == [me EXCEPT !.at = "graph", !.excuse = "outage"]
    <2>1. Becomes(p, r) /\ UNCHANGED <<tables, lacking>>
      BY <1>2 DEF InitFails, MemoryOnly, schema
    <2>2. Honest(r, tables, lacking)
      BY <1>1, <1>2 DEF InitFails, Honest, AnyProcess, Awake, Settled
    <2> QED
      BY <1>1, <2>1, <2>2, StepOfProcess
  <1>3. CASE BeginInit(p)
    <2> DEFINE r == [me EXCEPT !.at = "creating", !.saw = tables]
    <2>1. Becomes(p, r) /\ UNCHANGED <<tables, lacking>>
      BY <1>3 DEF BeginInit, schema
    <2>2. Honest(r, tables, lacking)
      BY <1>1, <1>3 DEF BeginInit, At, Honest, AnyProcess, Awake, Settled
    <2> QED
      BY <1>1, <2>1, <2>2, StepOfProcess
  <1>4. CASE CreateAll(p)
    <2>1. CASE tables /\ ~me.saw
      <3> DEFINE r == [me EXCEPT !.at = "graph", !.excuse = "race"]
      <3>1. Becomes(p, r) /\ UNCHANGED <<tables, lacking>>
        BY <1>4, <2>1 DEF CreateAll, MemoryOnly
      <3>2. Honest(r, tables, lacking)
        BY <1>1, <1>4, <2>1 DEF CreateAll, At, Honest, AnyProcess, Awake, Settled
      <3> QED
        BY <1>1, <3>1, <3>2, StepOfProcess
    <2>2. CASE ~(tables /\ ~me.saw)
      <3> DEFINE r == [me EXCEPT !.at = "reading", !.unread = Columns]
      <3>1. Becomes(p, r) /\ tables' = TRUE /\ UNCHANGED lacking
        BY <1>4, <2>2 DEF CreateAll
      <3>2. Honest(r, TRUE, lacking)
        BY <1>1, <1>4 DEF CreateAll, At, Honest, Owed, AnyProcess, Awake, Settled
      <3> QED
        BY <1>1, <3>1, <3>2, StepOfProcess
    <2> QED
      BY <2>1, <2>2
  <1>5. CASE ReadCatalog(p)
    <2>1. PICK c \in me.unread :
             Becomes(p, [me EXCEPT !.unread = @ \ {c}, !.todo = @ \cup ({c} \cap lacking),
                                   !.at = IF me.unread = {c} THEN "repairing" ELSE @])
      BY <1>5 DEF ReadCatalog
    <2> DEFINE r == [me EXCEPT !.unread = @ \ {c}, !.todo = @ \cup ({c} \cap lacking),
                               !.at = IF me.unread = {c} THEN "repairing" ELSE @]
    <2>2. UNCHANGED <<tables, lacking>> /\ me.at = "reading"
      BY <1>5 DEF ReadCatalog, schema, At
    <2>3. r \in AnyProcess
      BY <1>1, <2>1, <2>2 DEF AnyProcess, Awake
    <2>4. lacking \subseteq Owed(r)
      <3>1. lacking \subseteq me.unread \cup me.todo \cup me.skipped
        BY <1>1, <2>2 DEF Honest, Owed
      <3>2. r.unread = me.unread \ {c} /\ r.todo = me.todo \cup ({c} \cap lacking) /\ r.skipped = me.skipped
        BY <1>1 DEF AnyProcess
      <3>3. r.at = IF me.unread = {c} THEN "repairing" ELSE "reading"
        BY <1>1, <2>2 DEF AnyProcess
      <3> QED
        BY <3>1, <3>2, <3>3 DEF Owed
    <2>5. Honest(r, tables, lacking)
      BY <1>1, <2>2, <2>3, <2>4 DEF Honest, AnyProcess, Settled
    <2> QED
      BY <1>1, <2>1, <2>2, <2>5, StepOfProcess
  <1>6. CASE Repair(p)
    <2>1. PICK c \in me.todo, ok \in BOOLEAN :
             /\ Becomes(p, [me EXCEPT !.todo = Remaining(@, c, ok),
                   !.skipped = IF ok \/ c \notin lacking THEN @ ELSE @ \cup {c}])
             /\ lacking' = IF ok THEN lacking \ {c} ELSE lacking
      BY <1>6 DEF Repair
    <2> DEFINE r == [me EXCEPT !.todo = Remaining(@, c, ok),
                               !.skipped = IF ok \/ c \notin lacking THEN @ ELSE @ \cup {c}]
    <2>2. UNCHANGED tables /\ me.at = "repairing" /\ lacking' \subseteq lacking
      BY <1>6, <2>1 DEF Repair, At
    <2>3. /\ r.todo = me.todo \ {c} /\ r.at = "repairing" /\ r.db = me.db
          /\ r.skipped = IF ok \/ c \notin lacking THEN me.skipped ELSE me.skipped \cup {c}
          /\ r \in AnyProcess
      BY <1>1, <2>2 DEF AnyProcess, Remaining
    <2>4. lacking' \subseteq Owed(r)
      BY <1>1, <2>1, <2>2, <2>3 DEF Honest, Owed
    <2>5. Honest(r, tables, lacking')
      BY <1>1, <2>2, <2>3, <2>4 DEF Honest, AnyProcess, Settled
    <2> QED
      BY <1>1, <2>1, <2>2, <2>5, StepOfProcess
  <1>7. CASE HasDatabase(p)
    <2> DEFINE r == [me EXCEPT !.at = "graph", !.db = TRUE]
    <2>1. Becomes(p, r) /\ UNCHANGED <<tables, lacking>>
      BY <1>7 DEF HasDatabase, schema
    <2>2. Honest(r, tables, lacking)
      BY <1>1, <1>7 DEF HasDatabase, At, Honest, Owed, AnyProcess, Awake, Settled
    <2> QED
      BY <1>1, <2>1, <2>2, StepOfProcess
  <1> QED
    BY <1>2, <1>3, <1>4, <1>5, <1>6, <1>7 DEF InitDb

LEMMA ConnectStep ==
    ASSUME SInv, NEW p \in Processes, Connect(p) PROVE SInv'
  <1> DEFINE me == process[p]
  <1>1. /\ me \in AnyProcess /\ Honest(me, tables, lacking) /\ UNCHANGED <<tables, lacking, tracking>>
        /\ tables \in BOOLEAN
    BY DEF SInv, Connect, schema
  <1>2. CASE ConnectGraph(p)
    <2> DEFINE n == IF p = "api" /\ ~("neo4j" \in up) THEN MaxAttempts ELSE 0
               g == "neo4j" \in up
               r == [me EXCEPT !.at = "bus", !.graph = g, !.attempts = n]
    <2>1. Becomes(p, r) /\ me.at = "graph"
      BY <1>2 DEF ConnectGraph, At
    <2>2. n \in 0..MaxAttempts /\ g \in BOOLEAN
      BY StartupAssumption
    <2> HIDE DEF n, g
    <2>3. Honest(r, tables, lacking)
      BY <1>1, <2>1, <2>2 DEF Honest, Owed, AnyProcess, Settled, Awake
    <2> QED
      BY <1>1, <2>1, <2>3, StepOfProcess
  <1>3. CASE Reconnect(p)
    <2> DEFINE n == IF "neo4j" \in up THEN 0 ELSE me.attempts - 1
               g == "neo4j" \in up
               r == [me EXCEPT !.graph = g, !.attempts = n]
    <2>1. Becomes(p, r) /\ me.attempts > 0
      BY <1>3 DEF Reconnect, MoreAttempts
    <2>2. n \in 0..MaxAttempts /\ g \in BOOLEAN
      BY <1>1, <2>1, StartupAssumption DEF AnyProcess
    <2> HIDE DEF n, g
    <2>3. Honest(r, tables, lacking)
      BY <1>1, <2>2 DEF Honest, Owed, AnyProcess
    <2> QED
      BY <1>1, <2>1, <2>3, StepOfProcess
  <1>4. CASE ConnectBus(p)
    <2> DEFINE b == IF "redis" \in up THEN "subscribed" ELSE IF p = "worker" THEN "deaf" ELSE "none"
               r == [me EXCEPT !.at = "ready", !.bus = b]
    <2>1. Becomes(p, r) /\ me.at = "bus"
      BY <1>4 DEF ConnectBus, At
    <2>2. b \in {"none", "deaf", "subscribed"}
      OBVIOUS
    <2> HIDE DEF b
    <2>3. Honest(r, tables, lacking)
      BY <1>1, <2>1, <2>2 DEF Honest, Owed, AnyProcess, Settled, Awake
    <2> QED
      BY <1>1, <2>1, <2>3, StepOfProcess
  <1> QED
    BY <1>2, <1>3, <1>4 DEF Connect

\* A process that starts or ends forgets what it had.
LEMMA FreshStep ==
    ASSUME SInv, NEW p \in Processes, Launch(p) \/ Stop(p) PROVE SInv'
  <1>1. /\ UNCHANGED <<tables, lacking, file>> /\ refresher' \in {"looking", "off", refresher}
        /\ \/ Becomes(p, NoProcess)
           \/ Becomes(p, [NoProcess EXCEPT !.at = "connecting"])
    BY DEF Launch, Stop, schema
  <1>2. /\ Honest(NoProcess, tables, lacking)
        /\ Honest([NoProcess EXCEPT !.at = "connecting"], tables, lacking)
    <2>1. 0 \in 0..MaxAttempts
      BY StartupAssumption
    <2>2. NoProcess \in AnyProcess /\ [NoProcess EXCEPT !.at = "connecting"] \in AnyProcess
      BY <2>1 DEF NoProcess, AnyProcess, Awake
    <2> QED
      BY <2>2 DEF Honest, NoProcess, Settled
  <1>3. PICK r : Becomes(p, r) /\ Honest(r, tables, lacking)
    BY <1>1, <1>2
  <1>4. process' \in [Processes -> AnyProcess] /\ \A q \in Processes : Honest(process'[q], tables, lacking)
    BY <1>3 DEF SInv, Becomes, Honest
  <1> QED
    BY <1>1, <1>4 DEF SInv

LEMMA OutageStep ==
    ASSUME SInv, NEW s, Lose(s) \/ Recover(s) PROVE SInv'
  <1> DEFINE deaf(p) == [process[p] EXCEPT !.bus = "deaf"]
  <1>1. UNCHANGED <<tables, lacking, file, refresher>>
    BY DEF Lose, Recover, schema, tracking
  <1>2. \A p \in Processes : Honest(process[p], tables, lacking) /\ process[p] \in AnyProcess
    BY DEF SInv, Honest
  <1>3. \A p \in Processes : Honest(deaf(p), tables, lacking) /\ deaf(p) \in AnyProcess
    BY <1>2 DEF Honest, Owed, AnyProcess
  <1>4. CASE Lose(s)
    <2>1. process' = [p \in Processes |->
             IF s = "redis" /\ process[p].bus = "subscribed" THEN deaf(p) ELSE process[p]]
      BY <1>4 DEF Lose
    <2> HIDE DEF deaf
    <2>2. process' \in [Processes -> AnyProcess] /\ \A p \in Processes : Honest(process'[p], tables, lacking)
      BY <1>2, <1>3, <2>1
    <2> QED
      BY <1>1, <2>2 DEF SInv
  <1>5. CASE Recover(s)
    BY <1>1, <1>5 DEF Recover, SInv
  <1> QED
    BY <1>4, <1>5

\* The bundled file is copied only where no other ever was.
LEMMA SatellitesStep ==
    ASSUME SInv, Satellites PROVE SInv'
  <1>1. UNCHANGED <<tables, lacking, process>>
    BY DEF Satellites, schema
  <1>2. /\ file' \in [content : {"none", "part", "seed", "fetched"}, old : BOOLEAN, fetched : BOOLEAN]
        /\ file'.fetched => file'.content = "fetched"
        /\ refresher' = "copying" => ~file'.fetched
    <2>1. CASE LookAtFile
      BY <2>1 DEF LookAtFile, SInv
    <2>2. CASE Fetch
      BY <2>2 DEF Fetch, SInv
    <2>3. CASE FetchFails
      BY <2>3 DEF FetchFails, SInv
    <2>4. CASE Copy
      BY <2>4 DEF Copy, SInv
    <2>5. CASE Age
      BY <2>5 DEF Age, SInv
    <2> QED
      BY <2>1, <2>2, <2>3, <2>4, <2>5 DEF Satellites
  <1> QED
    BY <1>1, <1>2 DEF SInv

LEMMA NextSInv ==
    ASSUME SInv, [AllNext]_allVars PROVE SInv'
  <1>1. ASSUME UNCHANGED <<tables, lacking, process, file, refresher>> PROVE SInv'
    BY <1>1 DEF SInv
  <1>2. CASE Start
    <2>1. ASSUME NEW p \in Processes, Launch(p) \/ Stop(p) PROVE SInv'
      BY <2>1, FreshStep
    <2>2. ASSUME NEW s \in Needed, Lose(s) \/ Recover(s) PROVE SInv'
      BY <2>2, OutageStep
    <2>3. ASSUME NEW p \in Processes, Starting(p) PROVE SInv'
      BY <2>3, InitDbStep, ConnectStep DEF Starting
    <2>4. CASE LiveJob \/ Stream(Look \/ ReadTable \/ WriteSeed \/ ExpireStreams)
      BY <2>4, <1>1 DEF LiveJob, Stream, schema, tracking
    <2>5. CASE Satellites
      BY <2>5, SatellitesStep
    <2> QED
      BY <1>2, <2>1, <2>2, <2>3, <2>4, <2>5 DEF Start
  <1>3. CASE Over \/ UNCHANGED allVars \/ UNCHANGED startVars
    BY <1>1, <1>3 DEF Over, allVars, startVars, schema, tracking
  <1> QED
    BY <1>2, <1>3 DEF AllNext

\* However the two processes start, end and start again while services fail: a
\* process with a database has every table and every column but those whose
\* statement failed in its own start (init_db in storage/database.py), one
\* without met an outage or lost the race for the tables, and satellites once
\* fetched are not replaced by the bundled ones (worker.py).
THEOREM StartIsAccounted == AllSpec => []StartAccounted
  <1>1. AllInit => SInv
    BY InitSInv DEF AllInit
  <1>2. SInv /\ [AllNext]_allVars => SInv'
    BY NextSInv
  <1> QED
    BY <1>1, <1>2, SInvSuffices, PTL DEF AllSpec
=============================================================================
