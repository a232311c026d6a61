--------------------------- MODULE SourcesWarmer ---------------------------
(***************************************************************************)
(* The cache warmer of the worker process (worker.py,                      *)
(* _start_sources_warmer) and the cache-first path of GET /sources/... in  *)
(* the API process (api/routers/sources.py, _run_and_enrich).              *)
(*                                                                         *)
(* On a cache miss the API answers 202 and publishes the request on        *)
(* sources_warm.  The warmer's loop unpacks each message into variables of *)
(* _loop (source, kwargs, extractor_cls, cache_key, ...) and starts a task *)
(* whose code reads those variables when it gets to them: closures of      *)
(* Python capture variables, not values.  The loop itself runs without an  *)
(* await from one variable to the next, so they change together, here as   *)
(* one variable cell.  The key of a request is its source and arguments,   *)
(* so a request stands for its key; run_nlp is one more variable of cell.  *)
(*                                                                         *)
(* A task runs the extractor in a thread of the default executor and waits *)
(* for it at most 12 s; a thread left behind reads but writes nothing that *)
(* matters here, and is dropped.                                           *)
(***************************************************************************)
EXTENDS Naturals, Sequences

CONSTANTS
    Requests,    \* what clients ask for: records of a source and arguments
    Slots,       \* size of the semaphore
    MaxMessages  \* bound: messages published in a behaviour

ASSUME RequestAssumption ==
    \A r \in Requests : r = [source |-> r.source, query |-> r.query]
ASSUME SlotAssumption == Slots \in Nat \ {0}
ASSUME MessageAssumption == MaxMessages \in Nat

Tasks == 1..MaxMessages
Sources == {r.source : r \in Requests}
Queries == {r.query : r \in Requests}
Fetches == [source : Sources, query : Queries]
Nothing == [source |-> "", query |-> ""]   \* an empty list of events; no request

VARIABLES
    loop,       \* the warmer's loop: starting, listening or dead
    channel,    \* messages published to it and not yet read
    published,  \* messages published so far
    cell,       \* the variables of _loop: the request they were set from
    slots,      \* free slots of the semaphore
    taken,      \* tasks started so far
    stage,      \* stage[t]: how far task t is
    request,    \* request[t]: the message task t was started for
    during,     \* during[t]: the messages read since t was started, its own too
    found,      \* found[t]: what its thread fetched, or is about to fetch
    entry,      \* entry[t]: the key and value it is about to store
    cache       \* cache[k]: the value under the key of request k

taskVars == <<slots, stage, found, entry>>
vars == <<loop, channel, published, cell, slots, taken, stage, request, during,
          found, entry, cache>>

Stages == {"none", "waiting", "queued", "built", "fetching", "returned",
           "writing", "ended"}
InThread == {"queued", "built", "fetching"}
Unfinished(t) == stage[t] \notin {"none", "ended"}

\* A cached response: its "source" field, its events and, for the properties,
\* the task that stored it (0: the API itself).
Values == [label : Sources, events : Fetches \cup {Nothing}, by : 0..MaxMessages]
NoValue == [label |-> "", events |-> Nothing, by |-> 0]
NoEntry == [key |-> Nothing, value |-> NoValue]

TypeOK ==
    /\ loop \in {"starting", "listening", "dead"}
    /\ channel \in Seq(Requests)
    /\ published \in 0..MaxMessages
    /\ taken + Len(channel) <= published
    /\ cell \in Requests \cup {Nothing}
    /\ slots \in 0..Slots
    /\ taken \in 0..MaxMessages
    /\ stage \in [Tasks -> Stages]
    /\ request \in [Tasks -> Requests \cup {Nothing}]
    /\ during \in [Tasks -> SUBSET Requests]
    /\ found \in [Tasks -> Fetches \cup {Nothing}]
    /\ entry \in [Tasks -> [key : Requests, value : Values] \cup {NoEntry}]
    /\ cache \in [Requests -> Values \cup {NoValue}]

Init ==
    /\ loop = "starting"
    /\ channel = <<>>
    /\ published = 0
    /\ cell = Nothing
    /\ slots = Slots
    /\ taken = 0
    /\ stage = [t \in Tasks |-> "none"]
    /\ request = [t \in Tasks |-> Nothing]
    /\ during = [t \in Tasks |-> {}]
    /\ found = [t \in Tasks |-> Nothing]
    /\ entry = [t \in Tasks |-> NoEntry]
    /\ cache = [k \in Requests |-> NoValue]

-----------------------------------------------------------------------------
\* The API process.

\* A fast request misses the cache: 202, and the key is to be warmed.  Redis
\* keeps no message for a subscriber that is not there.
Ask(k) ==
    /\ cache[k] = NoValue
    /\ published < MaxMessages
    /\ published' = published + 1
    /\ channel' = IF loop = "listening" THEN Append(channel, k) ELSE channel
    /\ UNCHANGED <<loop, cell, taken, request, during, taskVars, cache>>

\* A request with fast=false found no value some time ago, has fetched the
\* events itself (none if the source is down) and stores them.
ServeDirect(k) ==
    /\ \E events \in {k, Nothing} :
          cache' = [cache EXCEPT ![k] = [label |-> k.source, events |-> events, by |-> 0]]
    /\ UNCHANGED <<loop, channel, published, cell, taken, request, during, taskVars>>

\* The time to live of a key ends.
Expire(k) ==
    /\ cache[k] # NoValue
    /\ cache' = [cache EXCEPT ![k] = NoValue]
    /\ UNCHANGED <<loop, channel, published, cell, taken, request, during, taskVars>>

-----------------------------------------------------------------------------
\* The loop of the warmer.

Subscribe ==
    /\ loop = "starting"
    /\ loop' = "listening"
    /\ UNCHANGED <<channel, published, cell, taken, request, during, taskVars, cache>>

\* Mutant of Unpacked: variables that are set already are not set again.
UnpackedOnce(r) == IF cell = Nothing THEN r ELSE cell

\* The variables of _loop after the message r.
Unpacked(r) == r

\* One turn of the loop: unpack a message and start its task.
Take ==
    /\ loop = "listening"
    /\ channel # <<>>
    /\ LET r == Head(channel)
           t == taken + 1
       IN  /\ cell' = Unpacked(r)
           /\ taken' = t
           /\ stage' = [stage EXCEPT ![t] = "waiting"]
           /\ request' = [request EXCEPT ![t] = r]
           /\ during' = [u \in Tasks |->
                 IF u = t \/ Unfinished(u) THEN during[u] \cup {r} ELSE during[u]]
    /\ channel' = Tail(channel)
    /\ UNCHANGED <<loop, published, slots, found, entry, cache>>

\* The connection to Redis breaks: listen() raises, the loop logs it and ends,
\* and nothing starts it again.  Its tasks go on.
LoopDies ==
    /\ loop = "listening"
    /\ loop' = "dead"
    /\ channel' = <<>>
    /\ UNCHANGED <<published, cell, taken, request, during, taskVars, cache>>

-----------------------------------------------------------------------------
\* The tasks.

Acquire(t) ==
    /\ stage[t] = "waiting"
    /\ slots > 0
    /\ slots' = slots - 1
    /\ stage' = [stage EXCEPT ![t] = "queued"]
    /\ UNCHANGED <<loop, channel, published, cell, taken, request, during, found,
                   entry, cache>>

\* In the thread: extractor_cls() ...
Construct(t) ==
    /\ stage[t] = "queued"
    /\ found' = [found EXCEPT ![t] = cell]
    /\ stage' = [stage EXCEPT ![t] = "built"]
    /\ UNCHANGED <<loop, channel, published, cell, slots, taken, request, during,
                   entry, cache>>

\* ... ext.run(**kwargs) ...
Call(t) ==
    /\ stage[t] = "built"
    /\ found' = [found EXCEPT ![t].query = cell.query]
    /\ stage' = [stage EXCEPT ![t] = "fetching"]
    /\ UNCHANGED <<loop, channel, published, cell, slots, taken, request, during,
                   entry, cache>>

\* ... which returns the events, or none when fetch() raised.
Return(t) ==
    /\ stage[t] = "fetching"
    /\ \E events \in {found[t], Nothing} : found' = [found EXCEPT ![t] = events]
    /\ stage' = [stage EXCEPT ![t] = "returned"]
    /\ UNCHANGED <<loop, channel, published, cell, slots, taken, request, during,
                   entry, cache>>

\* Mutant of Entry: the source is bound when the task starts, the key is not.
EntryHalfBound(t, events) ==
    [key |-> cell, value |-> [label |-> request[t].source, events |-> events, by |-> t]]

\* The arguments of cache_set, evaluated when the events are there.
Entry(t, events) ==
    [key |-> cell, value |-> [label |-> cell.source, events |-> events, by |-> t]]

\* Back on the event loop, or after 12 s: the empty list then.
Store(t) ==
    /\ \E events \in Fetches \cup {Nothing} :
          /\ \/ stage[t] = "returned" /\ events = found[t]
             \/ stage[t] \in InThread /\ events = Nothing
          /\ entry' = [entry EXCEPT ![t] = Entry(t, events)]
    /\ found' = [found EXCEPT ![t] = Nothing]
    /\ stage' = [stage EXCEPT ![t] = "writing"]
    /\ UNCHANGED <<loop, channel, published, cell, slots, taken, request, during,
                   cache>>

\* Mutant of Released: the slot is not given back.
ReleasedNever == slots

Released == slots + 1

\* The task leaves "async with sem", by the end of its body or an exception.
End(t) ==
    /\ stage' = [stage EXCEPT ![t] = "ended"]
    /\ slots' = Released
    /\ found' = [found EXCEPT ![t] = Nothing]
    /\ entry' = [entry EXCEPT ![t] = NoEntry]
    /\ UNCHANGED <<loop, channel, published, cell, taken, request, during>>

Written(t) ==
    /\ stage[t] = "writing"
    /\ cache' = [cache EXCEPT ![entry[t].key] = entry[t].value]
    /\ End(t)

\* Redis refuses the SETEX; or, in the thread, a constructor or nlp.process
\* raises.  Nobody reads the exception of the task.
TaskFails(t) ==
    /\ stage[t] \in InThread \cup {"writing"}
    /\ End(t)
    /\ UNCHANGED cache

-----------------------------------------------------------------------------
\* The worker process dies and is started again.
Crash ==
    /\ loop' = "starting"
    /\ channel' = <<>>
    /\ cell' = Nothing
    /\ slots' = Slots
    /\ stage' = [t \in Tasks |-> IF stage[t] = "none" THEN "none" ELSE "ended"]
    /\ found' = [t \in Tasks |-> Nothing]
    /\ entry' = [t \in Tasks |-> NoEntry]
    /\ UNCHANGED <<published, taken, request, during, cache>>

Client(k) == Ask(k) \/ ServeDirect(k) \/ Expire(k)
Thread(t) == Construct(t) \/ Call(t) \/ Return(t)
Task(t) == Acquire(t) \/ Store(t) \/ Written(t) \/ TaskFails(t)

Next ==
    \/ \E k \in Requests : Client(k)
    \/ Subscribe \/ Take \/ LoopDies \/ Crash
    \/ \E t \in Tasks : Thread(t) \/ Task(t)

Spec == Init /\ [][Next]_vars

-----------------------------------------------------------------------------
\* A value under the key of k that a task of the warmer stored.
WarmedBy(k, t) == t \in Tasks /\ cache[k] # NoValue /\ cache[k].by = t

\* A task that no other message overlapped stores the events of its own
\* request, or the empty list, under the key of its own request: whatever else
\* ends up in the cache is due to a message read while the task was under way.
RightWhenUndisturbed ==
    \A k \in Requests, t \in Tasks :
        WarmedBy(k, t) /\ during[t] = {request[t]} =>
            k = request[t] /\ cache[k].events \in {request[t], Nothing}

\* A response taken from the cache names the source that was asked for, even
\* where its events are those of another: worker.py reads source and cache_key
\* in one stretch without an await.
LabelMatchesKey == \A k \in Requests : cache[k] # NoValue => cache[k].label = k.source

\* The tasks started end, each giving its slot to the next, however long its source
\* takes (wait_for in worker.py): once no message comes nothing is left to do.
TasksEnd == <>[](\A t \in Tasks : ~Unfinished(t))
=============================================================================
