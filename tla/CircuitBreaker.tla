--------------------------- MODULE CircuitBreaker ---------------------------
(***************************************************************************)
(* The circuit breaker one extractor carries (core/circuit_breaker.py) and *)
(* the threads that use it: BaseExtractor.run, called from the ingest      *)
(* jobs' thread pools, and BaseExtractor.health, called from GET /health   *)
(* and the admin pages (core/base.py).  One extractor object serves all of *)
(* them and the breaker takes no lock.                                     *)
(*                                                                         *)
(* A thread can lose the interpreter where CPython 3.11 checks for it: on  *)
(* entering a Python function and after a call.  An action is the code     *)
(* between two such places, so "self._failure_count += 1" is one step,     *)
(* while the clock reading after it and the use of that reading are two.   *)
(*                                                                         *)
(* Time advances in ticks.  age is the time since _last_failure_time; it   *)
(* stops counting at Cooldown + MaxLag, from where on no comparison of the *)
(* code changes, and failures stops at Threshold for the same reason.      *)
(* lag[t] is how long ago thread t read the clock value it still holds.    *)
(* total_trips is only reported and is left out.                           *)
(***************************************************************************)
EXTENDS Naturals, FiniteSets

CONSTANTS
    Runners,    \* threads that call BaseExtractor.run
    Probers,    \* threads that call BaseExtractor.health
    Threshold,  \* circuit_breaker_threshold
    Cooldown,   \* circuit_breaker_cooldown, in ticks
    MaxLag      \* ticks a thread may lie preempted with a clock value in hand

ASSUME RunnersAssumption == Runners \cap Probers = {}
ASSUME ThresholdAssumption == Threshold \in Nat \ {0}
ASSUME CooldownAssumption == Cooldown \in Nat \ {0}
ASSUME MaxLagAssumption == MaxLag \in Nat

VARIABLES
    state,      \* _state
    failures,   \* _failure_count
    age,        \* ticks since _last_failure_time
    sourceUp,   \* whether the remote source answers (environment)
    at,         \* at[t]: where thread t stands
    goal,       \* goal[t]: what it evaluates the state property for
    ticket,     \* ticket[t]: the state can_execute last answered it with
    lag         \* lag[t]: age of the clock value it holds

breakerVars == <<state, failures, age, sourceUp, at, goal, ticket, lag>>
breaker == <<state, failures, age>>

Threads == Runners \cup Probers
States == {"closed", "open", "half_open"}
MaxAge == Cooldown + MaxLag

BreakerTypeOK ==
    /\ state \in States
    /\ failures \in 0..Threshold
    /\ age \in 0..MaxAge
    /\ sourceUp \in BOOLEAN
    /\ at \in [Threads -> {"idle", "check", "cool", "answer", "fetch", "stamp"}]
    /\ goal \in [Threads -> {"run", "report", "probe"}]
    /\ ticket \in [Threads -> States]
    /\ lag \in [Threads -> 0..MaxLag]

BreakerInit ==
    /\ state = "closed"
    /\ failures = 0
    /\ age = MaxAge          \* _last_failure_time = 0: long ago
    /\ sourceUp \in BOOLEAN
    /\ at = [t \in Threads |-> "idle"]
    /\ goal = [t \in Threads |-> "run"]
    /\ ticket = [t \in Threads |-> "closed"]
    /\ lag = [t \in Threads |-> 0]

-----------------------------------------------------------------------------

\* run() asks can_execute(); health() serialises the breaker first.
Begin(t) ==
    /\ at[t] = "idle"
    /\ at' = [at EXCEPT ![t] = "check"]
    /\ goal' = [goal EXCEPT ![t] = IF t \in Runners THEN "run" ELSE "report"]
    /\ UNCHANGED <<breaker, sourceUp, ticket, lag>>

\* The state property answers s.  to_dict() only reports it and health() then
\* evaluates the property again; can_execute() refuses the call on OPEN and
\* lets it through on CLOSED and on HALF_OPEN.
Answered(t, s) ==
    /\ ticket' = [ticket EXCEPT ![t] = s]
    /\ goal' = [goal EXCEPT ![t] = IF @ = "report" THEN "probe" ELSE @]
    /\ at' = [at EXCEPT ![t] = CASE goal[t] = "report" -> "check"
                                 [] goal[t] # "report" /\ s = "open" -> "idle"
                                 [] OTHER -> "fetch"]

\* The property finds the breaker not OPEN and answers at once.
ReadSettled(t) ==
    /\ at[t] = "check"
    /\ state # "open"
    /\ Answered(t, state)
    /\ UNCHANGED <<breaker, sourceUp, lag>>

\* The property finds the breaker OPEN and reads the clock.
ReadOpen(t) ==
    /\ at[t] = "check"
    /\ state = "open"
    /\ at' = [at EXCEPT ![t] = "cool"]
    /\ lag' = [lag EXCEPT ![t] = 0]
    /\ UNCHANGED <<breaker, sourceUp, goal, ticket>>

\* Mutant of CooledDown: the comparison is off by one tick.
CooledDownEarly(t) == age + 1 >= Cooldown + lag[t]

CooledDown(t) == age >= Cooldown + lag[t]

\* The cooldown is over by t's clock: HALF_OPEN, whatever the state is by now.
GoHalfOpen(t) ==
    /\ at[t] = "cool"
    /\ CooledDown(t)
    /\ state' = "half_open"
    /\ at' = [at EXCEPT ![t] = "answer"]
    /\ lag' = [lag EXCEPT ![t] = 0]
    /\ UNCHANGED <<failures, age, sourceUp, goal, ticket>>

\* Mutant of StayOpen: a refused call counts as a failure and stamps the breaker.
StayOpenRestamps(t) ==
    /\ at[t] = "cool"
    /\ ~CooledDown(t)
    /\ Answered(t, state)
    /\ age' = 0
    /\ lag' = [lag EXCEPT ![t] = 0]
    /\ UNCHANGED <<state, failures, sourceUp>>

\* The cooldown is not over: the property answers the state it finds now.
StayOpen(t) ==
    /\ at[t] = "cool"
    /\ ~CooledDown(t)
    /\ Answered(t, state)
    /\ lag' = [lag EXCEPT ![t] = 0]
    /\ UNCHANGED <<breaker, sourceUp>>

\* After the log call of the transition, the property reads the state again.
AnswerAfterLog(t) ==
    /\ at[t] = "answer"
    /\ Answered(t, state)
    /\ UNCHANGED <<breaker, sourceUp, lag>>

\* Mutants of ResetBreaker: the state is forgotten, the count is forgotten.
ResetKeepsState == failures' = 0 /\ UNCHANGED state
ResetKeepsCount == state' = "closed" /\ UNCHANGED failures

\* record_success().
ResetBreaker == state' = "closed" /\ failures' = 0

\* fetch() returns; run() records it, health() does not.
RecordSuccess(t) ==
    /\ at[t] = "fetch"
    /\ sourceUp
    /\ at' = [at EXCEPT ![t] = "idle"]
    /\ IF goal[t] = "run" THEN ResetBreaker ELSE UNCHANGED <<state, failures>>
    /\ UNCHANGED <<age, sourceUp, goal, ticket, lag>>

\* fetch() raises; record_failure() counts it and reads the clock.
CountFailure(t) ==
    /\ at[t] = "fetch"
    /\ ~sourceUp
    /\ IF goal[t] = "run"
       THEN /\ failures' = IF failures < Threshold THEN failures + 1 ELSE failures
            /\ at' = [at EXCEPT ![t] = "stamp"]
            /\ lag' = [lag EXCEPT ![t] = 0]
       ELSE /\ at' = [at EXCEPT ![t] = "idle"]
            /\ UNCHANGED <<failures, lag>>
    /\ UNCHANGED <<state, age, sourceUp, goal, ticket>>

\* record_failure() stores the clock value and decides on the state.
StampFailure(t) ==
    /\ at[t] = "stamp"
    /\ age' = lag[t]
    /\ state' = IF state = "half_open" \/ failures >= Threshold
                THEN "open" ELSE state
    /\ at' = [at EXCEPT ![t] = "idle"]
    /\ lag' = [lag EXCEPT ![t] = 0]
    /\ UNCHANGED <<failures, sourceUp, goal, ticket>>

HoldsClock(t) == at[t] \in {"cool", "stamp"}

Tick ==
    /\ \A t \in Threads : HoldsClock(t) => lag[t] < MaxLag
    /\ age < MaxAge \/ \E t \in Threads : HoldsClock(t)
    /\ age' = IF age < MaxAge THEN age + 1 ELSE age
    /\ lag' = [t \in Threads |-> IF HoldsClock(t) THEN lag[t] + 1 ELSE lag[t]]
    /\ UNCHANGED <<state, failures, sourceUp, at, goal, ticket>>

\* The remote source goes down or comes back.
SourceChanges ==
    /\ sourceUp' = ~sourceUp
    /\ UNCHANGED <<breaker, at, goal, ticket, lag>>

Evaluate(t) == ReadSettled(t) \/ ReadOpen(t) \/ GoHalfOpen(t) \/ StayOpen(t)
                 \/ AnswerAfterLog(t)
Fetched(t) == RecordSuccess(t) \/ CountFailure(t) \/ StampFailure(t)

BreakerNext ==
    \/ \E t \in Threads : Begin(t)
    \/ \E t \in Threads : Evaluate(t)
    \/ \E t \in Threads : Fetched(t)
    \/ Tick
    \/ SourceChanges

\* The scheduler calls every source again and again, a fetch ends (each one
\* has a network timeout) and the clock runs.
Fairness ==
    /\ \A t \in Threads : WF_breakerVars(Begin(t) \/ Evaluate(t) \/ Fetched(t))
    /\ WF_breakerVars(Tick)

BreakerSpec == BreakerInit /\ [][BreakerNext]_breakerVars
FairSpec == BreakerSpec /\ Fairness

-----------------------------------------------------------------------------

\* The cooldown protects the source: whenever the breaker lets test requests
\* through, Cooldown ticks have passed since the failure it was last stamped
\* with, however the threads that read the clock and the state interleave.
CooldownServed == state = "half_open" => age >= Cooldown

\* An open breaker does not stay open for ever, whatever failing calls that
\* were under way when it tripped do to its time stamp.
Reopens == state = "open" ~> state # "open"

\* Once the source stays up the breaker ends closed and stays closed: neither
\* a late failure nor a stale OPEN -> HALF_OPEN write keeps it from recovering.
Recovers == <>[]sourceUp => <>[](state = "closed")

-----------------------------------------------------------------------------

\* A failure that is counted but not yet stamped has not happened for the
\* contract, and the contract counts failures only while the breaker is closed.
Stamping == Cardinality({t \in Runners : at[t] = "stamp"})
Streak == IF state = "closed" THEN failures - Stamping ELSE 0

\* With one caller the breaker behaves as the header of the file says.
Contract == INSTANCE BreakerContract WITH streak <- Streak
ImplementsContract == Contract!Spec
=============================================================================
