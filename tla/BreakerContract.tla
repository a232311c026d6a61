-------------------------- MODULE BreakerContract --------------------------
(***************************************************************************)
(* What the header of core/circuit_breaker.py promises of a breaker: the   *)
(* three states, the transitions between them and nothing else, with every *)
(* call's outcome counted at one instant.  CircuitBreaker implements it    *)
(* when one thread uses the breaker.                                       *)
(***************************************************************************)
EXTENDS Naturals

CONSTANTS Threshold, Cooldown, MaxLag

VARIABLES
    state,      \* closed, open or half_open
    streak,     \* consecutive failures seen while closed
    age         \* ticks since the last failure, no further than MaxAge

contractVars == <<state, streak, age>>

MaxAge == Cooldown + MaxLag

Init ==
    /\ state = "closed"
    /\ streak = 0
    /\ age = MaxAge

\* A call succeeds: normal operation, or the test request of HALF_OPEN.
Success ==
    /\ state # "open"
    /\ state' = "closed"
    /\ streak' = 0
    /\ UNCHANGED age

\* A call fails: the Threshold-th failure in a row and a failed test trip it.
Failure ==
    /\ state # "open"
    /\ age' \in 0..MaxLag
    /\ IF state = "half_open" \/ streak + 1 = Threshold
       THEN state' = "open" /\ streak' = 0
       ELSE state' = "closed" /\ streak' = streak + 1

\* Only time leads out of OPEN.
CooldownOver ==
    /\ state = "open"
    /\ age >= Cooldown
    /\ state' = "half_open"
    /\ UNCHANGED <<streak, age>>

TimePasses ==
    /\ age < MaxAge
    /\ age' = age + 1
    /\ UNCHANGED <<state, streak>>

Next == Success \/ Failure \/ CooldownOver \/ TimePasses

Spec == Init /\ [][Next]_contractVars
=============================================================================
