-------------------------- MODULE BreakerContract --------------------------
(****************************************************************************)
(* What the circuit breaker of internal/proxy/circuit_breaker.go promises,  *)
(* without generations, time or locks: outcomes count only for requests     *)
(* admitted since the last change of mode, FailureThreshold consecutive     *)
(* failures among them trip the breaker, and a tripped breaker lets exactly *)
(* one request at a time through and closes only when that one succeeds.    *)
(*                                                                          *)
(* CircuitBreaker implements this specification.                            *)
(****************************************************************************)
EXTENDS Naturals

CONSTANTS
    Requests,           \* the requests that may pass through the breaker
    FailureThreshold    \* consecutive failures that trip it

VARIABLES
    tripped,            \* TRUE while ordinary requests are kept away
    counted,            \* requests in flight whose outcome will count
    probe,              \* the requests in flight that test a tripped upstream
    streak              \* failures counted since the last success

contractVars == <<tripped, counted, probe, streak>>

Init ==
    /\ tripped = FALSE
    /\ counted = {}
    /\ probe = {}
    /\ streak = 0

\* A closed breaker lets every request through.
Admit(r) ==
    /\ ~tripped
    /\ r \notin counted
    /\ counted' = counted \cup {r}
    /\ UNCHANGED <<tripped, probe, streak>>

\* A counted request ends with a success, or with nothing to learn from.
Succeed(r) ==
    /\ r \in counted
    /\ counted' = counted \ {r}
    /\ streak' = 0
    /\ UNCHANGED <<tripped, probe>>

Abandon(r) ==
    /\ r \in counted
    /\ counted' = counted \ {r}
    /\ UNCHANGED <<tripped, probe, streak>>

\* A failure lengthens the streak, and one that completes it trips the
\* breaker: the requests still in flight stop counting.
Fail(r) ==
    /\ r \in counted
    /\ streak + 1 < FailureThreshold
    /\ counted' = counted \ {r}
    /\ streak' = streak + 1
    /\ UNCHANGED <<tripped, probe>>

Trip(r) ==
    /\ r \in counted
    /\ streak + 1 >= FailureThreshold
    /\ tripped' = TRUE
    /\ counted' = {}
    /\ streak' = 0
    /\ UNCHANGED probe

\* One request at a time tests a tripped upstream; its success, and nothing
\* else, closes the breaker.
Probe(r) ==
    /\ tripped
    /\ probe = {}
    /\ probe' = {r}
    /\ UNCHANGED <<tripped, counted, streak>>

ProbeSucceeds ==
    /\ probe # {}
    /\ probe' = {}
    /\ tripped' = FALSE
    /\ UNCHANGED <<counted, streak>>

ProbeEnds ==
    /\ probe # {}
    /\ probe' = {}
    /\ UNCHANGED <<tripped, counted, streak>>

Next ==
    \/ \E r \in Requests :
        Admit(r) \/ Succeed(r) \/ Abandon(r) \/ Fail(r) \/ Trip(r) \/ Probe(r)
    \/ ProbeSucceeds
    \/ ProbeEnds

Spec == Init /\ [][Next]_contractVars

=============================================================================
