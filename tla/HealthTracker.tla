---------------------------- MODULE HealthTracker ----------------------------
(****************************************************************************)
(* Active health of a route's endpoints: the HealthTracker of               *)
(* internal/upstream/health_tracker.go over the endpointHealth records of   *)
(* health.go.  Every operation is one critical section of the tracker's     *)
(* mutex.  An endpoint list is its set of endpoints here: order and         *)
(* repetitions matter to the load balancers only.                           *)
(****************************************************************************)
EXTENDS Integers

CONSTANTS
    Endpoints,           \* every endpoint the route may ever have
    InitialEndpoints,    \* the endpoints it starts with
    SuccessThreshold,    \* successThreshold
    FailureThreshold     \* failureThreshold

ASSUME TrackerAssumption ==
    /\ InitialEndpoints \subseteq Endpoints
    /\ SuccessThreshold \in Nat \ {0}
    /\ FailureThreshold \in Nat \ {0}

VARIABLES
    tracked,    \* the keys of t.healthByTarget
    health      \* the endpointHealth of each of them

trackerVars == <<tracked, health>>

HealthRecord ==
    [healthy   : BOOLEAN,
     successes : 0 .. SuccessThreshold - 1,
     failures  : 0 .. FailureThreshold - 1]

\* newEndpointHealth: an endpoint nothing is known of is healthy.
NewEndpointHealth == [healthy |-> TRUE, successes |-> 0, failures |-> 0]

TrackerInit ==
    /\ tracked = InitialEndpoints
    /\ health = [e \in Endpoints |-> NewEndpointHealth]

-----------------------------------------------------------------------------

\* Mutant: a success does not break a streak of failures.
SuccessKeepsFailures(h) ==
    IF h.healthy THEN h
    ELSE IF h.successes + 1 >= SuccessThreshold
         THEN NewEndpointHealth
         ELSE [h EXCEPT !.successes = @ + 1]

\* endpointHealth.recordSuccess
AfterSuccess(h) ==
    IF h.healthy
    THEN [h EXCEPT !.failures = 0]
    ELSE IF h.successes + 1 >= SuccessThreshold
         THEN NewEndpointHealth
         ELSE [h EXCEPT !.failures = 0, !.successes = @ + 1]

\* Mutant: the streak is compared off by one.
AfterFailureLate(h) ==
    IF ~h.healthy
    THEN [h EXCEPT !.successes = 0]
    ELSE IF h.failures + 1 > FailureThreshold
         THEN [healthy |-> FALSE, successes |-> 0, failures |-> 0]
         ELSE [h EXCEPT !.successes = 0, !.failures = @ + 1]

\* endpointHealth.recordFailure
AfterFailure(h) ==
    IF ~h.healthy
    THEN [h EXCEPT !.successes = 0]
    ELSE IF h.failures + 1 >= FailureThreshold
         THEN [healthy |-> FALSE, successes |-> 0, failures |-> 0]
         ELSE [h EXCEPT !.successes = 0, !.failures = @ + 1]

\* RecordSuccess and RecordFailure return without a trace for an endpoint
\* that is not tracked any more.
RecordSuccess(e) ==
    /\ health' = IF e \in tracked
                 THEN [health EXCEPT ![e] = AfterSuccess(@)]
                 ELSE health
    /\ UNCHANGED tracked

RecordFailure(e) ==
    /\ health' = IF e \in tracked
                 THEN [health EXCEPT ![e] = AfterFailure(@)]
                 ELSE health
    /\ UNCHANGED tracked

\* What the two return as "changed".
SuccessChanges(e) ==
    e \in tracked /\ AfterSuccess(health[e]).healthy # health[e].healthy

FailureChanges(e) ==
    e \in tracked /\ AfterFailure(health[e]).healthy # health[e].healthy

HealthyEndpoints == {e \in tracked : health[e].healthy}

\* Mutant: every replacement starts from fresh records.
ReplaceForgets(endpoints) ==
    /\ tracked' = endpoints
    /\ health' = [e \in Endpoints |-> NewEndpointHealth]

\* Mutant: the records of endpoints that leave are found again.
ReplaceRemembers(endpoints) ==
    /\ tracked' = endpoints
    /\ UNCHANGED health

\* Endpoints that stay keep their record, the others get a new one.
Replace(endpoints) ==
    /\ tracked' = endpoints
    /\ health' = [e \in Endpoints |->
                    IF e \in tracked \cap endpoints
                    THEN health[e]
                    ELSE NewEndpointHealth]

\* newEndpointHealth is what an untracked endpoint would get.
TrackerTypeOK ==
    /\ tracked \in SUBSET Endpoints
    /\ health \in [Endpoints -> HealthRecord]

=============================================================================
