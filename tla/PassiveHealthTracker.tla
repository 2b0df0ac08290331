------------------------ MODULE PassiveHealthTracker ------------------------
(****************************************************************************)
(* Passive health of a route's endpoints: the PassiveHealthTracker of       *)
(* internal/upstream/passive_health_tracker.go, and the permits that        *)
(* passive_health_transport.go takes from it for each request.              *)
(*                                                                          *)
(* A request takes a permit for its endpoint, calls the upstream without    *)
(* the mutex, and reports the outcome; meanwhile the endpoint may be        *)
(* ejected, become eligible again, leave the DNS answer and come back.      *)
(*                                                                          *)
(* ejectionUntil is kept as the ticks left to it.  A passiveEndpointHealth  *)
(* is known by its address: a new one never lies where a permit still       *)
(* points.  Generations are only ever compared for equality: where the code *)
(* counts up, the model takes a number that no permit holds, as 2^64 of     *)
(* them will always do.                                                     *)
(****************************************************************************)
EXTENDS Integers

CONSTANTS
    Endpoints,            \* every endpoint the route may ever have
    InitialEndpoints,     \* the endpoints it starts with
    Requests,             \* requests that may be in the transport at once
    EjectionThreshold,    \* failureThreshold
    EjectionDuration,     \* ejectionDuration in ticks
    Addresses,            \* addresses of an endpoint's passiveEndpointHealth
    FirstAddress,         \* where it lies at first
    Generations,          \* numbers for the generation of an endpoint
    FirstGeneration,      \* the one it starts with
    NoEndpoint            \* the target of a request that holds no permit

Spare(numbers) ==
    \A held \in [Requests -> numbers] :
        \E n \in numbers : \A r \in Requests : held[r] # n

\* The last conjunct: the requests never hold every address, which is memory
\* safety, and never every generation.
ASSUME PassiveAssumption ==
    /\ InitialEndpoints \subseteq Endpoints
    /\ NoEndpoint \notin Endpoints
    /\ EjectionThreshold \in Nat \ {0}
    /\ EjectionDuration \in Nat \ {0}
    /\ FirstAddress \in Addresses
    /\ FirstGeneration \in Generations
    /\ Spare(Addresses) /\ Spare(Generations)

VARIABLES
    members,    \* the keys of t.stateByTarget
    state,      \* the passiveEndpointHealth of each of them
    permit      \* the passiveHealthPermit each request holds

passiveVars == <<members, state, permit>>

NotEjected == -1    \* the zero time

EndpointState ==
    [address    : Addresses,
     failures   : 0 .. EjectionThreshold - 1,
     ejection   : NotEjected .. EjectionDuration,
     generation : Generations]

NewState(a) ==
    [address |-> a, failures |-> 0, ejection |-> NotEjected,
     generation |-> FirstGeneration]

Permits ==
    [target : Endpoints \cup {NoEndpoint}, address : Addresses,
     generation : Generations]

NoPermit ==
    [target |-> NoEndpoint, address |-> FirstAddress, generation |-> FirstGeneration]

Holders(e) == {r \in Requests : permit[r].target = e}

\* state.generation++: a generation that nobody has a permit of.
NextGeneration(e) ==
    CHOOSE g \in Generations : \A r \in Holders(e) : permit[r].generation # g

PassiveInit ==
    /\ members = InitialEndpoints
    /\ state = [e \in Endpoints |-> NewState(FirstAddress)]
    /\ permit = [r \in Requests |-> NoPermit]

-----------------------------------------------------------------------------

\* endpointAvailableLocked: no ejection, or one that is over ...
Available(s) == s.ejection <= 0

\* ... and then it is cleared on the spot.
Readmitted(e) ==
    IF state[e].ejection = 0
    THEN [state[e] EXCEPT !.ejection = NotEjected, !.failures = 0,
                          !.generation = NextGeneration(e)]
    ELSE state[e]

HealthyEndpoints == {e \in members : Available(state[e])}

\* What HealthyEndpoints does to the state of every endpoint it looks at.
ClearExpired ==
    /\ state' = [e \in Endpoints |->
                    IF e \in members THEN Readmitted(e) ELSE state[e]]
    /\ UNCHANGED <<members, permit>>

\* NextRecoveryDelay: whether an ejection is pending, and when the first ends.
PendingRecoveries == {e \in members : state[e].ejection # NotEjected}

FreshAddress(e) ==
    CHOOSE a \in Addresses : \A r \in Holders(e) : permit[r].address # a

\* Mutant: an endpoint that comes back gets the object it had.
ReplaceInPlace(endpoints) ==
    /\ members' = endpoints
    /\ state' = [e \in Endpoints |->
                    IF e \in members \cap endpoints
                    THEN state[e]
                    ELSE NewState(FirstAddress)]
    /\ UNCHANGED permit

\* Endpoints that stay keep their object, the others get a new one.  (What is
\* recorded for an endpoint that left stands for nothing in the code.)
Replace(endpoints) ==
    /\ members' = endpoints
    /\ state' = [e \in Endpoints |->
                    IF e \in members
                    THEN IF e \in endpoints THEN state[e] ELSE NewState(FirstAddress)
                    ELSE IF e \in endpoints THEN NewState(FreshAddress(e))
                                            ELSE state[e]]
    /\ UNCHANGED permit

\* acquirePermit for a tracked endpoint that is available.
AcquirePermit(r, e) ==
    /\ permit[r] = NoPermit
    /\ e \in HealthyEndpoints
    /\ state' = [state EXCEPT ![e] = Readmitted(e)]
    /\ permit' = [permit EXCEPT
                    ![r] = [target     |-> e,
                            address    |-> state[e].address,
                            generation |-> Readmitted(e).generation]]
    /\ UNCHANGED members

\* acquirePermit otherwise: the request gets ErrNoHealthyEndpoints.
PermitDenied(e) == e \notin HealthyEndpoints

-----------------------------------------------------------------------------

Results == {"error", "no_response", "status_5xx", "status_other"}

\* classifyPassiveHealthOutcome looks at the request's context first.
ClassifyOutcome(contextDone, result) ==
    CASE contextDone -> "ignored"
      [] ~contextDone /\ result = "error" -> "failure"
      [] ~contextDone /\ result = "no_response" -> "ignored"
      [] ~contextDone /\ result = "status_5xx" -> "failure"
      [] ~contextDone /\ result = "status_other" -> "success"

\* Mutant: only the object is compared, not the generation.
HeededInAnyGeneration(r) ==
    LET p == permit[r] IN
    /\ p.target \in members
    /\ state[p.target].address = p.address

\* The test of recordOutcome: same endpoint, same object, same generation.
Heeded(r) ==
    LET p == permit[r] IN
    /\ p.target \in members
    /\ state[p.target].address = p.address
    /\ state[p.target].generation = p.generation

\* Mutant: the streak is compared off by one.
EjectsLate(s, outcome) ==
    outcome = "failure" /\ s.failures + 1 > EjectionThreshold

Ejects(s, outcome) ==
    outcome = "failure" /\ s.failures + 1 >= EjectionThreshold

\* Mutant: an ejection leaves the generation as it is.
OutcomeInSameGeneration(e, outcome) ==
    LET s == state[e] IN
    CASE Ejects(s, outcome) ->
            [s EXCEPT !.ejection = EjectionDuration, !.failures = 0]
      [] ~Ejects(s, outcome) /\ outcome = "failure" ->
            [s EXCEPT !.failures = @ + 1]
      [] outcome = "success" -> [s EXCEPT !.failures = 0]
      [] outcome = "ignored" -> s

\* What a heeded outcome does to the state of the request's endpoint.
Outcome(e, outcome) ==
    LET s == state[e] IN
    CASE Ejects(s, outcome) ->
            [s EXCEPT !.ejection = EjectionDuration, !.failures = 0,
                      !.generation = NextGeneration(e)]
      [] ~Ejects(s, outcome) /\ outcome = "failure" ->
            [s EXCEPT !.failures = @ + 1]
      [] outcome = "success" -> [s EXCEPT !.failures = 0]
      [] outcome = "ignored" -> s

\* recordOutcome reports an ejection to its caller.
ReportsEjection(r, outcome) ==
    Heeded(r) /\ Ejects(state[permit[r].target], outcome)

\* The rest of RoundTrip: base.RoundTrip returns, the outcome is classified
\* and recorded.  Nothing shared is touched before the mutex is taken.
RecordOutcome(r, outcome) ==
    /\ permit[r] # NoPermit
    /\ state' = IF Heeded(r)
                THEN [state EXCEPT ![permit[r].target] = Outcome(permit[r].target, outcome)]
                ELSE state
    /\ permit' = [permit EXCEPT ![r] = NoPermit]
    /\ UNCHANGED members

\* Time passes for every ejection alike.
Elapse ==
    /\ state' = [e \in Endpoints |->
                    IF state[e].ejection > 0
                    THEN [state[e] EXCEPT !.ejection = @ - 1]
                    ELSE state[e]]
    /\ UNCHANGED <<members, permit>>

Running == {e \in members : state[e].ejection > 0}

PassiveTick == Running # {} /\ Elapse

-----------------------------------------------------------------------------
(* The tracker on its own, under calls in any order.                        *)

RoundTripEnds(r) ==
    \E contextDone \in BOOLEAN, result \in Results :
        RecordOutcome(r, ClassifyOutcome(contextDone, result))

PassiveNext ==
    \/ ClearExpired
    \/ \E endpoints \in SUBSET Endpoints : Replace(endpoints)
    \/ \E r \in Requests, e \in Endpoints : AcquirePermit(r, e)
    \/ \E r \in Requests : RoundTripEnds(r)
    \/ PassiveTick

PassiveSpec == PassiveInit /\ [][PassiveNext]_passiveVars

PassiveTypeOK ==
    /\ members \in SUBSET Endpoints
    /\ state \in [Endpoints -> EndpointState]
    /\ permit \in [Requests -> Permits]

\* The requests whose outcome still counts for e.
Counted(e) == {r \in Holders(e) : Heeded(r)}

\* An ejected endpoint hears nobody: however many requests were under way to
\* it when it was ejected, none of them counts against it again.
EjectedHearsNobody ==
    \A e \in members : state[e].ejection # NotEjected => Counted(e) = {}

\* An ejection runs its course: no outcome, however late, restarts or cuts
\* it short while the endpoint stays in the set.
EjectionRunsItsCourse ==
    [][\A e \in members \cap members' :
            state[e].ejection > 0 =>
                state'[e].ejection \in {state[e].ejection, state[e].ejection - 1}
      ]_passiveVars

\* A streak is only ever counted for an endpoint that is eligible.
StreakOnlyEligible ==
    \A e \in Endpoints :
        e \notin members \/ state[e].ejection # NotEjected => state[e].failures = 0

\* The inductive invariant of the safety proofs.
IInv == PassiveTypeOK /\ EjectedHearsNobody /\ StreakOnlyEligible

\* Each endpoint lives by the contract of a single one.
Contract(e) == INSTANCE EjectionContract WITH
    status  <- IF e \notin members THEN "absent"
               ELSE IF state[e].ejection = NotEjected THEN "eligible" ELSE "ejected",
    counted <- Counted(e),
    streak  <- state[e].failures,
    Joined  <- e \in InitialEndpoints

ContractInit == \A e \in Endpoints : Contract(e)!Init

ContractStep(e) == Contract(e)!Next \/ UNCHANGED Contract(e)!contractVars

ContractNext == \A e \in Endpoints : ContractStep(e)

ImplementsContract == ContractInit /\ [][ContractNext]_passiveVars

=============================================================================
