----------------------------- MODULE UpstreamCall -----------------------------
(****************************************************************************)
(* What a route does below releasingTransport with a request that has been  *)
(* given an endpoint: the transports that routeRuntimeFromRoutes and run    *)
(* (cmd/devgate/handlers.go, main.go) put on top of one another,            *)
(*                                                                          *)
(*     CircuitBreakerTransport       one per route: Breaker                 *)
(*       PassiveHealthTransport      one per route: the module this extends *)
(*         RetryTransport            one for all routes                     *)
(*           http.Transport                                                 *)
(*                                                                          *)
(* and the status code of proxy.go for what comes back as an error.  The    *)
(* request's context may end at any time: its client goes away, or the      *)
(* route's request timeout passes.  Each layer looks at it on its own.      *)
(****************************************************************************)
EXTENDS PassiveHealthTracker

CONSTANTS
    CircuitThreshold, OpenTimeout,
    MaxAttempts           \* maxAttempts of the RetryTransport

ASSUME CallAssumption ==
    /\ MaxAttempts \in Nat \ {0}
    /\ CircuitThreshold \in Nat \ {0}
    /\ OpenTimeout \in Nat \ {0}
    /\ InitialEndpoints = Endpoints

VARIABLES
    circuit, circuitGeneration, circuitFailures, cooldown,    \* the breaker,
    circuitPhase, circuitPermit, circuitOutcome,              \* its permits
    stage,         \* where each request is
    target,        \* the endpoint it has been given
    repeatable,    \* whether it is a GET or HEAD without a body
    ended,         \* whether its context has ended
    attempts,      \* calls of the http.Transport made for it
    result         \* what came back last

breakerVars == <<circuit, circuitGeneration, circuitFailures, cooldown,
                 circuitPhase, circuitPermit, circuitOutcome>>
callVars == <<stage, target, repeatable, ended, attempts, result>>
vars == <<breakerVars, passiveVars, callVars>>

Breaker == INSTANCE CircuitBreaker WITH
    FailureThreshold <- CircuitThreshold,
    state <- circuit, generation <- circuitGeneration,
    consecutiveFailures <- circuitFailures,
    phase <- circuitPhase, permit <- circuitPermit, outcome <- circuitOutcome

Responses == {"status_5xx", "status_other"}
Errors == {"transport_error", "context_error", "circuit_open",
           "no_healthy_endpoints"}

Init ==
    /\ Breaker!Init
    /\ PassiveInit
    /\ stage = [r \in Requests |-> "idle"]
    /\ target = [r \in Requests |-> NoEndpoint]
    /\ repeatable = [r \in Requests |-> FALSE]
    /\ ended = [r \in Requests |-> FALSE]
    /\ attempts = [r \in Requests |-> 0]
    /\ result = [r \in Requests |-> "none"]

Goto(r, s) == stage' = [stage EXCEPT ![r] = s]

GoWith(r, s, res) == Goto(r, s) /\ result' = [result EXCEPT ![r] = res]

requestRest == <<target, repeatable, ended>>

-----------------------------------------------------------------------------

Rejects ==
    \/ circuit = "half_open"
    \/ circuit = "open" /\ cooldown > 0

\* proxy.ServeHTTP hands over a request with the endpoint it has acquired, and
\* CircuitBreakerTransport.RoundTrip takes its permit ...
PassBreaker(r, e, isRepeatable) ==
    /\ stage[r] = "idle"
    /\ Breaker!AcquirePermit(r)
    /\ target' = [target EXCEPT ![r] = e]
    /\ repeatable' = [repeatable EXCEPT ![r] = isRepeatable]
    /\ Goto(r, "admitted")
    /\ UNCHANGED <<passiveVars, ended, attempts, result>>

\* ... or gives up.
RejectedByBreaker(r) ==
    /\ stage[r] = "idle"
    /\ Rejects
    /\ GoWith(r, "rejected", "circuit_open")
    /\ UNCHANGED <<breakerVars, passiveVars, requestRest, attempts>>

\* req.Context() ends, for good.  (Before the http.Transport is called, nobody
\* looks; after the breaker has classified, nobody does any more.)
EndContext(r) ==
    /\ stage[r] \in {"sending", "waiting", "tried", "returned"}
    /\ ~ended[r]
    /\ ended' = [ended EXCEPT ![r] = TRUE]
    /\ UNCHANGED <<breakerVars, passiveVars, stage, target, repeatable, attempts,
                   result>>

\* PassiveHealthTransport.RoundTrip takes its permit and calls the
\* RetryTransport, or gives up, which the breaker sees as an error.
PassPassive(r) ==
    /\ stage[r] = "admitted"
    /\ AcquirePermit(r, target[r])
    /\ Goto(r, "sending")
    /\ attempts' = [attempts EXCEPT ![r] = 1]
    /\ UNCHANGED <<breakerVars, requestRest, result>>

RefusedByPassive(r) ==
    /\ stage[r] = "admitted"
    /\ PermitDenied(target[r])
    /\ GoWith(r, "returned", "no_healthy_endpoints")
    /\ UNCHANGED <<breakerVars, passiveVars, requestRest, attempts>>

\* What the http.Transport may come back with.
MayReturn(r, res) ==
    \/ res \in Responses \cup {"transport_error"}
    \/ res = "context_error" /\ ended[r]

\* Mutant: one attempt is made less than allowed.
AttemptsLeftEarly(r) == attempts[r] + 1 < MaxAttempts

\* Mutant: one attempt is made more than allowed.
AttemptsLeftLate(r) == attempts[r] <= MaxAttempts

AttemptsLeft(r) == attempts[r] < MaxAttempts

\* Mutant: the method and the body of the request are not looked at.
ShouldRetryAnything(r, res) == res \in Errors /\ ~ended[r]

\* shouldRetry: an error, a context that goes on, a request to repeat.
ShouldRetry(r, res) == res \in Errors /\ ~ended[r] /\ repeatable[r]

AttemptEnds(r, res) ==
    /\ stage[r] = "sending"
    /\ MayReturn(r, res)
    /\ IF ShouldRetry(r, res) /\ AttemptsLeft(r)
       THEN GoWith(r, "waiting", "none")
       ELSE GoWith(r, "tried", res)
    /\ UNCHANGED <<breakerVars, passiveVars, requestRest, attempts>>

\* Mutant: the attempts are not counted.
RetryUncounted(r) ==
    /\ stage[r] = "waiting"
    /\ Goto(r, "sending")
    /\ UNCHANGED <<breakerVars, passiveVars, requestRest, attempts, result>>

\* waitForRetry: the timer fires, or the context ends, and when both have
\* happened the select takes either.
Retry(r) ==
    /\ stage[r] = "waiting"
    /\ Goto(r, "sending")
    /\ attempts' = [attempts EXCEPT ![r] = @ + 1]
    /\ UNCHANGED <<breakerVars, passiveVars, requestRest, result>>

GiveUpRetry(r) ==
    /\ stage[r] = "waiting"
    /\ ended[r]
    /\ GoWith(r, "tried", "context_error")
    /\ UNCHANGED <<breakerVars, passiveVars, requestRest, attempts>>

Classified(res) == IF res \in Errors THEN "error" ELSE res

\* PassiveHealthTransport classifies and records ...
RecordPassive(r) ==
    /\ stage[r] = "tried"
    /\ RecordOutcome(r, ClassifyOutcome(ended[r], Classified(result[r])))
    /\ Goto(r, "returned")
    /\ UNCHANGED <<breakerVars, requestRest, attempts, result>>

Forget(r) ==
    /\ target' = [target EXCEPT ![r] = NoEndpoint]
    /\ repeatable' = [repeatable EXCEPT ![r] = FALSE]
    /\ ended' = [ended EXCEPT ![r] = FALSE]
    /\ attempts' = [attempts EXCEPT ![r] = 0]

\* ... and then CircuitBreakerTransport classifies, after which nobody looks at
\* the request or its context any more, but for the answer ...
ClassifyForBreaker(r) ==
    /\ stage[r] = "returned"
    /\ Breaker!Respond(r, ended[r], Classified(result[r]))
    /\ GoWith(r, "classified", "none")
    /\ Forget(r)
    /\ UNCHANGED passiveVars

\* ... and records.
RecordBreaker(r) ==
    /\ stage[r] = "classified"
    /\ Breaker!RecordOutcome(r)
    /\ Goto(r, "idle")
    /\ UNCHANGED <<passiveVars, requestRest, attempts, result>>

\* A rejected request is answered.
AnswerRejected(r) ==
    /\ stage[r] = "rejected"
    /\ GoWith(r, "idle", "none")
    /\ UNCHANGED <<breakerVars, passiveVars, requestRest, attempts>>

\* statusCodeForProxyError: an error of the transport may say that the body was
\* too large or that a timeout passed, and the context's that it was a timeout.
StatusCodes(error) ==
    CASE error = "circuit_open" -> {503}
      [] error = "transport_error" -> {413, 502, 504}
      [] error = "context_error" -> {502, 504}
      [] error = "no_healthy_endpoints" -> {502}

\* Both clocks: what is left of the open timeout, and of ejections.
BreakerTick ==
    /\ Breaker!Tick
    /\ UNCHANGED <<passiveVars, callVars>>

EjectionTick ==
    /\ PassiveTick
    /\ UNCHANGED <<breakerVars, callVars>>

AnyAttemptEnds(r) ==
    \E res \in Responses \cup Errors : AttemptEnds(r, res)

GoOn(r) ==
    \/ PassPassive(r) \/ RefusedByPassive(r)
    \/ AnyAttemptEnds(r) \/ Retry(r) \/ GiveUpRetry(r)
    \/ RecordPassive(r) \/ ClassifyForBreaker(r) \/ RecordBreaker(r)
    \/ AnswerRejected(r)

Next ==
    \/ \E r \in Requests :
        \/ \E e \in Endpoints, isRepeatable \in BOOLEAN :
                PassBreaker(r, e, isRepeatable)
        \/ RejectedByBreaker(r) \/ EndContext(r) \/ GoOn(r)
    \/ BreakerTick
    \/ EjectionTick

Spec == Init /\ [][Next]_vars

\* The layers' own steps wait for mutexes only, a wait before a retry for its
\* timer.  An attempt is sure to end when its context does, which net/http looks
\* at in all its stages, and not otherwise: the response header timeout starts
\* when the body has been written, which is up to the client and the upstream.
OwnStep(r) == GoOn(r) /\ (stage[r] = "sending" => ended[r])

FairSpec == Spec /\ \A r \in Requests : WF_vars(OwnStep(r))

-----------------------------------------------------------------------------

Stages == {"idle", "admitted", "sending", "waiting", "tried", "returned",
           "classified", "rejected"}

CallTypeOK ==
    /\ Breaker!TypeOK
    /\ PassiveTypeOK
    /\ stage \in [Requests -> Stages]
    /\ target \in [Requests -> Endpoints \cup {NoEndpoint}]
    /\ repeatable \in [Requests -> BOOLEAN]
    /\ ended \in [Requests -> BOOLEAN]
    /\ attempts \in [Requests -> 0 .. MaxAttempts]
    /\ result \in [Requests -> Responses \cup Errors \cup {"none"}]

\* A request that may not be repeated reaches an upstream at most once.
SentOnceUnlessRepeatable ==
    \A r \in Requests : attempts[r] > 1 => repeatable[r]

\* e is held against by a step: a failure is counted, or completes a streak.
HeldAgainst(e) ==
    \/ state'[e].failures > state[e].failures
    \/ state[e].ejection = NotEjected /\ state'[e].ejection > 0

\* So is the route: the breaker counts a failure, or its open timeout starts.
HeldAgainstRoute ==
    circuitFailures' > circuitFailures \/ cooldown' > cooldown

\* What r came back with is the answer 5xx or the error of its last permitted
\* attempt, and its context goes on.
FinalFailure(r) ==
    /\ ~ended[r]
    /\ \/ result[r] = "status_5xx"
       \/ result[r] \in Errors
            /\ attempts[r] = IF repeatable[r] THEN MaxAttempts ELSE 1

\* Its endpoint had been ejected by the time it was to be sent.
RefusedUnsent(r) ==
    ~ended[r] /\ result[r] = "no_healthy_endpoints" /\ attempts[r] = 0

\* "Passive health observes the final result after retries, and requests
\* rejected by the route circuit breaker are not counted as endpoint failures"
\* (README.md:271), whatever else happens to the endpoint meanwhile.  Nor does
\* the breaker count anything else: it classifies what the layers below have
\* come back with for good, and what it holds against the route later is an
\* outcome it has classified as a failure, of a permit that is still current.
FinalResultOnly ==
    [][/\ \A e \in Endpoints : HeldAgainst(e) =>
            \E r \in Requests :
                stage[r] = "tried" /\ target[r] = e /\ FinalFailure(r)
       /\ \A r \in Requests :
            circuitOutcome'[r] = "failure" /\ circuitOutcome[r] # "failure" =>
                stage[r] = "returned" /\ (FinalFailure(r) \/ RefusedUnsent(r))
       /\ HeldAgainstRoute =>
            \E r \in Requests :
                /\ stage[r] = "classified" /\ circuitOutcome[r] = "failure"
                /\ circuitPermit[r].generation = circuitGeneration
      ]_vars

\* A request never gets stuck between the layers, and none of them loops: a call
\* that never ends is for ever in one attempt, whose context never ends.
CallEnds ==
    \A r \in Requests :
        <>[](stage[r] # "idle") => <>[](stage[r] = "sending" /\ ~ended[r])

\* "If no eligible endpoint remains, DevGate fails closed with 503 Service
\* Unavailable without attempting an upstream request" (README.md:276).
FailsClosedWith503 ==
    \A r \in Requests :
        stage[r] \in {"rejected", "returned"} /\ attempts[r] = 0 =>
            StatusCodes(result[r]) = {503}

=============================================================================
