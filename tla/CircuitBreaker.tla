--------------------------- MODULE CircuitBreaker ---------------------------
(****************************************************************************)
(* The CircuitBreakerTransport of internal/proxy/circuit_breaker.go: one    *)
(* breaker shared by every request of a route.  A request takes a permit    *)
(* under the mutex, calls the base transport without it, classifies what    *)
(* came back, and reports the outcome under the mutex again, so any number  *)
(* of other requests run between its two critical sections.                 *)
(*                                                                          *)
(* Time is kept as what is left of the open timeout.  Generations are only  *)
(* ever compared for equality: where the code counts up, the model takes a  *)
(* number that no request in flight holds, as 2^64 of them will always do.  *)
(****************************************************************************)
EXTENDS Integers

CONSTANTS
    Requests,            \* requests that may be in the transport at once
    FailureThreshold,    \* failureThreshold, at least 1
    OpenTimeout,         \* openTimeout in ticks, positive
    Generations,         \* numbers for t.generation
    FirstGeneration      \* the one it starts with

\* The last conjunct: the requests in flight never hold every number.
ASSUME BreakerAssumption ==
    /\ FailureThreshold \in Nat \ {0}
    /\ OpenTimeout \in Nat \ {0}
    /\ FirstGeneration \in Generations
    /\ \A held \in [Requests -> Generations] :
            \E g \in Generations : \A r \in Requests : held[r] # g

VARIABLES
    state,                  \* t.state
    generation,             \* t.generation
    consecutiveFailures,    \* t.consecutiveFailures
    cooldown,               \* ticks until openedAt is openTimeout ago
    phase,                  \* where each request is in RoundTrip
    permit,                 \* the circuitPermit each request holds
    outcome                 \* the circuitOutcome each request will report

breakerVars == <<state, generation, consecutiveFailures, cooldown>>
requestVars == <<phase, permit, outcome>>
vars == <<breakerVars, requestVars>>

States == {"closed", "open", "half_open"}
Outcomes == {"ignored", "success", "failure"}
Permits == [generation : Generations, probe : BOOLEAN]
Phases == {"idle", "in_flight", "responded"}

\* What base.RoundTrip may hand back, as far as the classification looks.
Results == {"error", "no_response", "status_5xx", "status_other"}

NoPermit == [generation |-> FirstGeneration, probe |-> FALSE]

InTransport == {r \in Requests : phase[r] # "idle"}

\* t.generation++: a generation that nobody in flight has a permit of.
NextGeneration ==
    CHOOSE g \in Generations : \A r \in InTransport : permit[r].generation # g

-----------------------------------------------------------------------------

Init ==
    /\ state = "closed"
    /\ generation = FirstGeneration
    /\ consecutiveFailures = 0
    /\ cooldown = 0
    /\ phase = [r \in Requests |-> "idle"]
    /\ permit = [r \in Requests |-> NoPermit]
    /\ outcome = [r \in Requests |-> "ignored"]

Grant(r, isProbe) ==
    /\ phase[r] = "idle"
    /\ phase' = [phase EXCEPT ![r] = "in_flight"]
    /\ permit' = [permit EXCEPT
                    ![r] = [generation |-> generation, probe |-> isProbe]]
    /\ UNCHANGED <<generation, consecutiveFailures, cooldown, outcome>>

\* acquirePermit of a closed breaker.
AdmitRequest(r) ==
    /\ state = "closed"
    /\ Grant(r, FALSE)
    /\ UNCHANGED state

\* acquirePermit of an open breaker whose timeout has passed.
AdmitProbe(r) ==
    /\ state = "open"
    /\ cooldown = 0
    /\ Grant(r, TRUE)
    /\ state' = "half_open"

\* acquirePermit: in every other case the request gets ErrCircuitOpen and the
\* breaker is untouched.
AcquirePermit(r) == AdmitRequest(r) \/ AdmitProbe(r)

\* classifyCircuitOutcome looks at the request's context first.
ClassifyOutcome(contextDone, result) ==
    CASE contextDone -> "ignored"
      [] ~contextDone /\ result = "error" -> "failure"
      [] ~contextDone /\ result = "no_response" -> "ignored"
      [] ~contextDone /\ result = "status_5xx" -> "failure"
      [] ~contextDone /\ result = "status_other" -> "success"

\* base.RoundTrip returns, and the outcome is fixed before the mutex is taken.
Respond(r, contextDone, result) ==
    /\ phase[r] = "in_flight"
    /\ phase' = [phase EXCEPT ![r] = "responded"]
    /\ outcome' = [outcome EXCEPT ![r] = ClassifyOutcome(contextDone, result)]
    /\ UNCHANGED <<breakerVars, permit>>

\* A permit counts while no transition has come between.
Current(r) == permit[r].generation = generation

\* Mutant: the generation of a permit is not looked at.
HeededInAnyGeneration(r) ==
    state = IF permit[r].probe THEN "half_open" ELSE "closed"

\* The first two tests of recordOutcome: does the breaker listen to r at all?
Heeded(r) ==
    /\ Current(r)
    /\ state = IF permit[r].probe THEN "half_open" ELSE "closed"

Leave(r) ==
    /\ phase[r] = "responded"
    /\ phase' = [phase EXCEPT ![r] = "idle"]
    /\ permit' = [permit EXCEPT ![r] = NoPermit]
    /\ outcome' = [outcome EXCEPT ![r] = "ignored"]

\* recordOutcome of a request the breaker does not listen to.
RecordStale(r) ==
    /\ ~Heeded(r)
    /\ Leave(r)
    /\ UNCHANGED breakerVars

\* Mutant: an ignored probe returns as an ignored ordinary request does.
RecordProbeUnlessIgnored(r) ==
    /\ Heeded(r)
    /\ permit[r].probe
    /\ Leave(r)
    /\ IF outcome[r] = "ignored"
       THEN UNCHANGED breakerVars
       ELSE /\ state' = IF outcome[r] = "success" THEN "closed" ELSE "open"
            /\ cooldown' = IF outcome[r] = "success" THEN 0 ELSE OpenTimeout
            /\ consecutiveFailures' = 0
            /\ generation' = NextGeneration

\* recordOutcome of the probe: success closes, failure reopens and restarts
\* the timeout, an ignored outcome reopens and leaves openedAt as it was.
RecordProbe(r) ==
    /\ Heeded(r)
    /\ permit[r].probe
    /\ Leave(r)
    /\ state' = IF outcome[r] = "success" THEN "closed" ELSE "open"
    /\ cooldown' = CASE outcome[r] = "success" -> 0
                     [] outcome[r] = "failure" -> OpenTimeout
                     [] outcome[r] = "ignored" -> cooldown
    /\ consecutiveFailures' = 0
    /\ generation' = NextGeneration

\* Mutant: the streak is compared off by one.
CompletesStreakLate(failures) == failures > FailureThreshold

CompletesStreak(failures) == failures >= FailureThreshold

\* Mutant: the generation moves after a probe only.
RecordTripInSameGeneration(r) ==
    /\ Heeded(r)
    /\ ~permit[r].probe
    /\ outcome[r] = "failure"
    /\ CompletesStreak(consecutiveFailures + 1)
    /\ Leave(r)
    /\ state' = "open"
    /\ cooldown' = OpenTimeout
    /\ consecutiveFailures' = 0
    /\ UNCHANGED generation

\* recordOutcome of an ordinary request that trips the breaker.
RecordTrip(r) ==
    /\ Heeded(r)
    /\ ~permit[r].probe
    /\ outcome[r] = "failure"
    /\ CompletesStreak(consecutiveFailures + 1)
    /\ Leave(r)
    /\ state' = "open"
    /\ cooldown' = OpenTimeout
    /\ consecutiveFailures' = 0
    /\ generation' = NextGeneration

\* recordOutcome of an ordinary request that does not.
RecordAdmitted(r) ==
    /\ Heeded(r)
    /\ ~permit[r].probe
    /\ \/ outcome[r] # "failure"
       \/ ~CompletesStreak(consecutiveFailures + 1)
    /\ Leave(r)
    /\ consecutiveFailures' =
        CASE outcome[r] = "success" -> 0
          [] outcome[r] = "failure" -> consecutiveFailures + 1
          [] outcome[r] = "ignored" -> consecutiveFailures
    /\ UNCHANGED <<state, generation, cooldown>>

RecordOutcome(r) ==
    RecordStale(r) \/ RecordProbe(r) \/ RecordTrip(r) \/ RecordAdmitted(r)

\* now() moves on while part of the open timeout is left.
Tick ==
    /\ cooldown > 0
    /\ cooldown' = cooldown - 1
    /\ UNCHANGED <<state, generation, consecutiveFailures, requestVars>>

AnyRespond(r) ==
    \E contextDone \in BOOLEAN, result \in Results :
        Respond(r, contextDone, result)

Next ==
    \/ \E r \in Requests : AcquirePermit(r) \/ AnyRespond(r) \/ RecordOutcome(r)
    \/ Tick

Spec == Init /\ [][Next]_vars

\* recordOutcome follows the answer without waiting for anything but the mutex,
\* and time passes.  Nothing is assumed of the upstream: its answer may never
\* come, for the response header timeout starts only when the whole request has
\* been written, and the route's request timeout is optional.
FairSpec ==
    /\ Spec
    /\ \A r \in Requests : WF_vars(RecordOutcome(r))
    /\ WF_vars(Tick)

-----------------------------------------------------------------------------

TypeOK ==
    /\ state \in States
    /\ generation \in Generations
    /\ consecutiveFailures \in 0 .. FailureThreshold - 1
    /\ cooldown \in 0 .. OpenTimeout
    /\ phase \in [Requests -> Phases]
    /\ permit \in [Requests -> Permits]
    /\ outcome \in [Requests -> Outcomes]

\* The requests the breaker still waits for.
Awaited == {r \in InTransport : Current(r)}

AwaitedProbes == {r \in Awaited : permit[r].probe}

AwaitedOrdinary == {r \in Awaited : ~permit[r].probe}

\* A half-open breaker waits for one probe and for nobody else, an open one
\* waits for nobody, and a closed one waits for no probe.  Hence one request
\* at a time tests the upstream, whatever requests of earlier closed and
\* half-open periods are still running, and the state tests of recordOutcome
\* never turn a current permit away.
PermitsMatchState ==
    /\ state = "half_open" =>
        \E r \in InTransport : permit[r].probe /\ Awaited = {r}
    /\ state = "open" => Awaited = {}
    /\ state = "closed" => AwaitedProbes = {}

\* A failure streak is only ever counted by a closed breaker.
StreakOnlyClosed == state # "closed" => consecutiveFailures = 0

\* The inductive invariant of the safety proofs.
IInv == TypeOK /\ PermitsMatchState /\ StreakOnlyClosed

\* The breaker implements its contract: the generation is what makes the
\* requests of an earlier period stop counting, at the moment it moves.
Contract == INSTANCE BreakerContract WITH
    tripped <- state # "closed",
    counted <- AwaitedOrdinary,
    probe   <- AwaitedProbes,
    streak  <- consecutiveFailures

ImplementsContract == Contract!Spec

\* A call that tests the upstream, and has not come back.
Probing(r) == phase[r] = "in_flight" /\ permit[r].probe

NoProbeHangs == \A r \in Requests : []<>~Probing(r)

\* Only a call that never ends keeps the probe slot: a breaker that stays
\* half-open, and so rejects everybody, waits for ever for one upstream call.
\* Neither an ignored outcome nor any request of an earlier period does that.
ProbeResolves ==
    NoProbeHangs => (state = "half_open" ~> state # "half_open")

\* What the next property asks of the clients: a request comes whenever the
\* breaker would let one pass, and not all of them get stuck.
ClientsKeepComing ==
    /\ []<>(\E r \in Requests : phase[r] = "idle")
    /\ WF_vars(\E r \in Requests : AcquirePermit(r))

Healthy(r) == outcome[r] = "success" \/ phase[r] # "responded"

\* An upstream that from some time on answers well whatever it answers, and
\* answers the probes, whose clients wait for that, gets a breaker that closes
\* and stays closed, although ordinary requests of any period may hang, or come
\* back late.
HealsWithUpstream ==
    NoProbeHangs /\ ClientsKeepComing /\ <>[](\A r \in Requests : Healthy(r))
        => <>[](state = "closed")

=============================================================================
