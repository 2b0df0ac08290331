------------------------ MODULE CircuitBreakerProofs ------------------------
(****************************************************************************)
(* Safety of the circuit breaker for any set of requests, any threshold and *)
(* any open timeout.  The fact that carries the proofs is that the next     *)
(* generation is in nobody's hands (NextGenerationIsFree): the moment the   *)
(* breaker changes its mode, it awaits nobody any more.                     *)
(****************************************************************************)
EXTENDS CircuitBreaker, TLAPS

\* No permit in use has the next generation.
LEMMA NextGenerationIsFree ==
    ASSUME permit \in [Requests -> Permits]
    PROVE  /\ NextGeneration \in Generations
           /\ \A r \in InTransport : permit[r].generation # NextGeneration
<1> DEFINE held == [r \in Requests |-> permit[r].generation]
<1>1. held \in [Requests -> Generations]
    BY DEF Permits
<1>2. \E g \in Generations : \A r \in Requests : held[r] # g
    BY <1>1, BreakerAssumption
<1>3. \E g \in Generations : \A r \in InTransport : permit[r].generation # g
    BY <1>2 DEF InTransport
<1> QED BY <1>3 DEF NextGeneration

-----------------------------------------------------------------------------

LEMMA TypeInit == Init => TypeOK
BY BreakerAssumption
   DEF Init, TypeOK, States, Phases, Permits, NoPermit, Outcomes

LEMMA ClassifyType ==
    ASSUME NEW contextDone \in BOOLEAN, NEW result \in Results
    PROVE  ClassifyOutcome(contextDone, result) \in Outcomes
BY DEF ClassifyOutcome, Results, Outcomes

LEMMA TypeStep == TypeOK /\ [Next]_vars => TypeOK'
<1> SUFFICES ASSUME TypeOK, [Next]_vars PROVE TypeOK'
    OBVIOUS
<1> USE DEF TypeOK
<1>1. ASSUME NEW r \in Requests, AcquirePermit(r) PROVE TypeOK'
    <2>1. ASSUME NEW isProbe \in BOOLEAN, Grant(r, isProbe)
          PROVE  /\ phase' \in [Requests -> Phases]
                 /\ permit' \in [Requests -> Permits]
                 /\ UNCHANGED <<generation, consecutiveFailures, cooldown, outcome>>
        BY <2>1 DEF Grant, Phases, Permits
    <2>2. state' \in States
        BY <1>1 DEF AcquirePermit, AdmitRequest, AdmitProbe, States
    <2> QED BY <1>1, <2>1, <2>2 DEF AcquirePermit, AdmitRequest, AdmitProbe
<1>2. ASSUME NEW r \in Requests, AnyRespond(r) PROVE TypeOK'
    <2> PICK contextDone \in BOOLEAN, result \in Results :
                Respond(r, contextDone, result)
        BY <1>2 DEF AnyRespond
    <2> QED BY ClassifyType DEF Respond, breakerVars, Phases
<1>3. ASSUME NEW r \in Requests, RecordOutcome(r) PROVE TypeOK'
    <2>1. ASSUME Leave(r)
          PROVE  /\ phase' \in [Requests -> Phases]
                 /\ permit' \in [Requests -> Permits]
                 /\ outcome' \in [Requests -> Outcomes]
        BY <2>1, BreakerAssumption
           DEF Leave, Phases, NoPermit, Permits, Outcomes
    <2>2. CASE RecordStale(r)
        BY <2>1, <2>2 DEF RecordStale, breakerVars
    <2>3. CASE RecordProbe(r)
        <3>1. outcome[r] \in Outcomes
            OBVIOUS
        <3>2. cooldown' \in 0 .. OpenTimeout
            BY <2>3, <3>1, BreakerAssumption DEF RecordProbe, Outcomes
        <3>3. state' \in States
            BY <2>3 DEF RecordProbe, States
        <3>4. consecutiveFailures' \in 0 .. FailureThreshold - 1
            BY <2>3, BreakerAssumption DEF RecordProbe
        <3>5. generation' \in Generations
            BY <2>3, NextGenerationIsFree DEF RecordProbe
        <3> QED
            BY <2>1, <2>3, <3>2, <3>3, <3>4, <3>5 DEF RecordProbe
    <2>4. CASE RecordTrip(r)
        BY <2>1, <2>4, NextGenerationIsFree, BreakerAssumption
           DEF RecordTrip, States
    <2>5. CASE RecordAdmitted(r)
        <3>1. outcome[r] \in Outcomes
            OBVIOUS
        <3>2. consecutiveFailures' \in 0 .. FailureThreshold - 1
            BY <2>5, <3>1, BreakerAssumption
               DEF RecordAdmitted, CompletesStreak, Outcomes
        <3> QED
            BY <2>1, <2>5, <3>2 DEF RecordAdmitted
    <2> QED BY <1>3, <2>2, <2>3, <2>4, <2>5 DEF RecordOutcome
<1>4. CASE Tick
    BY <1>4, BreakerAssumption DEF Tick, requestVars
<1>5. CASE UNCHANGED vars
    BY <1>5 DEF vars, breakerVars, requestVars
<1> QED BY <1>1, <1>2, <1>3, <1>4, <1>5 DEF Next

\* Every variable keeps its type; in particular the failure count never
\* reaches the threshold.
THEOREM TypeCorrect == Spec => []TypeOK
BY TypeInit, TypeStep, PTL DEF Spec

-----------------------------------------------------------------------------
(* What the three ways of touching the permits do to the awaited requests.  *)

\* A grant adds its request to the awaited ones.
LEMMA GrantAwaits ==
    ASSUME TypeOK, NEW r \in Requests, NEW isProbe \in BOOLEAN, Grant(r, isProbe)
    PROVE  /\ r \notin InTransport
           /\ r \in InTransport'
           /\ Awaited' = Awaited \cup {r}
           /\ permit'[r].probe = isProbe
           /\ \A q \in Requests \ {r} : permit'[q] = permit[q]
<1>1. /\ phase[r] = "idle"
      /\ phase' = [phase EXCEPT ![r] = "in_flight"]
      /\ permit' = [permit EXCEPT
                    ![r] = [generation |-> generation, probe |-> isProbe]]
      /\ generation' = generation
    BY DEF Grant
<1>2. InTransport' = InTransport \cup {r} /\ r \notin InTransport
    BY <1>1 DEF InTransport, TypeOK
<1>3. /\ permit'[r].generation = generation
      /\ permit'[r].probe = isProbe
      /\ \A q \in Requests \ {r} : permit'[q] = permit[q]
    BY <1>1 DEF TypeOK
<1>4. Awaited' = Awaited \cup {r}
    BY <1>1, <1>2, <1>3 DEF Awaited, Current, InTransport
<1> QED BY <1>2, <1>3, <1>4

\* A request that leaves without a bump is no longer awaited; the others are
\* as they were.
LEMMA LeaveAwaits ==
    ASSUME TypeOK, NEW r \in Requests, Leave(r), UNCHANGED generation
    PROVE  /\ Awaited' = Awaited \ {r}
           /\ \A q \in Requests \ {r} : permit'[q] = permit[q]
           /\ InTransport' = InTransport \ {r}
<1>1. /\ \A q \in Requests \ {r} : permit'[q] = permit[q] /\ phase'[q] = phase[q]
      /\ phase'[r] = "idle"
    BY DEF Leave, TypeOK
<1>2. InTransport' = InTransport \ {r}
    BY <1>1 DEF InTransport
<1>3. Awaited' = Awaited \ {r}
    BY <1>1, <1>2 DEF Awaited, Current, InTransport
<1> QED BY <1>1, <1>2, <1>3

\* A bump leaves nobody awaited.
LEMMA BumpAwaitsNobody ==
    ASSUME TypeOK, NEW r \in Requests, Leave(r), generation' = NextGeneration
    PROVE  Awaited' = {}
<1>1. \A q \in InTransport : permit[q].generation # NextGeneration
    BY NextGenerationIsFree DEF TypeOK
<1>2. \A q \in InTransport' : q \in InTransport /\ permit'[q] = permit[q]
    BY DEF InTransport, Leave, TypeOK
<1> QED BY <1>1, <1>2 DEF Awaited, Current

-----------------------------------------------------------------------------

LEMMA InvInit == Init => IInv
<1> SUFFICES ASSUME Init PROVE IInv
    OBVIOUS
<1>1. InTransport = {}
    BY DEF Init, InTransport
<1>2. Awaited = {} /\ AwaitedProbes = {}
    BY <1>1 DEF Awaited, AwaitedProbes
<1> QED BY <1>2, TypeInit
        DEF IInv, Init, PermitsMatchState, StreakOnlyClosed

LEMMA InvStep == IInv /\ [Next]_vars => IInv'
<1> SUFFICES ASSUME IInv, [Next]_vars
             PROVE  PermitsMatchState' /\ StreakOnlyClosed'
    BY TypeStep DEF IInv
<1>t. TypeOK /\ PermitsMatchState /\ StreakOnlyClosed
    BY DEF IInv
<1>1. ASSUME NEW r \in Requests, AdmitRequest(r)
      PROVE  PermitsMatchState' /\ StreakOnlyClosed'
    <2>1. /\ Awaited' = Awaited \cup {r}
          /\ permit'[r].probe = FALSE
          /\ \A q \in Requests \ {r} : permit'[q] = permit[q]
          /\ r \notin InTransport
        BY <1>t, <1>1, GrantAwaits DEF AdmitRequest
    <2>2. state = "closed" /\ state' = "closed"
        BY <1>1 DEF AdmitRequest
    <2>3. AwaitedProbes' = {}
        BY <1>t, <2>1, <2>2
           DEF PermitsMatchState, AwaitedProbes, Awaited, InTransport
    <2> QED BY <2>2, <2>3 DEF PermitsMatchState, StreakOnlyClosed
<1>2. ASSUME NEW r \in Requests, AdmitProbe(r)
      PROVE  PermitsMatchState' /\ StreakOnlyClosed'
    <2>1. /\ Awaited' = Awaited \cup {r}
          /\ permit'[r].probe = TRUE
          /\ r \in InTransport'
        BY <1>t, <1>2, GrantAwaits DEF AdmitProbe
    <2>2. state = "open" /\ state' = "half_open"
        BY <1>2 DEF AdmitProbe
    <2>3. Awaited' = {r}
        BY <1>t, <2>1, <2>2 DEF PermitsMatchState
    <2>4. consecutiveFailures' = 0
        BY <1>t, <1>2, <2>2 DEF AdmitProbe, Grant, StreakOnlyClosed
    <2> QED
        BY <2>1, <2>2, <2>3, <2>4 DEF PermitsMatchState, StreakOnlyClosed
<1>3. ASSUME NEW r \in Requests, AnyRespond(r)
      PROVE  PermitsMatchState' /\ StreakOnlyClosed'
    <2>1. phase' = [phase EXCEPT ![r] = "responded"] /\ phase[r] = "in_flight"
          /\ UNCHANGED <<state, generation, consecutiveFailures, permit>>
        BY <1>3 DEF AnyRespond, Respond, breakerVars
    <2>2. InTransport' = InTransport
        BY <1>t, <2>1 DEF InTransport, TypeOK
    <2>3. Awaited' = Awaited /\ AwaitedProbes' = AwaitedProbes
        BY <2>1, <2>2 DEF Awaited, AwaitedProbes, Current
    <2> QED
        BY <1>t, <2>1, <2>2, <2>3
           DEF PermitsMatchState, StreakOnlyClosed
<1>4. ASSUME NEW r \in Requests, RecordStale(r)
      PROVE  PermitsMatchState' /\ StreakOnlyClosed'
    <2>1. UNCHANGED breakerVars /\ Leave(r) /\ ~Heeded(r) /\ r \in InTransport
        BY <1>4 DEF RecordStale, Leave, InTransport
    <2>2. r \notin Awaited
        BY <1>t, <2>1
           DEF PermitsMatchState, Heeded, Awaited, AwaitedProbes, TypeOK, States,
               Permits
    <2>3. /\ Awaited' = Awaited
          /\ InTransport' = InTransport \ {r}
          /\ \A q \in Requests \ {r} : permit'[q] = permit[q]
        BY <1>t, <2>1, <2>2, LeaveAwaits DEF breakerVars
    <2>4. AwaitedProbes' = AwaitedProbes
        BY <2>2, <2>3 DEF AwaitedProbes, Awaited, InTransport
    <2>5. PermitsMatchState'
        <3>1. ASSUME NEW q \in InTransport, permit[q].probe, Awaited = {q}
              PROVE  q \in InTransport' /\ permit'[q].probe
            BY <2>2, <2>3, <3>1 DEF InTransport
        <3>2. state' = "half_open" =>
                \E q \in InTransport' : permit'[q].probe /\ Awaited' = {q}
            BY <1>t, <2>1, <2>3, <3>1 DEF PermitsMatchState, breakerVars
        <3> QED
            BY <1>t, <2>1, <2>3, <2>4, <3>2 DEF PermitsMatchState, breakerVars
    <2> QED
        BY <1>t, <2>1, <2>5 DEF StreakOnlyClosed, breakerVars
<1>5. ASSUME NEW r \in Requests, RecordProbe(r) \/ RecordTrip(r)
      PROVE  PermitsMatchState' /\ StreakOnlyClosed'
    <2>1. Awaited' = {}
        BY <1>t, <1>5, BumpAwaitsNobody DEF RecordProbe, RecordTrip, Heeded
    <2>2. state' \in {"closed", "open"} /\ consecutiveFailures' = 0
        BY <1>5 DEF RecordProbe, RecordTrip
    <2>3. AwaitedProbes' = {}
        BY <2>1 DEF AwaitedProbes
    <2> QED
        BY <2>1, <2>2, <2>3 DEF PermitsMatchState, StreakOnlyClosed
<1>6. ASSUME NEW r \in Requests, RecordAdmitted(r)
      PROVE  PermitsMatchState' /\ StreakOnlyClosed'
    <2>1. Leave(r) /\ UNCHANGED <<state, generation>> /\ state = "closed"
        BY <1>6 DEF RecordAdmitted, Heeded
    <2>2. /\ Awaited' = Awaited \ {r}
          /\ \A q \in Requests \ {r} : permit'[q] = permit[q]
        BY <1>t, <2>1, LeaveAwaits
    <2>3. AwaitedProbes' = {}
        BY <1>t, <2>1, <2>2
           DEF PermitsMatchState, AwaitedProbes, Awaited, InTransport
    <2> QED
        BY <1>t, <2>1, <2>2, <2>3
           DEF PermitsMatchState, StreakOnlyClosed
<1>7. CASE Tick \/ UNCHANGED vars
    <2>1. UNCHANGED <<state, generation, consecutiveFailures, phase, permit>>
        BY <1>7 DEF Tick, vars, breakerVars, requestVars
    <2>2. InTransport' = InTransport
        BY <2>1 DEF InTransport
    <2>3. Awaited' = Awaited /\ AwaitedProbes' = AwaitedProbes
        BY <2>1, <2>2 DEF Awaited, AwaitedProbes, Current
    <2> QED
        BY <1>t, <2>1, <2>2, <2>3
           DEF PermitsMatchState, StreakOnlyClosed
<1> QED
    BY <1>1, <1>2, <1>3, <1>4, <1>5, <1>6, <1>7
       DEF Next, AcquirePermit, RecordOutcome

\* The breaker waits for the one probe when half-open, for nobody when open,
\* and for no probe when closed: requests of earlier periods are never
\* counted, however long they run.
THEOREM PermitsAlwaysMatchState == Spec => []PermitsMatchState
<1>1. IInv => PermitsMatchState
    BY DEF IInv
<1> QED BY <1>1, InvInit, InvStep, PTL DEF Spec

-----------------------------------------------------------------------------
(* The refinement: every step of the breaker is a step of the contract, or  *)
(* changes nothing the contract speaks of.                                  *)

LEMMA ContractInit == Init => Contract!Init
<1> SUFFICES ASSUME Init PROVE Contract!Init
    OBVIOUS
<1>1. AwaitedProbes = {} /\ AwaitedOrdinary = {}
    BY DEF Init, AwaitedProbes, AwaitedOrdinary, Awaited, InTransport
<1> QED BY <1>1 DEF Init, Contract!Init

\* A probe and an ordinary request are two different things, and an open
\* breaker waits for neither.
LEMMA AwaitedByState ==
    ASSUME PermitsMatchState
    PROVE  /\ state = "closed" => AwaitedProbes = {}
           /\ state = "open" => AwaitedProbes = {} /\ AwaitedOrdinary = {}
           /\ state = "half_open" => AwaitedOrdinary = {}
BY DEF PermitsMatchState, AwaitedProbes, AwaitedOrdinary

LEMMA ContractStep ==
    ASSUME IInv, IInv', [Next]_vars
    PROVE  [Contract!Next]_(Contract!contractVars)
<1> DEFINE Step == [Contract!Next]_(Contract!contractVars)
<1>t. TypeOK /\ PermitsMatchState /\ StreakOnlyClosed
    BY DEF IInv
<1>s. ASSUME AwaitedProbes' = AwaitedProbes, AwaitedOrdinary' = AwaitedOrdinary,
             UNCHANGED <<state, consecutiveFailures>>
      PROVE  Step
    BY <1>s DEF Contract!contractVars
<1>1. ASSUME NEW r \in Requests, AdmitRequest(r) PROVE Step
    <2>1. /\ Awaited' = Awaited \cup {r}
          /\ permit'[r].probe = FALSE
          /\ \A q \in Requests \ {r} : permit'[q] = permit[q]
          /\ r \notin InTransport
        BY <1>t, <1>1, GrantAwaits DEF AdmitRequest
    <2>2. state = "closed" /\ state' = "closed"
          /\ consecutiveFailures' = consecutiveFailures
        BY <1>1 DEF AdmitRequest, Grant
    <2>3. Awaited \subseteq Requests \ {r}
        BY <2>1 DEF Awaited, InTransport
    <2>4. AwaitedOrdinary' = AwaitedOrdinary \cup {r} /\ r \notin AwaitedOrdinary
        BY <2>1, <2>3 DEF AwaitedOrdinary
    <2>5. AwaitedProbes' = AwaitedProbes
        BY <2>1, <2>3 DEF AwaitedProbes
    <2>6. Contract!Admit(r)
        BY <2>2, <2>4, <2>5 DEF Contract!Admit
    <2> QED BY <2>6 DEF Contract!Next
<1>2. ASSUME NEW r \in Requests, AdmitProbe(r) PROVE Step
    <2>1. /\ Awaited' = Awaited \cup {r}
          /\ permit'[r].probe = TRUE
        BY <1>t, <1>2, GrantAwaits DEF AdmitProbe
    <2>2. /\ state = "open" /\ state' = "half_open"
          /\ consecutiveFailures' = consecutiveFailures
        BY <1>2 DEF AdmitProbe, Grant
    <2>3. Awaited = {} /\ AwaitedProbes = {} /\ AwaitedOrdinary = {}
        BY <1>t, <2>2, AwaitedByState DEF PermitsMatchState
    <2>4. AwaitedProbes' = {r} /\ AwaitedOrdinary' = {}
        BY <2>1, <2>3 DEF AwaitedProbes, AwaitedOrdinary
    <2>5. Contract!Probe(r)
        BY <2>2, <2>3, <2>4 DEF Contract!Probe
    <2> QED BY <2>5 DEF Contract!Next
<1>3. ASSUME NEW r \in Requests, AnyRespond(r) PROVE Step
    <2>1. phase' = [phase EXCEPT ![r] = "responded"] /\ phase[r] = "in_flight"
          /\ UNCHANGED <<state, generation, consecutiveFailures, permit>>
        BY <1>3 DEF AnyRespond, Respond, breakerVars
    <2>2. InTransport' = InTransport
        BY <1>t, <2>1 DEF InTransport, TypeOK
    <2>3. AwaitedOrdinary' = AwaitedOrdinary /\ AwaitedProbes' = AwaitedProbes
        BY <2>1, <2>2 DEF Awaited, AwaitedProbes, AwaitedOrdinary, Current
    <2> QED BY <1>s, <2>1, <2>3
<1>4. ASSUME NEW r \in Requests, RecordStale(r) PROVE Step
    <2>1. UNCHANGED breakerVars /\ Leave(r) /\ ~Heeded(r)
        BY <1>4 DEF RecordStale
    <2>2. r \notin Awaited
        BY <1>t, <2>1
           DEF PermitsMatchState, Heeded, Awaited, AwaitedProbes, TypeOK, States,
               Permits
    <2>3. /\ Awaited' = Awaited
          /\ \A q \in Requests \ {r} : permit'[q] = permit[q]
        BY <1>t, <2>1, <2>2, LeaveAwaits DEF breakerVars
    <2>4. AwaitedOrdinary' = AwaitedOrdinary /\ AwaitedProbes' = AwaitedProbes
        BY <2>2, <2>3 DEF AwaitedProbes, AwaitedOrdinary, Awaited, InTransport
    <2> QED BY <1>s, <2>1, <2>4 DEF breakerVars
<1>5. ASSUME NEW r \in Requests, RecordProbe(r) PROVE Step
    <2>1. Awaited' = {}
        BY <1>t, <1>5, BumpAwaitsNobody DEF RecordProbe, Heeded
    <2>2. AwaitedProbes' = {} /\ AwaitedOrdinary' = {}
        BY <2>1 DEF AwaitedProbes, AwaitedOrdinary
    <2>3. state = "half_open" /\ r \in AwaitedProbes
        BY <1>5 DEF RecordProbe, Heeded, Leave, AwaitedProbes, Awaited, InTransport
    <2>4. AwaitedOrdinary = {}
        BY <1>t, <2>3, AwaitedByState
    <2>5. consecutiveFailures' = consecutiveFailures
        BY <1>t, <1>5, <2>3 DEF RecordProbe, StreakOnlyClosed
    <2>6. CASE state' = "closed"
        <3>1. Contract!ProbeSucceeds
            BY <2>2, <2>3, <2>4, <2>5, <2>6 DEF Contract!ProbeSucceeds
        <3> QED BY <3>1 DEF Contract!Next
    <2>7. CASE state' = "open"
        <3>1. Contract!ProbeEnds
            BY <2>2, <2>3, <2>4, <2>5, <2>7 DEF Contract!ProbeEnds
        <3> QED BY <3>1 DEF Contract!Next
    <2> QED BY <1>5, <2>6, <2>7 DEF RecordProbe
<1>6. ASSUME NEW r \in Requests, RecordTrip(r) PROVE Step
    <2>1. Awaited' = {}
        BY <1>t, <1>6, BumpAwaitsNobody DEF RecordTrip, Heeded
    <2>2. AwaitedProbes' = {} /\ AwaitedOrdinary' = {}
        BY <2>1 DEF AwaitedProbes, AwaitedOrdinary
    <2>3. state = "closed" /\ r \in AwaitedOrdinary
        BY <1>6 DEF RecordTrip, Heeded, Leave, AwaitedOrdinary, Awaited, InTransport
    <2>4. AwaitedProbes = {}
        BY <1>t, <2>3, AwaitedByState
    <2>5. /\ state' = "open"
          /\ consecutiveFailures' = 0
          /\ consecutiveFailures + 1 >= FailureThreshold
        BY <1>6 DEF RecordTrip, CompletesStreak
    <2>6. Contract!Trip(r)
        BY <2>2, <2>3, <2>4, <2>5 DEF Contract!Trip
    <2> QED BY <2>6 DEF Contract!Next
<1>7. ASSUME NEW r \in Requests, RecordAdmitted(r) PROVE Step
    <2>1. Leave(r) /\ UNCHANGED <<state, generation>> /\ state = "closed"
        BY <1>7 DEF RecordAdmitted, Heeded
    <2>2. /\ Awaited' = Awaited \ {r}
          /\ \A q \in Requests \ {r} : permit'[q] = permit[q]
        BY <1>t, <2>1, LeaveAwaits
    <2>3. r \in AwaitedOrdinary
        BY <1>7
           DEF RecordAdmitted, Heeded, Leave, AwaitedOrdinary, Awaited, InTransport
    <2>4. AwaitedOrdinary' = AwaitedOrdinary \ {r}
        BY <2>2 DEF AwaitedOrdinary, Awaited, InTransport
    <2>5. AwaitedProbes' = AwaitedProbes
        BY <2>2, <2>3 DEF AwaitedProbes, AwaitedOrdinary, Awaited, InTransport
    <2>6. CASE outcome[r] = "success"
        <3>1. Contract!Succeed(r)
            BY <1>7, <2>1, <2>3, <2>4, <2>5, <2>6
               DEF RecordAdmitted, Contract!Succeed
        <3> QED BY <3>1 DEF Contract!Next
    <2>7. CASE outcome[r] = "ignored"
        <3>1. Contract!Abandon(r)
            BY <1>7, <2>1, <2>3, <2>4, <2>5, <2>7
               DEF RecordAdmitted, Contract!Abandon
        <3> QED BY <3>1 DEF Contract!Next
    <2>8. CASE outcome[r] = "failure"
        <3>1. /\ consecutiveFailures' = consecutiveFailures + 1
              /\ consecutiveFailures + 1 < FailureThreshold
            BY <1>t, <1>7, <2>8, BreakerAssumption
               DEF RecordAdmitted, CompletesStreak, TypeOK
        <3>2. Contract!Fail(r)
            BY <2>1, <2>3, <2>4, <2>5, <3>1 DEF Contract!Fail
        <3> QED BY <3>2 DEF Contract!Next
    <2> QED BY <1>t, <2>6, <2>7, <2>8 DEF TypeOK, Outcomes
<1>8. CASE Tick \/ UNCHANGED vars
    <2>1. UNCHANGED <<state, generation, consecutiveFailures, phase, permit>>
        BY <1>8 DEF Tick, vars, breakerVars, requestVars
    <2>2. AwaitedOrdinary' = AwaitedOrdinary /\ AwaitedProbes' = AwaitedProbes
        BY <2>1 DEF Awaited, AwaitedProbes, AwaitedOrdinary, Current, InTransport
    <2> QED BY <1>s, <2>1, <2>2
<1> QED
    BY <1>1, <1>2, <1>3, <1>4, <1>5, <1>6, <1>7, <1>8
       DEF Next, AcquirePermit, RecordOutcome

\* The breaker implements its contract: only requests admitted since the last
\* change of mode count, only an unbroken streak of failures trips it, one
\* request at a time probes, and only that request's success closes it.
THEOREM BreakerImplementsContract == Spec => ImplementsContract
BY ContractInit, ContractStep, InvInit, InvStep, PTL
   DEF Spec, ImplementsContract, Contract!Spec

=============================================================================
