-------------------------- MODULE UpstreamCallProofs --------------------------
(****************************************************************************)
(* The transports on top of one another, for any number of requests,        *)
(* endpoints and attempts.  Breaker and passive tracker in the stack take   *)
(* the steps of CircuitBreaker and PassiveHealthTracker and no others, so   *)
(* that what is known of the tracker's steps tells what a result is held    *)
(* against.                                                                 *)
(****************************************************************************)
EXTENDS UpstreamCall, PassiveHealthProofs

\* The call's own state, in its types and stage by stage.
StateOfCall(r) ==
    /\ stage[r] \in {"idle", "admitted", "rejected", "classified"} => attempts[r] = 0
    /\ stage[r] \in {"sending", "waiting"} => attempts[r] >= 1
    /\ stage[r] = "waiting" => attempts[r] < MaxAttempts /\ repeatable[r]
    /\ attempts[r] > 1 => repeatable[r]
    /\ stage[r] = "tried" /\ ~ended[r] /\ result[r] \in Errors => FinalFailure(r)
    /\ stage[r] = "returned" /\ ~ended[r] /\ result[r] \in Errors =>
        FinalFailure(r) \/ RefusedUnsent(r)
    /\ stage[r] \in {"tried", "returned"} => result[r] \in Responses \cup Errors
    /\ stage[r] = "admitted" => target[r] \in Endpoints

CallInv ==
    /\ stage \in [Requests -> Stages]
    /\ target \in [Requests -> Endpoints \cup {NoEndpoint}]
    /\ repeatable \in [Requests -> BOOLEAN]
    /\ ended \in [Requests -> BOOLEAN]
    /\ attempts \in [Requests -> 0 .. MaxAttempts]
    /\ result \in [Requests -> Responses \cup Errors \cup {"none"}]
    /\ \A r \in Requests : StateOfCall(r)

LEMMA CallInvInit == Init => CallInv
BY CallAssumption DEF Init, CallInv, StateOfCall, Stages

LEMMA GoOnInv ==
    ASSUME CallInv, NEW r \in Requests, GoOn(r)
    PROVE  CallInv'
<1> USE CallAssumption
    DEF CallInv, StateOfCall, FinalFailure, RefusedUnsent, Stages, Goto, GoWith,
        requestRest
<1>1. CASE PassPassive(r)
    BY <1>1 DEF PassPassive
<1>2. CASE RefusedByPassive(r)
    BY <1>2 DEF RefusedByPassive, Errors
<1>3. CASE AnyAttemptEnds(r)
    BY <1>3 DEF AnyAttemptEnds, AttemptEnds, ShouldRetry, AttemptsLeft
<1>4. CASE Retry(r)
    BY <1>4 DEF Retry
<1>5. CASE GiveUpRetry(r)
    BY <1>5 DEF GiveUpRetry, Errors
<1>6. CASE RecordPassive(r)
    BY <1>6 DEF RecordPassive
<1>7. CASE ClassifyForBreaker(r)
    BY <1>7 DEF ClassifyForBreaker, Forget
<1>8. CASE RecordBreaker(r)
    BY <1>8 DEF RecordBreaker
<1>9. CASE AnswerRejected(r)
    BY <1>9 DEF AnswerRejected
<1> QED
    BY <1>1, <1>2, <1>3, <1>4, <1>5, <1>6, <1>7, <1>8, <1>9 DEF GoOn

LEMMA CallInvStep == CallInv /\ [Next]_vars => CallInv'
<1> SUFFICES ASSUME CallInv, [Next]_vars PROVE CallInv'
    OBVIOUS
<1>1. ASSUME NEW r \in Requests, NEW e \in Endpoints, NEW isRepeatable \in BOOLEAN,
             PassBreaker(r, e, isRepeatable)
      PROVE  CallInv'
    BY <1>1 DEF PassBreaker, Goto, CallInv, StateOfCall, FinalFailure, RefusedUnsent,
                Stages
<1>2. ASSUME NEW r \in Requests, RejectedByBreaker(r) PROVE CallInv'
    BY <1>2 DEF RejectedByBreaker, GoWith, Goto, requestRest, CallInv, StateOfCall,
                FinalFailure, RefusedUnsent, Stages, Errors
<1>3. ASSUME NEW r \in Requests, EndContext(r) PROVE CallInv'
    BY <1>3 DEF EndContext, CallInv, StateOfCall, FinalFailure, RefusedUnsent
<1>4. ASSUME NEW r \in Requests, GoOn(r) PROVE CallInv'
    BY <1>4, GoOnInv
<1>5. CASE BreakerTick \/ EjectionTick \/ UNCHANGED vars
    BY <1>5 DEF BreakerTick, EjectionTick, vars, callVars, CallInv, StateOfCall,
                FinalFailure, RefusedUnsent
<1> QED BY <1>1, <1>2, <1>3, <1>4, <1>5 DEF Next

LEMMA CallInvariance == Spec => []CallInv
BY CallInvInit, CallInvStep, PTL DEF Spec

\* A POST, or a request with a body, reaches an upstream once at most, however
\* many attempts are allowed and whenever its context ends.
THEOREM AlwaysSentOnce == Spec => []SentOnceUnlessRepeatable
<1>1. CallInv => SentOnceUnlessRepeatable
    BY DEF CallInv, StateOfCall, SentOnceUnlessRepeatable
<1> QED BY <1>1, CallInvariance, PTL

-----------------------------------------------------------------------------
(* The two trackers of the stack.                                           *)

\* What a layer above hands over is a result.
LEMMA ClassifiedIsResult ==
    \A res \in Responses \cup Errors : Classified(res) \in Breaker!Results
BY DEF Responses, Errors, Classified, Breaker!Results

LEMMA BreakerStep == CallInv /\ [Next]_vars => [Breaker!Next]_(Breaker!vars)
<1> SUFFICES ASSUME CallInv, [Next]_vars
             PROVE  Breaker!Next \/ UNCHANGED breakerVars
    BY DEF breakerVars, Breaker!vars, Breaker!breakerVars, Breaker!requestVars
<1>1. ASSUME NEW r \in Requests, NEW e \in Endpoints, NEW isRepeatable \in BOOLEAN,
             PassBreaker(r, e, isRepeatable)
      PROVE  Breaker!Next
    BY <1>1 DEF PassBreaker, Breaker!Next
<1>2. ASSUME NEW r \in Requests, RejectedByBreaker(r) \/ EndContext(r)
      PROVE  UNCHANGED breakerVars
    BY <1>2 DEF RejectedByBreaker, EndContext
<1>3. ASSUME NEW r \in Requests, GoOn(r)
      PROVE  Breaker!Next \/ UNCHANGED breakerVars
    <2>1. CASE ClassifyForBreaker(r)
        <3>1. ended[r] \in BOOLEAN /\ result[r] \in Responses \cup Errors
            BY <2>1 DEF ClassifyForBreaker, CallInv, StateOfCall
        <3>2. Breaker!AnyRespond(r)
            BY <2>1, <3>1, ClassifiedIsResult DEF ClassifyForBreaker, Breaker!AnyRespond
        <3> QED BY <3>2 DEF Breaker!Next
    <2>2. CASE RecordBreaker(r)
        BY <2>2 DEF RecordBreaker, Breaker!Next
    <2>3. CASE ~ClassifyForBreaker(r) /\ ~RecordBreaker(r)
        BY <1>3, <2>3
           DEF GoOn, PassPassive, RefusedByPassive, AnyAttemptEnds, AttemptEnds, Retry,
               GiveUpRetry, RecordPassive, AnswerRejected
    <2> QED BY <2>1, <2>2, <2>3
<1>4. CASE BreakerTick
    BY <1>4 DEF BreakerTick, Breaker!Next
<1>5. CASE EjectionTick
    BY <1>5 DEF EjectionTick
<1>6. CASE UNCHANGED vars
    BY <1>6 DEF vars
<1> QED BY <1>1, <1>2, <1>3, <1>4, <1>5, <1>6 DEF Next

\* What is proved of CircuitBreaker holds of the breaker under any calls.
THEOREM BreakerInStack == Spec => Breaker!Spec
<1>1. Init => Breaker!Init
    BY DEF Init
<1> QED BY <1>1, BreakerStep, CallInvariance, PTL DEF Spec, Breaker!Spec

LEMMA PassiveStep == CallInv /\ [Next]_vars => [PassiveNext]_passiveVars
<1> SUFFICES ASSUME CallInv, [Next]_vars
             PROVE  PassiveNext \/ UNCHANGED passiveVars
    OBVIOUS
<1>1. ASSUME NEW r \in Requests, NEW e \in Endpoints, NEW isRepeatable \in BOOLEAN,
             PassBreaker(r, e, isRepeatable)
      PROVE  UNCHANGED passiveVars
    BY <1>1 DEF PassBreaker
<1>2. ASSUME NEW r \in Requests, RejectedByBreaker(r) \/ EndContext(r)
      PROVE  UNCHANGED passiveVars
    BY <1>2 DEF RejectedByBreaker, EndContext
<1>3. ASSUME NEW r \in Requests, GoOn(r)
      PROVE  PassiveNext \/ UNCHANGED passiveVars
    <2>1. CASE PassPassive(r)
        <3>1. target[r] \in Endpoints
            BY <2>1 DEF PassPassive, CallInv, StateOfCall
        <3> QED BY <2>1, <3>1 DEF PassPassive, PassiveNext
    <2>2. CASE RecordPassive(r)
        <3>1. ended[r] \in BOOLEAN /\ result[r] \in Responses \cup Errors
            BY <2>2 DEF RecordPassive, CallInv, StateOfCall
        <3>2. Classified(result[r]) \in Results
            BY <3>1, ClassifiedIsResult DEF Results, Breaker!Results
        <3>3. RoundTripEnds(r)
            BY <2>2, <3>1, <3>2 DEF RecordPassive, RoundTripEnds
        <3> QED BY <3>3 DEF PassiveNext
    <2>3. CASE ~PassPassive(r) /\ ~RecordPassive(r)
        BY <1>3, <2>3
           DEF GoOn, RefusedByPassive, AnyAttemptEnds, AttemptEnds, Retry, GiveUpRetry,
               ClassifyForBreaker, RecordBreaker, AnswerRejected
    <2> QED BY <2>1, <2>2, <2>3
<1>4. CASE BreakerTick
    BY <1>4 DEF BreakerTick
<1>5. CASE EjectionTick
    BY <1>5 DEF EjectionTick, PassiveNext
<1>6. CASE UNCHANGED vars
    BY <1>6 DEF vars
<1> QED BY <1>1, <1>2, <1>3, <1>4, <1>5, <1>6 DEF Next

\* What is proved of PassiveHealthTracker holds of passive health under any calls.
THEOREM PassiveInStack == Spec => PassiveSpec
<1>1. Init => PassiveInit
    BY DEF Init
<1> QED BY <1>1, PassiveStep, CallInvariance, PTL DEF Spec, PassiveSpec

\* Passive health in the stack keeps its promises: an ejected endpoint hears
\* nobody, and each endpoint lives by its contract.
THEOREM EjectionsInStack == Spec => []EjectedHearsNobody /\ ImplementsContract
BY PassiveInStack, EjectedNeverHears, TrackerImplementsContract

-----------------------------------------------------------------------------
(* What is held against an endpoint.                                        *)

\* The permit of a request is for the endpoint it has been given, until its
\* outcome is recorded.
PermitsMatchTargets ==
    \A r \in Requests :
        stage[r] \in {"sending", "waiting", "tried"} => permit[r].target = target[r]

StackInv == CallInv /\ IInv /\ PermitsMatchTargets

LEMMA PermitsStep ==
    ASSUME StackInv, [Next]_vars
    PROVE  PermitsMatchTargets'
<1> USE DEF StackInv, CallInv, PermitsMatchTargets, Goto, GoWith, requestRest
<1>p. permit \in [Requests -> Permits]
    BY DEF IInv, PassiveTypeOK
<1>1. ASSUME NEW r \in Requests, NEW e \in Endpoints, NEW isRepeatable \in BOOLEAN,
             PassBreaker(r, e, isRepeatable)
      PROVE  PermitsMatchTargets'
    BY <1>1 DEF PassBreaker, passiveVars
<1>2. ASSUME NEW r \in Requests, RejectedByBreaker(r) \/ EndContext(r)
      PROVE  PermitsMatchTargets'
    BY <1>2 DEF RejectedByBreaker, EndContext, passiveVars
<1>3. ASSUME NEW r \in Requests, PassPassive(r)
      PROVE  PermitsMatchTargets'
    <2>1. /\ permit'[r].target = target[r]
          /\ \A q \in Requests \ {r} : permit'[q] = permit[q]
        BY <1>3, <1>p DEF PassPassive, AcquirePermit
    <2> QED BY <1>3, <2>1 DEF PassPassive
<1>4. ASSUME NEW r \in Requests, RecordPassive(r)
      PROVE  PermitsMatchTargets'
    <2>1. \A q \in Requests \ {r} : permit'[q] = permit[q]
        BY <1>4, <1>p DEF RecordPassive, RecordOutcome
    <2> QED BY <1>4, <2>1 DEF RecordPassive
<1>5. ASSUME NEW r \in Requests, GoOn(r), ~PassPassive(r), ~RecordPassive(r)
      PROVE  PermitsMatchTargets'
    <2>1. CASE RefusedByPassive(r)
        BY <2>1 DEF RefusedByPassive, passiveVars
    <2>2. CASE AnyAttemptEnds(r)
        BY <2>2 DEF AnyAttemptEnds, AttemptEnds, passiveVars
    <2>3. CASE Retry(r) \/ GiveUpRetry(r)
        BY <2>3 DEF Retry, GiveUpRetry, passiveVars
    <2>4. CASE ClassifyForBreaker(r)
        BY <2>4 DEF ClassifyForBreaker, Forget, passiveVars
    <2>5. CASE RecordBreaker(r) \/ AnswerRejected(r)
        BY <2>5 DEF RecordBreaker, AnswerRejected, passiveVars
    <2> QED BY <1>5, <2>1, <2>2, <2>3, <2>4, <2>5 DEF GoOn
<1>6. CASE BreakerTick \/ EjectionTick \/ UNCHANGED vars
    BY <1>6 DEF BreakerTick, EjectionTick, PassiveTick, Elapse, vars, callVars,
                passiveVars
<1> QED BY <1>1, <1>2, <1>3, <1>4, <1>5, <1>6 DEF Next

LEMMA StackInvInit == Init => StackInv
<1> SUFFICES ASSUME Init PROVE StackInv
    OBVIOUS
<1>1. CallInv /\ IInv
    BY CallInvInit, InvInit DEF Init
<1>2. PermitsMatchTargets
    BY DEF Init, PermitsMatchTargets
<1> QED BY <1>1, <1>2 DEF StackInv

LEMMA StackInvStep == StackInv /\ [Next]_vars => StackInv'
<1> SUFFICES ASSUME StackInv, [Next]_vars PROVE StackInv'
    OBVIOUS
<1>1. CallInv' /\ IInv'
    BY CallInvStep, PassiveStep, InvStep DEF StackInv
<1> QED BY <1>1, PermitsStep DEF StackInv

\* The only steps that hold anything against an endpoint are outcomes that are
\* recorded, and of those the failures of requests that count for it.
LEMMA HeldByOutcome ==
    ASSUME StackInv, [Next]_vars, NEW e \in Endpoints, HeldAgainst(e)
    PROVE  \E r \in Requests :
                /\ RecordPassive(r) /\ r \in Counted(e)
                /\ ClassifyOutcome(ended[r], Classified(result[r])) = "failure"
<1>i. /\ IInv /\ state[e] \in EndpointState
      /\ state[e].failures \in Nat
    BY DEF StackInv, IInv, PassiveTypeOK, EndpointState
<1>n. ASSUME state'[e].failures = state[e].failures,
             \/ state'[e].ejection = state[e].ejection
             \/ state'[e].ejection = NotEjected
             \/ state[e].ejection # NotEjected
      PROVE  FALSE
    BY <1>i, <1>n DEF HeldAgainst, NotEjected
<1>1. PICK r \in Requests : GoOn(r) /\ (PassPassive(r) \/ RecordPassive(r))
    <2>1. CASE UNCHANGED passiveVars
        BY <2>1, <1>n DEF passiveVars
    <2>2. CASE EjectionTick
        BY <2>2, <1>i, <1>n, ElapseEffect DEF EjectionTick, PassiveTick, NotEjected
    <2>3. ASSUME ~UNCHANGED passiveVars, ~EjectionTick
          PROVE  \E r \in Requests : PassPassive(r) \/ RecordPassive(r)
        BY <2>3 DEF Next, PassBreaker, RejectedByBreaker, EndContext, GoOn,
                    RefusedByPassive, AnyAttemptEnds, AttemptEnds, Retry, GiveUpRetry,
                    ClassifyForBreaker, RecordBreaker, AnswerRejected, BreakerTick, vars
    <2> QED BY <2>1, <2>2, <2>3 DEF GoOn
<1>2. CASE PassPassive(r)
    <2>1. target[r] \in Endpoints /\ AcquirePermit(r, target[r])
        BY <1>2 DEF PassPassive, StackInv, CallInv, StateOfCall
    <2> QED BY <1>i, <1>n, <2>1, AcquireEffect
<1>3. CASE RecordPassive(r)
    <2> DEFINE outcome == ClassifyOutcome(ended[r], Classified(result[r]))
    <2>1. ended[r] \in BOOLEAN /\ Classified(result[r]) \in Results
        BY <1>3, ClassifiedIsResult
           DEF RecordPassive, StackInv, CallInv, StateOfCall, Results, Breaker!Results
    <2>2. outcome \in {"ignored", "failure", "success"}
        BY <2>1 DEF ClassifyOutcome, Results
    <2>3. RecordOutcome(r, outcome)
        BY <1>3 DEF RecordPassive
    <2> HIDE DEF outcome
    <2>4. r \in Counted(e)
        BY <1>i, <1>n, <2>2, <2>3, RecordEffect
    <2>5. outcome = "failure"
        <3>1. CASE outcome = "ignored"
            BY <1>i, <1>n, <2>3, <2>4, <3>1, RecordEffect DEF Ejects
        <3>2. CASE outcome = "success"
            <4>1. /\ state'[e].failures = 0 /\ state'[e].ejection = NotEjected
                BY <1>i, <2>3, <2>4, <3>2, RecordEffect DEF Ejects
            <4> QED BY <1>i, <4>1 DEF HeldAgainst, NotEjected
        <3> QED BY <2>2, <3>1, <3>2
    <2> QED BY <1>3, <2>4, <2>5 DEF outcome
<1> QED BY <1>1, <1>2, <1>3

\* It is a final result.
LEMMA HeldForFinalResult ==
    ASSUME StackInv, [Next]_vars, NEW e \in Endpoints, HeldAgainst(e)
    PROVE  \E r \in Requests :
                stage[r] = "tried" /\ target[r] = e /\ FinalFailure(r)
<1>1. PICK r \in Requests :
            /\ RecordPassive(r) /\ r \in Counted(e)
            /\ ClassifyOutcome(ended[r], Classified(result[r])) = "failure"
    BY HeldByOutcome
<1>2. /\ stage[r] = "tried" /\ permit[r].target = e
      /\ ended[r] \in BOOLEAN /\ result[r] \in Responses \cup Errors
      /\ StateOfCall(r)
    BY <1>1 DEF RecordPassive, Counted, Holders, StackInv, CallInv, StateOfCall
<1>3. target[r] = e
    BY <1>2 DEF StackInv, PermitsMatchTargets
<1>4. Classified(result[r]) \in Results
    BY <1>2, ClassifiedIsResult DEF Results, Breaker!Results
<1>5. ~ended[r] /\ Classified(result[r]) \in {"error", "status_5xx"}
    BY <1>1, <1>2, <1>4 DEF ClassifyOutcome, Results
<1>6. result[r] \in Errors \cup {"status_5xx"}
    BY <1>2, <1>5 DEF Classified, Responses
<1> QED BY <1>2, <1>3, <1>5, <1>6 DEF StateOfCall, FinalFailure

-----------------------------------------------------------------------------
(* What is proved of CircuitBreaker, of the breaker in the stack.           *)

BreakerProofs == INSTANCE CircuitBreakerProofs WITH
    FailureThreshold <- CircuitThreshold,
    state <- circuit, generation <- circuitGeneration,
    consecutiveFailures <- circuitFailures,
    phase <- circuitPhase, permit <- circuitPermit, outcome <- circuitOutcome

\* The assumptions on the stack are those on its breaker.
LEMMA BreakerConstants == BreakerProofs!BreakerAssumption
BY CallAssumption, PassiveAssumption DEF Spare

\* The two instances are of one specification.
LEMMA ProvedBreakerInStack == Spec => BreakerProofs!Spec
<1>1. Breaker!Init => BreakerProofs!Init
    BY DEF Breaker!Init, BreakerProofs!Init, Breaker!NoPermit, BreakerProofs!NoPermit
<1>2. [Breaker!Next]_(Breaker!vars) => [BreakerProofs!Next]_(BreakerProofs!vars)
    BY DEF Breaker!breakerVars, BreakerProofs!breakerVars, Breaker!requestVars,
           BreakerProofs!requestVars, Breaker!vars, BreakerProofs!vars,
           Breaker!Outcomes, BreakerProofs!Outcomes, Breaker!Results,
           BreakerProofs!Results, Breaker!NoPermit, BreakerProofs!NoPermit,
           Breaker!InTransport, BreakerProofs!InTransport,
           Breaker!NextGeneration, BreakerProofs!NextGeneration, Breaker!Grant,
           BreakerProofs!Grant, Breaker!AdmitRequest,
           BreakerProofs!AdmitRequest, Breaker!AdmitProbe,
           BreakerProofs!AdmitProbe, Breaker!AcquirePermit,
           BreakerProofs!AcquirePermit, Breaker!ClassifyOutcome,
           BreakerProofs!ClassifyOutcome, Breaker!Respond,
           BreakerProofs!Respond, Breaker!Current, BreakerProofs!Current,
           Breaker!Leave, BreakerProofs!Leave,
           Breaker!Heeded, BreakerProofs!Heeded, Breaker!RecordStale,
           BreakerProofs!RecordStale, Breaker!RecordProbe,
           BreakerProofs!RecordProbe, Breaker!CompletesStreak,
           BreakerProofs!CompletesStreak, Breaker!RecordTrip,
           BreakerProofs!RecordTrip, Breaker!RecordAdmitted,
           BreakerProofs!RecordAdmitted, Breaker!RecordOutcome,
           BreakerProofs!RecordOutcome, Breaker!Tick, BreakerProofs!Tick,
           Breaker!AnyRespond, BreakerProofs!AnyRespond, Breaker!Next,
           BreakerProofs!Next
<1> QED BY <1>1, <1>2, BreakerInStack, PTL DEF Breaker!Spec, BreakerProofs!Spec

\* Whatever retries, contexts and passive health do around it, the breaker keeps
\* its contract: it counts only requests admitted since its last change of mode,
\* and a half-open breaker waits for exactly one probe.
THEOREM BreakerContractInStack ==
    Spec => BreakerProofs!ImplementsContract /\ []BreakerProofs!PermitsMatchState
<1>1. BreakerProofs!Spec => BreakerProofs!ImplementsContract
    BY BreakerConstants, BreakerProofs!BreakerImplementsContract
<1>2. BreakerProofs!Spec => []BreakerProofs!PermitsMatchState
    BY BreakerConstants, BreakerProofs!PermitsAlwaysMatchState
<1> QED BY <1>1, <1>2, ProvedBreakerInStack, PTL

LEMMA BreakerTypesInStack == Spec => []BreakerProofs!TypeOK
<1>1. BreakerProofs!Spec => []BreakerProofs!TypeOK
    BY BreakerConstants, BreakerProofs!TypeCorrect
<1> QED BY <1>1, ProvedBreakerInStack, PTL

\* Every variable of the stack keeps its type: no request is attempted more often
\* than allowed, no failure count reaches its threshold, no clock goes below zero.
THEOREM CallTypesHold == Spec => []CallTypeOK
<1>1. StackInv /\ BreakerProofs!TypeOK => CallTypeOK
    BY DEF StackInv, IInv, CallInv, CallTypeOK, Breaker!TypeOK, BreakerProofs!TypeOK,
           Breaker!States, BreakerProofs!States, Breaker!Phases, BreakerProofs!Phases,
           Breaker!Permits, BreakerProofs!Permits,
           Breaker!Outcomes, BreakerProofs!Outcomes
<1> QED BY <1>1, BreakerTypesInStack, StackInvInit, StackInvStep, PTL DEF Spec

-----------------------------------------------------------------------------
(* What is held against the route.                                          *)

\* The breaker fixes an outcome when the layers below have come back for good.
LEMMA FailureIsFinal ==
    ASSUME CallInv, BreakerProofs!TypeOK, [Next]_vars, NEW r \in Requests,
           circuitOutcome'[r] = "failure", circuitOutcome[r] # "failure"
    PROVE  stage[r] = "returned" /\ (FinalFailure(r) \/ RefusedUnsent(r))
<1>t. circuitOutcome \in [Requests -> {"ignored", "success", "failure"}]
    BY DEF BreakerProofs!TypeOK, BreakerProofs!Outcomes
<1>1. ClassifyForBreaker(r)
    <2>1. ASSUME NEW q \in Requests, NEW e \in Endpoints, NEW isRepeatable \in BOOLEAN,
                 PassBreaker(q, e, isRepeatable)
          PROVE  UNCHANGED circuitOutcome
        BY <2>1 DEF PassBreaker, Breaker!AcquirePermit, Breaker!AdmitRequest,
                    Breaker!AdmitProbe, Breaker!Grant
    <2>2. ASSUME NEW q \in Requests, RecordBreaker(q)
          PROVE  circuitOutcome'[r] \in {circuitOutcome[r], "ignored"}
        BY <2>2, <1>t
           DEF RecordBreaker, Breaker!RecordOutcome, Breaker!RecordStale,
               Breaker!RecordProbe, Breaker!RecordTrip, Breaker!RecordAdmitted,
               Breaker!Leave
    <2>3. ASSUME NEW q \in Requests, ClassifyForBreaker(q), q # r
          PROVE  circuitOutcome'[r] = circuitOutcome[r]
        BY <2>3, <1>t DEF ClassifyForBreaker, Breaker!Respond
    <2>4. ASSUME NEW q \in Requests, GoOn(q), ~ClassifyForBreaker(q), ~RecordBreaker(q)
          PROVE  UNCHANGED circuitOutcome
        BY <2>4 DEF GoOn, PassPassive, RefusedByPassive, AnyAttemptEnds, AttemptEnds,
                    Retry, GiveUpRetry, RecordPassive, AnswerRejected, breakerVars
    <2>5. ASSUME NEW q \in Requests, RejectedByBreaker(q) \/ EndContext(q)
          PROVE  UNCHANGED circuitOutcome
        BY <2>5 DEF RejectedByBreaker, EndContext, breakerVars
    <2>6. CASE BreakerTick \/ EjectionTick \/ UNCHANGED vars
        BY <2>6 DEF BreakerTick, EjectionTick, Breaker!Tick, Breaker!requestVars, vars,
                    breakerVars
    <2> QED BY <2>1, <2>2, <2>3, <2>4, <2>5, <2>6 DEF Next
<1>2. /\ stage[r] = "returned" /\ StateOfCall(r)
      /\ ended[r] \in BOOLEAN /\ result[r] \in Responses \cup Errors
      /\ Classified(result[r]) \in Breaker!Results
    BY <1>1, ClassifiedIsResult DEF ClassifyForBreaker, CallInv, StateOfCall
<1>3. Breaker!ClassifyOutcome(ended[r], Classified(result[r])) = "failure"
    BY <1>1, <1>t DEF ClassifyForBreaker, Breaker!Respond
<1>4. ~ended[r] /\ Classified(result[r]) \in {"error", "status_5xx"}
    BY <1>2, <1>3 DEF Breaker!ClassifyOutcome, Breaker!Results
<1>5. result[r] \in Errors \cup {"status_5xx"}
    BY <1>2, <1>4 DEF Classified, Responses
<1> QED BY <1>2, <1>4, <1>5 DEF StateOfCall, FinalFailure

\* What it counts is such an outcome, of a permit that is still current.
LEMMA RouteHeldForFailure ==
    ASSUME BreakerProofs!TypeOK, [Next]_vars, HeldAgainstRoute
    PROVE  \E r \in Requests :
                /\ stage[r] = "classified" /\ circuitOutcome[r] = "failure"
                /\ circuitPermit[r].generation = circuitGeneration
<1>t. /\ circuitFailures \in Nat /\ cooldown \in Nat
      /\ circuitOutcome \in [Requests -> {"ignored", "success", "failure"}]
    BY CallAssumption DEF BreakerProofs!TypeOK, BreakerProofs!Outcomes
<1>n. ASSUME circuitFailures' = circuitFailures, cooldown' \in {cooldown, cooldown - 1}
      PROVE  FALSE
    BY <1>n, <1>t DEF HeldAgainstRoute
<1>1. PICK r \in Requests : RecordBreaker(r)
    <2>1. ASSUME NEW q \in Requests, NEW e \in Endpoints, NEW isRepeatable \in BOOLEAN,
                 PassBreaker(q, e, isRepeatable)
          PROVE  FALSE
        BY <2>1, <1>n DEF PassBreaker, Breaker!AcquirePermit, Breaker!AdmitRequest,
                          Breaker!AdmitProbe, Breaker!Grant
    <2>2. ASSUME NEW q \in Requests, ClassifyForBreaker(q)
          PROVE  FALSE
        BY <2>2, <1>n DEF ClassifyForBreaker, Breaker!Respond, Breaker!breakerVars
    <2>3. ASSUME NEW q \in Requests, GoOn(q), ~ClassifyForBreaker(q), ~RecordBreaker(q)
          PROVE  FALSE
        BY <2>3, <1>n
           DEF GoOn, PassPassive, RefusedByPassive, AnyAttemptEnds, AttemptEnds, Retry,
               GiveUpRetry, RecordPassive, AnswerRejected, breakerVars
    <2>4. ASSUME NEW q \in Requests, RejectedByBreaker(q) \/ EndContext(q)
          PROVE  FALSE
        BY <2>4, <1>n DEF RejectedByBreaker, EndContext, breakerVars
    <2>5. CASE BreakerTick \/ EjectionTick \/ UNCHANGED vars
        BY <2>5, <1>n DEF BreakerTick, EjectionTick, Breaker!Tick, vars, breakerVars
    <2> QED BY <2>1, <2>2, <2>3, <2>4, <2>5 DEF Next
<1>2. stage[r] = "classified" /\ Breaker!RecordOutcome(r)
    BY <1>1 DEF RecordBreaker
<1>3. ~Breaker!RecordStale(r)
    BY <1>n DEF Breaker!RecordStale, Breaker!breakerVars
<1>4. Breaker!Heeded(r)
    BY <1>2, <1>3 DEF Breaker!RecordOutcome, Breaker!RecordProbe, Breaker!RecordTrip,
                      Breaker!RecordAdmitted
<1>5. circuitOutcome[r] = "failure"
    <2>1. CASE Breaker!RecordProbe(r)
        BY <2>1, <1>t DEF Breaker!RecordProbe, HeldAgainstRoute
    <2>2. CASE Breaker!RecordTrip(r)
        BY <2>2 DEF Breaker!RecordTrip
    <2>3. CASE Breaker!RecordAdmitted(r)
        BY <2>3, <1>t DEF Breaker!RecordAdmitted, HeldAgainstRoute
    <2> QED BY <1>2, <1>3, <2>1, <2>2, <2>3 DEF Breaker!RecordOutcome
<1> QED BY <1>2, <1>4, <1>5 DEF Breaker!Heeded, Breaker!Current

\* Nothing but the final result of a request is held against its endpoint or
\* counted by the breaker: not an attempt that is repeated, not the answer to a
\* client that has gone, not what an endpoint that the request was not sent to
\* has done (README.md:271), and not an outcome of an earlier period.
THEOREM FinalResultCounts == Spec => FinalResultOnly
<1>1. StackInv /\ BreakerProofs!TypeOK /\ [Next]_vars =>
        [/\ \A e \in Endpoints : HeldAgainst(e) =>
                \E r \in Requests :
                    stage[r] = "tried" /\ target[r] = e /\ FinalFailure(r)
         /\ \A r \in Requests :
                circuitOutcome'[r] = "failure" /\ circuitOutcome[r] # "failure" =>
                    stage[r] = "returned" /\ (FinalFailure(r) \/ RefusedUnsent(r))
         /\ HeldAgainstRoute =>
                \E r \in Requests :
                    /\ stage[r] = "classified" /\ circuitOutcome[r] = "failure"
                    /\ circuitPermit[r].generation = circuitGeneration
        ]_vars
    BY HeldForFinalResult, FailureIsFinal, RouteHeldForFailure DEF StackInv
<1> QED BY <1>1, BreakerTypesInStack, StackInvInit, StackInvStep, PTL
        DEF Spec, FinalResultOnly

=============================================================================
