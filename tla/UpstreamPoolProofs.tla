-------------------------- MODULE UpstreamPoolProofs --------------------------
(****************************************************************************)
(* The pool for any endpoints, requests and thresholds, and any routes.     *)
(*                                                                          *)
(* Of the passive tracker nothing is proved again: whatever the goroutines  *)
(* of the pool do to it is a step of PassiveHealthTracker or none.  The     *)
(* rest is about refreshes that race with changes of what they have read.   *)
(* A refresh may come to the wrong endpoints, but only while somebody is on *)
(* the way to the mutex to refresh again (Pending).                         *)
(****************************************************************************)
EXTENDS UpstreamPool, PassiveHealthProofs, WellFoundedInduction

\* The minimum of a set of natural numbers.
LEMMA MinIsMember ==
    ASSUME NEW S \in SUBSET Nat, S # {}
    PROVE  Min(S) \in S /\ \A n \in S : Min(S) <= n
<1>1. PICK m \in S : \A n \in S : <<n, m>> \notin OpToRel(<, Nat)
    BY WFMin, NatLessThanWellFounded
<1>2. \A n \in S : ~(n < m)
    BY <1>1 DEF OpToRel
<1>3. \A n \in S : m <= n
    BY <1>2
<1> QED BY <1>3 DEF Min

-----------------------------------------------------------------------------
(* The active tracker: the types of its records.                            *)

LEMMA ActiveInitType == Active!TrackerInit => Active!TrackerTypeOK
BY PoolAssumption, PassiveAssumption
   DEF Active!TrackerInit, Active!TrackerTypeOK, Active!HealthRecord,
       Active!NewEndpointHealth

LEMMA ActiveRecordTypes ==
    ASSUME NEW h \in Active!HealthRecord
    PROVE  /\ Active!NewEndpointHealth \in Active!HealthRecord
           /\ Active!AfterSuccess(h) \in Active!HealthRecord
           /\ Active!AfterFailure(h) \in Active!HealthRecord
<1>0. SuccessThreshold \in Nat \ {0} /\ FailureThreshold \in Nat \ {0}
    BY PoolAssumption
<1>1. /\ Active!NewEndpointHealth \in Active!HealthRecord
      /\ [healthy |-> FALSE, successes |-> 0, failures |-> 0] \in Active!HealthRecord
    BY <1>0 DEF Active!HealthRecord, Active!NewEndpointHealth
<1>2. \A n \in 0 .. FailureThreshold - 1 :
        /\ [h EXCEPT !.failures = n] \in Active!HealthRecord
        /\ [h EXCEPT !.failures = n].successes = h.successes
    BY DEF Active!HealthRecord
<1>3. \A n \in 0 .. SuccessThreshold - 1 :
        /\ [h EXCEPT !.successes = n] \in Active!HealthRecord
        /\ [h EXCEPT !.successes = n].failures = h.failures
    BY DEF Active!HealthRecord
<1>4. h.successes + 1 < SuccessThreshold =>
        h.successes + 1 \in 0 .. SuccessThreshold - 1
    BY <1>0 DEF Active!HealthRecord
<1>5. h.failures + 1 < FailureThreshold =>
        h.failures + 1 \in 0 .. FailureThreshold - 1
    BY <1>0 DEF Active!HealthRecord
<1>6. Active!AfterSuccess(h) \in Active!HealthRecord
    <2> DEFINE g == [h EXCEPT !.failures = 0]
    <2>1. g \in Active!HealthRecord /\ g.successes = h.successes
        BY <1>0, <1>2
    <2> HIDE DEF g
    <2>2. h.successes + 1 < SuccessThreshold =>
            [g EXCEPT !.successes = @ + 1] \in Active!HealthRecord
        BY <1>4, <2>1 DEF Active!HealthRecord
    <2>3. ~(h.successes + 1 >= SuccessThreshold) => h.successes + 1 < SuccessThreshold
        BY <1>0 DEF Active!HealthRecord
    <2> QED BY <1>1, <2>1, <2>2, <2>3 DEF Active!AfterSuccess, g
<1>7. Active!AfterFailure(h) \in Active!HealthRecord
    <2> DEFINE g == [h EXCEPT !.successes = 0]
    <2>1. g \in Active!HealthRecord /\ g.failures = h.failures
        BY <1>0, <1>3
    <2> HIDE DEF g
    <2>2. h.failures + 1 < FailureThreshold =>
            [g EXCEPT !.failures = @ + 1] \in Active!HealthRecord
        BY <1>5, <2>1 DEF Active!HealthRecord
    <2>3. ~(h.failures + 1 >= FailureThreshold) => h.failures + 1 < FailureThreshold
        BY <1>0 DEF Active!HealthRecord
    <2> QED BY <1>1, <2>1, <2>2, <2>3 DEF Active!AfterFailure, g
<1> QED BY <1>1, <1>6, <1>7

LEMMA ActiveStepType ==
    ASSUME Active!TrackerTypeOK,
           NEW endpoints \in SUBSET Endpoints, NEW e \in Endpoints,
           \/ Active!Replace(endpoints)
           \/ Active!RecordSuccess(e) \/ Active!RecordFailure(e)
    PROVE  Active!TrackerTypeOK'
BY ActiveRecordTypes
   DEF Active!TrackerTypeOK, Active!Replace, Active!RecordSuccess, Active!RecordFailure

-----------------------------------------------------------------------------
(* The passive tracker takes the steps of PassiveHealthTracker.             *)

\* An endpoint that has left is not ejected any more, so that the clock, when
\* only the runner waits for it, leaves the tracker as it is.
AbsentNotEjected == \A e \in Endpoints \ members : state[e].ejection = NotEjected

PassiveInv == IInv /\ AbsentNotEjected

LEMMA ElapseIsPassiveStep ==
    ASSUME PassiveInv, Elapse
    PROVE  [PassiveNext]_passiveVars
<1>1. CASE Running # {}
    BY <1>1 DEF PassiveNext, PassiveTick
<1>2. CASE Running = {}
    <2>1. ASSUME NEW e \in Endpoints PROVE ~(state[e].ejection > 0)
        <3>1. CASE e \in members
            BY <1>2, <3>1 DEF Running
        <3>2. CASE e \notin members
            <4>1. state[e].ejection = NotEjected
                BY <3>2 DEF PassiveInv, AbsentNotEjected
            <4> QED BY <4>1 DEF NotEjected
        <3> QED BY <3>1, <3>2
    <2>2. state' = state
        BY <2>1 DEF Elapse, PassiveInv, IInv, PassiveTypeOK
    <2> QED BY <2>2 DEF Elapse, passiveVars
<1> QED BY <1>1, <1>2

LEMMA FinishIsPassiveStep ==
    ASSUME NEW r \in Requests, NEW outcome \in Outcomes, RecordOutcome(r, outcome)
    PROVE  RoundTripEnds(r)
<1>1. /\ ClassifyOutcome(TRUE, "error") = "ignored"
      /\ ClassifyOutcome(FALSE, "error") = "failure"
      /\ ClassifyOutcome(FALSE, "status_other") = "success"
    BY DEF ClassifyOutcome
<1>2. \E contextDone \in BOOLEAN, result \in Results :
        outcome = ClassifyOutcome(contextDone, result)
    BY <1>1 DEF Outcomes, Results
<1> QED BY <1>2 DEF RoundTripEnds

\* Which step of the tracker a step of the pool is.
LEMMA PassiveStep ==
    ASSUME PassiveInv, answer \in SUBSET Endpoints, [Next]_vars
    PROVE  \/ ClearExpired
           \/ Replace(answer) /\ watcher = "passive"
           \/ \E r \in Requests, e \in Endpoints : AcquirePermit(r, e)
           \/ \E r \in Requests, outcome \in Outcomes : FinishRoundTrip(r, outcome)
           \/ Elapse
           \/ UNCHANGED passiveVars
<1>1. ASSUME NEW a \in Actors, RefreshStep(a)
      PROVE  ClearExpired \/ UNCHANGED passiveVars
    BY <1>1 DEF RefreshStep, LockAndClose, ReadMembership, ReadActive, ReadPassive,
                LeaveClosed, Publish, Reopen
<1>2. ASSUME NEW r \in Requests, RequestStep(r)
      PROVE  \/ \E e \in Endpoints : AcquirePermit(r, e)
             \/ \E outcome \in Outcomes : FinishRoundTrip(r, outcome)
             \/ UNCHANGED passiveVars
    <2>1. ASSUME TakePermit(r) PROVE \E e \in Endpoints : AcquirePermit(r, e)
        <3>1. AcquirePermit(r, target[r])
            BY <2>1 DEF TakePermit
        <3>2. target[r] \in Endpoints
            BY <3>1 DEF AcquirePermit, HealthyEndpoints, PassiveInv, IInv, PassiveTypeOK
        <3> QED BY <3>1, <3>2
    <2> QED
        BY <1>2, <2>1 DEF RequestStep, ReadAvailable, PickTarget, PermitRefused,
                          SendUntracked, SendWake, AnswerRefused
<1>3. CASE \E endpoints \in SUBSET Endpoints : ResolveAnswer(endpoints)
    BY <1>3 DEF ResolveAnswer
<1>4. CASE ApplyStep
    BY <1>4 DEF ApplyStep, ApplyActive, ApplyPassive, ApplyMembership
<1>5. CASE BeginRound \/ \E e \in Endpoints : ProbeSucceeds(e) \/ ProbeFails(e)
    BY <1>5 DEF BeginRound, ProbeSucceeds, ProbeFails
<1>6. CASE RunnerStep
    BY <1>6 DEF RunnerStep, ComputeDelay, ReceiveWake, TimerFires
<1>7. CASE Tick
    BY <1>7 DEF Tick
<1>8. CASE UNCHANGED vars
    BY <1>8 DEF vars
<1> QED BY <1>1, <1>2, <1>3, <1>4, <1>5, <1>6, <1>7, <1>8 DEF Next

LEMMA PassiveStepIsStep ==
    ASSUME PassiveInv, answer \in SUBSET Endpoints, [Next]_vars
    PROVE  [PassiveNext]_passiveVars
<1>1. ASSUME NEW r \in Requests, NEW outcome \in Outcomes, FinishRoundTrip(r, outcome)
      PROVE  PassiveNext
    BY <1>1, FinishIsPassiveStep DEF FinishRoundTrip, PassiveNext
<1> QED BY <1>1, PassiveStep, ElapseIsPassiveStep DEF PassiveNext

LEMMA PassiveInvStep ==
    ASSUME PassiveInv, answer \in SUBSET Endpoints, [Next]_vars
    PROVE  PassiveInv'
<1>1. IInv'
    BY PassiveStepIsStep, InvStep DEF PassiveInv
<1>2. ASSUME NEW e \in Endpoints, e \notin members'
      PROVE  state'[e].ejection = NotEjected
    <2>i. IInv /\ (e \notin members => state[e].ejection = NotEjected)
        BY DEF PassiveInv, AbsentNotEjected
    <2>1. CASE ClearExpired
        BY <1>2, <2>1, <2>i, ClearExpiredEffect
    <2>2. CASE Replace(answer)
        BY <1>2, <2>2, <2>i, ReplaceEffect
    <2>3. CASE \E r \in Requests, d \in Endpoints : AcquirePermit(r, d)
        BY <1>2, <2>3, <2>i, AcquireEffect
    <2>4. ASSUME NEW r \in Requests, NEW outcome \in Outcomes,
                 FinishRoundTrip(r, outcome)
          PROVE  state'[e].ejection = NotEjected
        <3>1. RecordOutcome(r, outcome)
            BY <2>4 DEF FinishRoundTrip
        <3>2. members' = members
            BY <3>1 DEF RecordOutcome
        <3>3. r \notin Counted(e)
            BY <1>2, <3>2 DEF Counted, Holders, Heeded
        <3> QED BY <1>2, <2>i, <3>1, <3>2, <3>3, RecordEffect DEF Outcomes
    <2>5. CASE Elapse
        BY <1>2, <2>5, <2>i, ElapseEffect DEF NotEjected
    <2>6. CASE UNCHANGED passiveVars
        BY <1>2, <2>6, <2>i DEF passiveVars
    <2> QED BY <2>1, <2>2, <2>3, <2>4, <2>5, <2>6, PassiveStep
<1> QED BY <1>1, <1>2 DEF PassiveInv, AbsentNotEjected

-----------------------------------------------------------------------------
(* Types.                                                                   *)

\* The types of the pool's own variables, apart from the trackers'.
OwnTypes ==
    /\ route \in Routes
    /\ membership \in SUBSET Endpoints
    /\ available \in BOOLEAN
    /\ snapshot \in SUBSET (Endpoints \cup {LogicalEndpoint})
    /\ refresh \in [owner : Actors \cup {Nobody}, stage : Stages,
                    found : SUBSET Endpoints]
    /\ skipped \in SUBSET (IF route.passive THEN Endpoints ELSE {})
    /\ request \in [Requests -> {"idle", "admitted", "picked", "sent", "ejecting",
                                 "waking", "refused"}]
    /\ target \in [Requests -> Endpoints \cup {LogicalEndpoint, NoEndpoint}]
    /\ watcher \in {"idle", "active", "passive", "membership", "refresh"}
    /\ answer \in SUBSET Endpoints
    /\ probing \in SUBSET Endpoints
    /\ changed \in SUBSET Endpoints
    /\ runner \in {"compute", "blocked", "armed", "refresh"}
    /\ timer \in 0 .. EjectionDuration
    /\ wake \in BOOLEAN

LEMMA OwnTypesAre ==
    PoolTypeOK <=> OwnTypes /\ Active!TrackerTypeOK /\ PassiveTypeOK
BY DEF PoolTypeOK, OwnTypes, UsePassive

LEMMA OwnTypesInit == Init => OwnTypes
<1> SUFFICES ASSUME Init PROVE OwnTypes
    OBVIOUS
<1> USE DEF Init
<1>1. available \in BOOLEAN
    OBVIOUS
<1>2. /\ membership \in SUBSET Endpoints
      /\ snapshot \in SUBSET (Endpoints \cup {LogicalEndpoint})
    BY PassiveAssumption
<1>3. refresh \in [owner : Actors \cup {Nobody}, stage : Stages, found : SUBSET Endpoints]
    BY DEF Idle, Stages
<1>4. timer \in 0 .. EjectionDuration
    BY PassiveAssumption
<1>5. /\ request \in [Requests -> {"idle", "admitted", "picked", "sent", "ejecting",
                                   "waking", "refused"}]
      /\ target \in [Requests -> Endpoints \cup {LogicalEndpoint, NoEndpoint}]
    OBVIOUS
<1> QED BY <1>1, <1>2, <1>3, <1>4, <1>5 DEF OwnTypes

LEMMA RefreshTypes ==
    ASSUME OwnTypes, PassiveTypeOK, NEW a \in Actors, RefreshStep(a)
    PROVE  OwnTypes'
<1>r. \A found \in SUBSET Endpoints, stage \in Stages :
        [owner |-> a, stage |-> stage, found |-> found]
            \in [owner : Actors \cup {Nobody}, stage : Stages, found : SUBSET Endpoints]
    OBVIOUS
<1>i. Idle \in [owner : Actors \cup {Nobody}, stage : Stages, found : SUBSET Endpoints]
    BY DEF Idle, Stages
<1>e. refresh.found \in SUBSET Endpoints
    BY DEF OwnTypes
<1>c. Return(a) => /\ watcher' \in {"idle", "active", "passive", "membership", "refresh"}
                   /\ answer' \in SUBSET Endpoints
                   /\ changed' \in SUBSET Endpoints
                   /\ runner' \in {"compute", "blocked", "armed", "refresh"}
                   /\ request' \in [Requests -> {"idle", "admitted", "picked", "sent",
                                                "ejecting", "waking", "refused"}]
    BY DEF Return, OwnTypes
<1>1. CASE LockAndClose(a)
    BY <1>1, <1>r DEF LockAndClose, OwnTypes, Stages, requestVars, watcherVars,
                      checkerVars, runnerVars
<1>2. CASE ReadMembership(a)
    BY <1>2 DEF ReadMembership, OwnTypes, Stages, requestVars, watcherVars,
                checkerVars, runnerVars
<1>3. CASE ReadActive(a)
    BY <1>3 DEF ReadActive, OwnTypes, Stages, requestVars, watcherVars,
                checkerVars, runnerVars
<1>4. CASE ReadPassive(a)
    BY <1>4 DEF ReadPassive, UsePassive, Running, PassiveTypeOK, OwnTypes, Stages,
                requestVars, watcherVars, checkerVars, runnerVars
<1>5. CASE LeaveClosed(a)
    BY <1>5, <1>c, <1>i DEF LeaveClosed, OwnTypes
<1>6. CASE Publish(a)
    BY <1>6, <1>e DEF Publish, OwnTypes, Stages, requestVars, watcherVars,
                checkerVars, runnerVars
<1>7. CASE Reopen(a)
    BY <1>7, <1>c, <1>i DEF Reopen, OwnTypes
<1> QED BY <1>1, <1>2, <1>3, <1>4, <1>5, <1>6, <1>7 DEF RefreshStep

LEMMA RequestTypes ==
    ASSUME OwnTypes, NEW r \in Requests, RequestStep(r)
    PROVE  OwnTypes'
<1> USE DEF poolRest, pickerVars, watcherVars, checkerVars, runnerVars
<1>1. CASE ReadAvailable(r)
    BY <1>1 DEF ReadAvailable, OwnTypes
<1>2. CASE PickTarget(r)
    BY <1>2 DEF PickTarget, OwnTypes
<1>3. CASE TakePermit(r)
    BY <1>3 DEF TakePermit, OwnTypes
<1>4. CASE PermitRefused(r) \/ SendUntracked(r)
    BY <1>4 DEF PermitRefused, SendUntracked, OwnTypes
<1>5. ASSUME NEW outcome \in Outcomes, FinishRoundTrip(r, outcome)
      PROVE  OwnTypes'
    <2>1. request' \in [Requests -> {"idle", "admitted", "picked", "sent", "ejecting",
                                    "waking", "refused"}]
        BY <1>5 DEF FinishRoundTrip, OwnTypes
    <2> QED BY <1>5, <2>1 DEF FinishRoundTrip, OwnTypes
<1>6. CASE SendWake(r) \/ AnswerRefused(r)
    BY <1>6 DEF SendWake, AnswerRefused, OwnTypes
<1> QED BY <1>1, <1>2, <1>3, <1>4, <1>5, <1>6 DEF RequestStep

LEMMA RunnerTypes ==
    ASSUME OwnTypes, PassiveTypeOK, RunnerStep \/ Tick
    PROVE  OwnTypes'
<1> USE DEF runnerRest, pickerVars, requestVars, watcherVars, checkerVars, OwnTypes
<1>1. CASE ComputeDelay
    <2>1. CASE PendingRecoveries = {}
        BY <1>1, <2>1 DEF ComputeDelay
    <2>2. CASE PendingRecoveries # {}
        <3> DEFINE ejections == {state[e].ejection : e \in PendingRecoveries}
        <3>1. ejections \subseteq 0 .. EjectionDuration
            BY PassiveAssumption
               DEF PendingRecoveries, PassiveTypeOK, EndpointState, NotEjected
        <3>2. ejections \in SUBSET Nat /\ ejections # {}
            BY <2>2, <3>1
        <3>3. Min(ejections) \in 0 .. EjectionDuration
            BY <3>1, <3>2, MinIsMember
        <3> QED BY <1>1, <2>2, <3>3 DEF ComputeDelay
    <2> QED BY <2>1, <2>2
<1>2. CASE ReceiveWake
    <2>1. 0 \in 0 .. EjectionDuration
        BY PassiveAssumption
    <2>2. wake' = FALSE
        BY <1>2 DEF ReceiveWake
    <2>3. wake' \in BOOLEAN
        BY <2>2
    <2> QED BY <1>2, <2>1, <2>3 DEF ReceiveWake
<1>3. CASE TimerFires
    BY <1>3 DEF TimerFires
<1>4. CASE Tick
    BY <1>4, PassiveAssumption DEF Tick
<1> QED BY <1>1, <1>2, <1>3, <1>4 DEF RunnerStep

LEMMA OwnTypesStep ==
    ASSUME PoolTypeOK, [Next]_vars
    PROVE  OwnTypes'
<1> USE OwnTypesAre
    DEF pickerVars, requestVars, watcherVars, checkerVars, runnerVars
<1>1. CASE \E a \in Actors : RefreshStep(a)
    BY <1>1, RefreshTypes
<1>2. CASE \E r \in Requests : RequestStep(r)
    BY <1>2, RequestTypes
<1>3. CASE \E endpoints \in SUBSET Endpoints : ResolveAnswer(endpoints)
    BY <1>3 DEF ResolveAnswer, OwnTypes
<1>4. CASE ApplyStep
    BY <1>4 DEF ApplyStep, ApplyActive, ApplyPassive, ApplyMembership, OwnTypes
<1>5. CASE BeginRound
    BY <1>5 DEF BeginRound, OwnTypes, Active!TrackerTypeOK
<1>6. ASSUME NEW e \in Endpoints, ProbeSucceeds(e) \/ ProbeFails(e)
      PROVE  OwnTypes'
    BY <1>6 DEF ProbeSucceeds, ProbeFails, OwnTypes
<1>7. CASE RunnerStep \/ Tick
    BY <1>7, RunnerTypes
<1>8. CASE UNCHANGED vars
    BY <1>8 DEF vars, OwnTypes
<1> QED BY <1>1, <1>2, <1>3, <1>4, <1>5, <1>6, <1>7, <1>8 DEF Next

\* Which step of the active tracker a step of the pool is.
LEMMA ActiveStep ==
    ASSUME [Next]_vars
    PROVE  \/ watcher = "active" /\ Active!Replace(answer)
           \/ \E e \in Endpoints : ProbeSucceeds(e) \/ ProbeFails(e)
           \/ UNCHANGED activeVars
<1>1. ASSUME NEW a \in Actors, RefreshStep(a) PROVE UNCHANGED activeVars
    BY <1>1 DEF RefreshStep, LockAndClose, ReadMembership, ReadActive, ReadPassive,
                LeaveClosed, Publish, Reopen
<1>2. ASSUME NEW r \in Requests, RequestStep(r) PROVE UNCHANGED activeVars
    BY <1>2 DEF RequestStep, ReadAvailable, PickTarget, TakePermit, PermitRefused,
                SendUntracked, FinishRoundTrip, SendWake, AnswerRefused, poolRest
<1>3. CASE ApplyStep
    BY <1>3 DEF ApplyStep, ApplyActive, ApplyPassive, ApplyMembership
<1>4. CASE RunnerStep \/ Tick
    BY <1>4 DEF RunnerStep, ComputeDelay, ReceiveWake, TimerFires, Tick, runnerRest
<1>5. CASE BeginRound \/ \E endpoints \in SUBSET Endpoints : ResolveAnswer(endpoints)
    BY <1>5 DEF BeginRound, ResolveAnswer
<1>6. CASE UNCHANGED vars
    BY <1>6 DEF vars
<1> QED BY <1>1, <1>2, <1>3, <1>4, <1>5, <1>6 DEF Next

LEMMA PoolTypeStep ==
    ASSUME PoolTypeOK, PassiveInv, [Next]_vars
    PROVE  PoolTypeOK' /\ PassiveInv'
<1>1. Active!TrackerTypeOK'
    <2>1. Active!TrackerTypeOK /\ answer \in SUBSET Endpoints
        BY OwnTypesAre DEF OwnTypes
    <2>2. CASE UNCHANGED activeVars
        BY <2>1, <2>2 DEF activeVars, Active!TrackerTypeOK
    <2>3. ASSUME NEW e \in Endpoints, ProbeSucceeds(e) \/ ProbeFails(e)
          PROVE  Active!RecordSuccess(e) \/ Active!RecordFailure(e)
        BY <2>3 DEF ProbeSucceeds, ProbeFails
    <2>4. CASE Active!Replace(answer)
        BY <2>1, <2>4, PoolAssumption, ActiveStepType
    <2>5. ASSUME NEW e \in Endpoints, ProbeSucceeds(e) \/ ProbeFails(e)
          PROVE  Active!TrackerTypeOK'
        BY <2>1, <2>3, <2>5, ActiveStepType
    <2> QED BY <2>2, <2>4, <2>5, ActiveStep
<1>2. PassiveInv'
    BY PassiveInvStep, OwnTypesAre DEF OwnTypes
<1>3. OwnTypes'
    BY OwnTypesStep
<1> QED BY <1>1, <1>2, <1>3 DEF PassiveInv, IInv, PoolTypeOK, OwnTypes, UsePassive

-----------------------------------------------------------------------------
(* The invariants.                                                          *)

\* Somebody has changed what the sources say, or is about to, and will refresh
\* the picker afterwards: all who have come to the mutex but do not hold it.
Pending ==
    \/ watcher # "idle" /\ refresh.owner # Watcher
    \/ changed # {} /\ refresh.owner # Checker
    \/ \E r \in Requests : request[r] = "ejecting" /\ refresh.owner # r

\* The refresh that is in progress belongs to somebody who asked for it.
RefreshInOrder ==
    /\ refresh.owner = Nobody <=> refresh.stage = "none"
    /\ refresh.owner # Nobody => WantsRefresh(refresh.owner) /\ ~available
    /\ refresh.stage = "published" => refresh.found = snapshot /\ snapshot # {}

\* What the sources that have been read say by now.
Seen ==
    {e \in membership :
        /\ UseActive /\ refresh.stage \in {"read_active", "read_passive", "published"}
                => e \in Active!HealthyEndpoints
        /\ UsePassive /\ refresh.stage \in {"read_passive", "published"}
                => e \in HealthyEndpoints}

\* The same, but for ejections: whom the sources read so far have on their lists.
Listed ==
    {e \in membership :
        /\ UseActive /\ refresh.stage \in {"read_active", "read_passive", "published"}
                => e \in Active!HealthyEndpoints
        /\ UsePassive /\ refresh.stage \in {"read_passive", "published"}
                => e \in members}

\* A refresh has found what it would find now, unless another is to come, or an
\* ejection that it has met is over.
FoundIsCurrent ==
    ~Pending /\ refresh.stage \notin {"none", "closed"} =>
        /\ refresh.found \subseteq Seen
        /\ Listed \ refresh.found \subseteq skipped

\* Nobody is left out before the passive tracker has been read.
SkippedInOrder ==
    refresh.stage \in {"closed", "read_membership", "read_active"} => skipped = {}

\* All who are eligible, or would be if they were not ejected.
Candidates ==
    {e \in membership :
        /\ UseActive => e \in Active!HealthyEndpoints
        /\ UsePassive => e \in members}

PublishedIsCurrent ==
    ~Pending /\ refresh.stage = "none" =>
        /\ available => snapshot # {} /\ snapshot \subseteq Eligible
        /\ Candidates \ Published \subseteq skipped

\* The host name is in the balancer only as long as nobody can have it.
HostNameUnreachable ==
    LogicalEndpoint \in snapshot =>
        ~available /\ \A r \in Requests : request[r] # "admitted"

PoolInv ==
    /\ PoolTypeOK /\ PassiveInv
    /\ RefreshInOrder /\ SkippedInOrder /\ FoundIsCurrent /\ PublishedIsCurrent
    /\ HostNameUnreachable /\ OnlyAddressesPicked
    /\ RecoveryIsComing

LEMMA PoolInvInit == Init => PoolInv
<1> SUFFICES ASSUME Init PROVE PoolInv
    OBVIOUS
<1>i. PassiveInit /\ Active!TrackerInit
    BY DEF Init
<1>e. \A e \in Endpoints : state[e].ejection = NotEjected
    BY <1>i DEF PassiveInit, NewState
<1>1. PassiveInv /\ PoolTypeOK
    BY <1>i, <1>e, InvInit, OwnTypesInit, OwnTypesAre, ActiveInitType
       DEF PassiveInv, AbsentNotEjected, IInv
<1>2. RefreshInOrder /\ SkippedInOrder /\ FoundIsCurrent
    BY PoolAssumption DEF Init, Idle, RefreshInOrder, SkippedInOrder, FoundIsCurrent
<1>3. Eligible = InitialEndpoints
    <2>1. \A e \in InitialEndpoints : e \in HealthyEndpoints
        <3>1. \A e \in InitialEndpoints : state[e].ejection = -1 /\ e \in members
            BY <1>i, <1>e, PassiveAssumption DEF PassiveInit, NotEjected
        <3> QED BY <3>1 DEF HealthyEndpoints, Available
    <2>2. \A e \in InitialEndpoints : e \in Active!HealthyEndpoints
        BY <1>i, PassiveAssumption
           DEF Active!TrackerInit, Active!HealthyEndpoints, Active!NewEndpointHealth
    <2>3. membership = InitialEndpoints
        BY DEF Init
    <2> QED BY <2>1, <2>2, <2>3 DEF Eligible
<1>4. PublishedIsCurrent
    <2>1. Candidates \subseteq InitialEndpoints
        BY DEF Init, Candidates
    <2> QED BY <1>3, <2>1, PoolAssumption DEF Init, PublishedIsCurrent, Published
<1>5. HostNameUnreachable /\ OnlyAddressesPicked
    BY PoolAssumption DEF Init, HostNameUnreachable, OnlyAddressesPicked
<1>6. RecoveryIsComing
    BY DEF Init, RecoveryIsComing
<1> QED BY <1>1, <1>2, <1>4, <1>5, <1>6 DEF PoolInv

-----------------------------------------------------------------------------
(* What a step may do to the sources.                                       *)

\* Only a new answer and an ejection that is reported take an endpoint from
\* the healthy ones of the passive tracker; the clock may add some.
LEMMA HealthyLoses ==
    ASSUME PoolInv, [Next]_vars
    PROVE  \/ watcher = "passive"
           \/ \E r \in Requests : request[r] = "sent" /\ request'[r] = "ejecting"
           \/ HealthyEndpoints \subseteq HealthyEndpoints'
<1>i. PassiveInv /\ IInv /\ answer \in SUBSET Endpoints /\ members \subseteq Endpoints
    BY OwnTypesAre DEF PoolInv, PassiveInv, OwnTypes, IInv, PassiveTypeOK
<1>n. NotEjected <= 0
    BY DEF NotEjected
<1>g. ASSUME \A e \in Endpoints : /\ members' = members
                                  /\ e \in HealthyEndpoints => state'[e].ejection <= 0
      PROVE  HealthyEndpoints \subseteq HealthyEndpoints'
    BY <1>i, <1>g DEF HealthyEndpoints, Available
<1>1. CASE ClearExpired
    BY <1>1, <1>g, <1>i, <1>n, ClearExpiredEffect DEF HealthyEndpoints, Available
<1>2. CASE \E r \in Requests, d \in Endpoints : AcquirePermit(r, d)
    BY <1>2, <1>g, <1>i, <1>n, AcquireEffect DEF HealthyEndpoints, Available
<1>3. ASSUME NEW r \in Requests, NEW outcome \in Outcomes, FinishRoundTrip(r, outcome)
      PROVE  \/ request[r] = "sent" /\ request'[r] = "ejecting"
             \/ HealthyEndpoints \subseteq HealthyEndpoints'
    <2>1. /\ RecordOutcome(r, outcome) /\ request[r] = "sent"
          /\ ReportsEjection(r, outcome) => request'[r] = "ejecting"
        BY <1>3, OwnTypesAre DEF FinishRoundTrip, PoolInv, OwnTypes
    <2>2. ASSUME ~ReportsEjection(r, outcome), NEW e \in Endpoints
          PROVE  /\ members' = members
                 /\ e \in HealthyEndpoints => state'[e].ejection <= 0
        <3>1. r \in Counted(e) => ~Ejects(state[e], outcome)
            BY <2>2 DEF ReportsEjection, Counted, Holders
        <3> QED
            BY <1>i, <1>n, <2>1, <3>1, RecordEffect
               DEF Outcomes, HealthyEndpoints, Available
    <2> QED BY <1>g, <2>1, <2>2
<1>4. CASE Elapse
    <2>1. ASSUME NEW e \in HealthyEndpoints, e \in Endpoints
          PROVE  state'[e].ejection = state[e].ejection
        <3>1. state[e] \in EndpointState /\ state[e].ejection <= 0
            BY <1>i, <2>1 DEF IInv, PassiveTypeOK, HealthyEndpoints, Available
        <3>2. ~(state[e].ejection > 0)
            BY <3>1 DEF EndpointState, NotEjected
        <3> QED BY <1>4, <1>i, <2>1, <3>2, ElapseEffect
    <2>2. members' = members
        BY <1>4 DEF Elapse
    <2> QED BY <1>g, <2>1, <2>2 DEF HealthyEndpoints, Available
<1>5. CASE UNCHANGED passiveVars
    BY <1>5 DEF passiveVars, HealthyEndpoints
<1> QED BY <1>1, <1>2, <1>3, <1>4, <1>5, <1>i, PassiveStep

\* Only a new answer changes whom the passive tracker tracks.
LEMMA MembersStay ==
    ASSUME PoolInv, [Next]_vars
    PROVE  watcher = "passive" \/ members' = members
BY PassiveStep, OwnTypesAre
   DEF PoolInv, OwnTypes, ClearExpired, AcquirePermit, FinishRoundTrip, RecordOutcome,
       Elapse, passiveVars

\* Only a new answer and a transition that is reported change the healthy ones
\* of the active tracker.
LEMMA ActiveChanges ==
    ASSUME PoolInv, [Next]_vars
    PROVE  \/ watcher = "active"
           \/ probing # {} /\ changed' # {}
           \/ Active!HealthyEndpoints' = Active!HealthyEndpoints
<1>t. Active!TrackerTypeOK
    BY OwnTypesAre DEF PoolInv
<1>1. ASSUME NEW e \in Endpoints, ProbeSucceeds(e)
      PROVE  \/ probing # {} /\ changed' # {}
             \/ Active!HealthyEndpoints' = Active!HealthyEndpoints
    <2>1. CASE Active!SuccessChanges(e)
        BY <1>1, <2>1 DEF ProbeSucceeds
    <2>2. CASE ~Active!SuccessChanges(e)
        BY <1>1, <1>t, <2>2 DEF ProbeSucceeds, Active!SuccessChanges,
            Active!RecordSuccess, Active!HealthyEndpoints, Active!TrackerTypeOK
    <2> QED BY <2>1, <2>2
<1>2. ASSUME NEW e \in Endpoints, ProbeFails(e)
      PROVE  \/ probing # {} /\ changed' # {}
             \/ Active!HealthyEndpoints' = Active!HealthyEndpoints
    <2>1. CASE Active!FailureChanges(e)
        BY <1>2, <2>1 DEF ProbeFails
    <2>2. CASE ~Active!FailureChanges(e)
        BY <1>2, <1>t, <2>2 DEF ProbeFails, Active!FailureChanges,
            Active!RecordFailure, Active!HealthyEndpoints, Active!TrackerTypeOK
    <2> QED BY <2>1, <2>2
<1>3. CASE UNCHANGED activeVars
    BY <1>3 DEF activeVars, Active!HealthyEndpoints
<1> QED BY <1>1, <1>2, <1>3, ActiveStep

-----------------------------------------------------------------------------
(* Steps outside Refresh.                                                   *)

\* They leave the picker as it is, and nobody who has come to its mutex goes
\* away again.
Quiet ==
    /\ UNCHANGED <<route, available, snapshot, refresh, skipped>>
    /\ membership' = membership \/ watcher = "membership"
    /\ watcher # "idle" => watcher' # "idle"
    /\ watcher = "refresh" => watcher' = "refresh"
    /\ changed \subseteq changed'
    /\ probing = {} /\ changed # {} => probing' = {}
    /\ runner = "refresh" => runner' = "refresh"
    /\ \A r \in Requests :
        /\ request[r] = "ejecting" => request'[r] = "ejecting"
        /\ request'[r] = "admitted" => available \/ request[r] = "admitted"
        /\ target'[r] \in {target[r], NoEndpoint} \cup snapshot
        /\ target'[r] \in {target[r], NoEndpoint} \/ request[r] = "admitted"

LEMMA RequestIsQuiet ==
    ASSUME OwnTypes, NEW q \in Requests, RequestStep(q)
    PROVE  Quiet
<1> USE DEF poolRest, pickerVars, watcherVars, checkerVars, runnerVars, OwnTypes,
            Quiet
<1>1. CASE ReadAvailable(q)
    BY <1>1 DEF ReadAvailable
<1>2. CASE PickTarget(q)
    BY <1>2 DEF PickTarget
<1>3. CASE TakePermit(q)
    BY <1>3 DEF TakePermit
<1>4. CASE PermitRefused(q)
    BY <1>4 DEF PermitRefused
<1>5. CASE SendUntracked(q)
    BY <1>5 DEF SendUntracked
<1>6. ASSUME NEW outcome \in Outcomes, FinishRoundTrip(q, outcome)
      PROVE  Quiet
    BY <1>6 DEF FinishRoundTrip
<1>7. CASE SendWake(q)
    BY <1>7 DEF SendWake
<1>8. CASE AnswerRefused(q)
    BY <1>8 DEF AnswerRefused
<1> QED BY <1>1, <1>2, <1>3, <1>4, <1>5, <1>6, <1>7, <1>8 DEF RequestStep

LEMMA OthersAreQuiet ==
    ASSUME OwnTypes, [Next]_vars, ~\E a \in Actors : RefreshStep(a)
    PROVE  Quiet
<1> USE DEF pickerVars, requestVars, watcherVars, checkerVars, runnerVars, runnerRest,
            Quiet
<1>1. CASE \E r \in Requests : RequestStep(r)
    BY <1>1, RequestIsQuiet
<1>2. CASE \E endpoints \in SUBSET Endpoints : ResolveAnswer(endpoints)
    BY <1>2 DEF ResolveAnswer
<1>3. CASE ApplyStep
    BY <1>3 DEF ApplyStep, ApplyActive, ApplyPassive, ApplyMembership
<1>4. CASE BeginRound
    BY <1>4 DEF BeginRound
<1>5. CASE \E e \in Endpoints : ProbeSucceeds(e) \/ ProbeFails(e)
    BY <1>5 DEF ProbeSucceeds, ProbeFails
<1>6. CASE RunnerStep \/ Tick
    BY <1>6 DEF RunnerStep, ComputeDelay, ReceiveWake, TimerFires, Tick
<1>7. CASE UNCHANGED vars
    BY <1>7 DEF vars
<1> QED BY <1>1, <1>2, <1>3, <1>4, <1>5, <1>6, <1>7 DEF Next

LEMMA QuietKeepsOrder ==
    ASSUME PoolInv, Quiet
    PROVE  /\ RefreshInOrder' /\ SkippedInOrder'
           /\ HostNameUnreachable' /\ OnlyAddressesPicked'
           /\ Pending => Pending'
<1>1. \A a : WantsRefresh(a) => WantsRefresh(a)'
    BY DEF WantsRefresh, Quiet
<1>2. RefreshInOrder' /\ SkippedInOrder'
    BY <1>1 DEF PoolInv, RefreshInOrder, SkippedInOrder, Quiet
<1>3. HostNameUnreachable'
    BY DEF PoolInv, HostNameUnreachable, Quiet
<1>4. OnlyAddressesPicked'
    BY PoolAssumption DEF PoolInv, OnlyAddressesPicked, HostNameUnreachable, Quiet
<1>5. Pending => Pending'
    BY DEF Pending, Quiet
<1> QED BY <1>2, <1>3, <1>4, <1>5

\* Where nobody is on the way to the mutex after the step, the sources have
\* kept what they said, but for endpoints whose ejection is over.
LEMMA QuietKeepsSources ==
    ASSUME PoolInv, Quiet, [Next]_vars, ~Pending'
    PROVE  /\ ~Pending
           /\ membership' = membership
           /\ Active!HealthyEndpoints' = Active!HealthyEndpoints
           /\ HealthyEndpoints \subseteq HealthyEndpoints'
           /\ members' = members
<1>1. ~Pending
    BY QuietKeepsOrder
<1>2. watcher \in {"idle", "refresh"}
    <2>1. refresh.owner = Watcher => watcher = "refresh"
        BY PoolAssumption
           DEF PoolInv, RefreshInOrder, WantsRefresh, Watcher, Checker, Runner, Actors
    <2> QED BY <1>1, <2>1 DEF Pending
<1>3. ~(probing # {} /\ changed' # {})
    <2>1. refresh.owner = Checker => probing = {}
        BY PoolAssumption
           DEF PoolInv, RefreshInOrder, WantsRefresh, Watcher, Checker, Runner, Actors
    <2> QED BY <2>1 DEF Pending, Quiet
<1>4. ASSUME NEW r \in Requests, request[r] = "sent", request'[r] = "ejecting"
      PROVE  FALSE
    <2>1. refresh.owner # r
        BY <1>4, PoolAssumption
           DEF PoolInv, RefreshInOrder, WantsRefresh, Watcher, Checker, Runner, Actors
    <2> QED BY <1>4, <2>1 DEF Pending, Quiet
<1>5. Active!HealthyEndpoints' = Active!HealthyEndpoints
    BY <1>2, <1>3, ActiveChanges
<1>6. HealthyEndpoints \subseteq HealthyEndpoints'
    BY <1>2, <1>4, HealthyLoses
<1>7. members' = members
    BY <1>2, MembersStay
<1> QED BY <1>1, <1>2, <1>5, <1>6, <1>7 DEF Quiet

LEMMA QuietKeepsCurrent ==
    ASSUME PoolInv, Quiet, [Next]_vars
    PROVE  FoundIsCurrent' /\ PublishedIsCurrent'
<1>1. CASE Pending'
    BY <1>1 DEF FoundIsCurrent, PublishedIsCurrent
<1>2. CASE ~Pending'
    <2>1. /\ ~Pending /\ membership' = membership
          /\ Active!HealthyEndpoints' = Active!HealthyEndpoints
          /\ HealthyEndpoints \subseteq HealthyEndpoints' /\ members' = members
          /\ UNCHANGED <<route, available, snapshot, refresh, skipped>>
        BY <1>2, QuietKeepsSources DEF Quiet
    <2>2. Seen \subseteq Seen' /\ Listed' = Listed
        BY <2>1 DEF Seen, Listed, UseActive, UsePassive
    <2>3. /\ Eligible \subseteq Eligible' /\ Candidates' = Candidates
          /\ Published' = Published
        BY <2>1 DEF Eligible, Candidates, Published, UseActive, UsePassive
    <2>4. FoundIsCurrent'
        BY <2>1, <2>2 DEF PoolInv, FoundIsCurrent
    <2>5. PublishedIsCurrent'
        BY <2>1, <2>3 DEF PoolInv, PublishedIsCurrent
    <2> QED BY <2>4, <2>5
<1> QED BY <1>1, <1>2

-----------------------------------------------------------------------------
(* The steps of Refresh.                                                    *)

\* Clearing the ejections that are over takes no endpoint from the healthy ones.
LEMMA ClearingIsHarmless ==
    ASSUME PassiveInv, ClearExpired
    PROVE  HealthyEndpoints \subseteq HealthyEndpoints'
<1>1. IInv /\ members \subseteq Endpoints
    BY DEF PassiveInv, IInv, PassiveTypeOK
<1>2. NotEjected <= 0
    BY DEF NotEjected
<1> QED BY <1>1, <1>2, ClearExpiredEffect DEF HealthyEndpoints, Available

\* All sources have been read: what has been seen is who is eligible.
LEMMA AllReadIsEligible ==
    ASSUME AllRead
    PROVE  /\ Seen = Eligible /\ Listed = Candidates
           /\ refresh.stage \notin {"none", "closed", "published"}
BY DEF AllRead, Seen, Eligible, Listed, Candidates

\* A step inside Refresh, by whoever holds the mutex.
LEMMA HolderStep ==
    ASSUME PoolInv, NEW a \in Actors,
           ReadMembership(a) \/ ReadActive(a) \/ ReadPassive(a) \/ Publish(a)
    PROVE  /\ RefreshInOrder' /\ SkippedInOrder'
           /\ FoundIsCurrent' /\ PublishedIsCurrent'
           /\ HostNameUnreachable' /\ OnlyAddressesPicked'
<1>f. /\ refresh \in [owner : Actors \cup {Nobody}, stage : Stages,
                      found : SUBSET Endpoints]
      /\ RefreshInOrder /\ SkippedInOrder /\ FoundIsCurrent
      /\ HostNameUnreachable /\ OnlyAddressesPicked
    BY OwnTypesAre DEF PoolInv, OwnTypes
<1>a. refresh.owner = a /\ a # Nobody /\ ~available
    BY <1>f, PoolAssumption
       DEF ReadMembership, ReadActive, ReadPassive, Publish, At, RefreshInOrder
<1>u. UNCHANGED <<route, membership, available, request, target, watcher, changed,
                  probing, runner>>
    BY DEF ReadMembership, ReadActive, ReadPassive, Publish, requestVars, watcherVars,
           checkerVars, runnerVars
<1>p. /\ refresh'.owner = a
      /\ Pending' <=> Pending
      /\ UsePassive' = UsePassive /\ UseActive' = UseActive
      /\ WantsRefresh(a)' <=> WantsRefresh(a)
    <2>1. refresh'.owner = a
        BY <1>f, <1>a DEF ReadMembership, ReadActive, ReadPassive, Publish
    <2> QED BY <2>1, <1>a, <1>u DEF Pending, UsePassive, UseActive, WantsRefresh
<1>1. ASSUME ReadMembership(a)
      PROVE  /\ RefreshInOrder' /\ SkippedInOrder'
             /\ FoundIsCurrent' /\ HostNameUnreachable'
    <2>1. /\ refresh'.stage = "read_membership" /\ refresh'.found = membership
          /\ snapshot' = snapshot /\ skipped' = skipped
          /\ refresh.stage = "closed"
        BY <1>1, <1>f DEF ReadMembership, At
    <2>2. Seen' = membership /\ Listed' = membership
        BY <1>u, <2>1 DEF Seen, Listed
    <2> QED BY <1>a, <1>f, <1>p, <1>u, <2>1, <2>2
            DEF RefreshInOrder, SkippedInOrder, FoundIsCurrent, HostNameUnreachable
<1>2. ASSUME ReadActive(a)
      PROVE  /\ RefreshInOrder' /\ SkippedInOrder'
             /\ FoundIsCurrent' /\ HostNameUnreachable'
    <2>1. /\ refresh'.stage = "read_active"
          /\ refresh'.found = refresh.found \cap Active!HealthyEndpoints
          /\ snapshot' = snapshot /\ skipped' = skipped
          /\ refresh.stage = "read_membership" /\ UseActive
          /\ Active!HealthyEndpoints' = Active!HealthyEndpoints
        BY <1>2, <1>f DEF ReadActive, At, activeVars, Active!HealthyEndpoints
    <2>2. /\ Seen = membership /\ Seen' = membership \cap Active!HealthyEndpoints
          /\ Listed = Seen /\ Listed' = Seen'
        BY <1>p, <1>u, <2>1 DEF Seen, Listed
    <2>3. FoundIsCurrent'
        BY <1>f, <1>p, <2>1, <2>2 DEF FoundIsCurrent
    <2> QED BY <1>a, <1>f, <1>p, <1>u, <2>1, <2>3
            DEF RefreshInOrder, SkippedInOrder, HostNameUnreachable
<1>3. ASSUME ReadPassive(a)
      PROVE  /\ RefreshInOrder' /\ SkippedInOrder'
             /\ FoundIsCurrent' /\ HostNameUnreachable'
    <2>1. /\ refresh'.stage = "read_passive"
          /\ refresh'.found = refresh.found \cap HealthyEndpoints
          /\ snapshot' = snapshot /\ skipped' = Running
          /\ refresh.stage = IF UseActive THEN "read_active" ELSE "read_membership"
          /\ UsePassive
          /\ Active!HealthyEndpoints' = Active!HealthyEndpoints
          /\ members' = members
        BY <1>3, <1>f DEF ReadPassive, At, activeVars, Active!HealthyEndpoints, ClearExpired
    <2>2. HealthyEndpoints \subseteq HealthyEndpoints'
        BY <1>3, ClearingIsHarmless DEF ReadPassive, PoolInv
    <2>3. Seen \cap HealthyEndpoints \subseteq Seen'
        BY <1>p, <1>u, <2>1, <2>2 DEF Seen
    <2>4. skipped = {} /\ Listed' = Listed \cap members
        BY <1>f, <1>p, <1>u, <2>1 DEF SkippedInOrder, Listed
    <2>5. members \subseteq HealthyEndpoints \cup Running
        BY DEF PoolInv, PassiveInv, IInv, PassiveTypeOK, EndpointState, NotEjected,
               HealthyEndpoints, Available, Running
    <2>6. FoundIsCurrent'
        BY <1>f, <1>p, <2>1, <2>3, <2>4, <2>5 DEF FoundIsCurrent
    <2> QED BY <1>a, <1>f, <1>p, <1>u, <2>1, <2>6
            DEF RefreshInOrder, SkippedInOrder, HostNameUnreachable
<1>4. ASSUME Publish(a)
      PROVE  /\ RefreshInOrder' /\ SkippedInOrder'
             /\ FoundIsCurrent' /\ HostNameUnreachable'
    <2>1. /\ refresh'.stage = "published" /\ refresh'.found = refresh.found
          /\ snapshot' = refresh.found /\ refresh.found # {}
          /\ AllRead /\ skipped' = skipped /\ members' = members
          /\ Active!HealthyEndpoints' = Active!HealthyEndpoints
          /\ HealthyEndpoints' = HealthyEndpoints
        BY <1>4, <1>f DEF Publish, activeVars, passiveVars, Active!HealthyEndpoints,
                          HealthyEndpoints
    <2>2. Seen = Eligible /\ Listed = Candidates /\ refresh.stage \notin {"none", "closed"}
        BY <2>1, AllReadIsEligible
    <2>3. Seen' = Eligible /\ Listed' = Candidates
        BY <1>p, <1>u, <2>1 DEF Seen, Eligible, Listed, Candidates
    <2>4. LogicalEndpoint \notin snapshot'
        BY <1>f, <2>1, PoolAssumption
    <2>5. FoundIsCurrent'
        BY <1>f, <1>p, <2>1, <2>2, <2>3 DEF FoundIsCurrent
    <2> QED BY <1>a, <1>f, <1>p, <1>u, <2>1, <2>4, <2>5
            DEF RefreshInOrder, SkippedInOrder, HostNameUnreachable
<1>5. PublishedIsCurrent'
    <2>1. refresh'.stage # "none"
        BY <1>f DEF ReadMembership, ReadActive, ReadPassive, Publish
    <2> QED BY <2>1 DEF PublishedIsCurrent
<1>6. OnlyAddressesPicked'
    BY <1>f, <1>u DEF OnlyAddressesPicked
<1> QED BY <1>1, <1>2, <1>3, <1>4, <1>5, <1>6

LEMMA LockStep ==
    ASSUME PoolInv, NEW a \in Actors, LockAndClose(a)
    PROVE  /\ RefreshInOrder' /\ SkippedInOrder'
           /\ FoundIsCurrent' /\ PublishedIsCurrent'
           /\ HostNameUnreachable' /\ OnlyAddressesPicked'
<1>1. /\ refresh' = [owner |-> a, stage |-> "closed", found |-> {}]
      /\ available' = FALSE /\ WantsRefresh(a) /\ skipped' = {}
      /\ UNCHANGED <<snapshot, request, target, watcher, changed, probing, runner>>
    BY DEF LockAndClose, requestVars, watcherVars, checkerVars, runnerVars
<1>2. WantsRefresh(a)'
    BY <1>1 DEF WantsRefresh
<1>3. ASSUME LogicalEndpoint \in snapshot, NEW r \in Requests
      PROVE  request[r] # "admitted"
    BY <1>3 DEF PoolInv, HostNameUnreachable
<1>4. RefreshInOrder' /\ SkippedInOrder'
    BY <1>1, <1>2, PoolAssumption DEF RefreshInOrder, SkippedInOrder
<1>5. FoundIsCurrent' /\ PublishedIsCurrent'
    BY <1>1 DEF FoundIsCurrent, PublishedIsCurrent
<1>6. HostNameUnreachable' /\ OnlyAddressesPicked'
    BY <1>1, <1>3 DEF HostNameUnreachable, PoolInv, OnlyAddressesPicked
<1> QED BY <1>4, <1>5, <1>6

\* The end of a refresh: what it has found is published now, or nothing is.
LEMMA ReleaseStep ==
    ASSUME PoolInv, NEW a \in Actors, LeaveClosed(a) \/ Reopen(a)
    PROVE  /\ RefreshInOrder' /\ SkippedInOrder'
           /\ FoundIsCurrent' /\ PublishedIsCurrent'
           /\ HostNameUnreachable' /\ OnlyAddressesPicked'
<1>f. /\ refresh \in [owner : Actors \cup {Nobody}, stage : Stages,
                      found : SUBSET Endpoints]
      /\ RefreshInOrder /\ FoundIsCurrent /\ HostNameUnreachable
      /\ OnlyAddressesPicked
      /\ request \in [Requests -> {"idle", "admitted", "picked", "sent", "ejecting",
                                   "waking", "refused"}]
    BY OwnTypesAre DEF PoolInv, OwnTypes
<1>u. /\ refresh' = Idle /\ Return(a) /\ refresh.owner = a
      /\ UNCHANGED <<route, membership, snapshot, target, members, skipped>>
      /\ Active!HealthyEndpoints' = Active!HealthyEndpoints
      /\ HealthyEndpoints' = HealthyEndpoints
    BY DEF LeaveClosed, Reopen, At, activeVars, passiveVars, Active!HealthyEndpoints,
           HealthyEndpoints
<1>1. RefreshInOrder' /\ SkippedInOrder'
    BY <1>u, PoolAssumption DEF RefreshInOrder, SkippedInOrder, Idle
<1>2. FoundIsCurrent'
    BY <1>u DEF FoundIsCurrent, Idle
<1>3. ~Pending' => ~Pending
    <2>1. refresh'.owner = Nobody
        BY <1>u DEF Idle
    <2>2. Nobody \notin Requests \cup {Watcher, Checker, Runner}
        BY PoolAssumption DEF Actors
    <2>3. watcher # "idle" /\ a # Watcher => watcher' # "idle"
        BY <1>u DEF Return
    <2>4. changed # {} /\ a # Checker => changed' # {}
        BY <1>u DEF Return
    <2>5. \A r \in Requests : request[r] = "ejecting" /\ a # r => request'[r] = "ejecting"
        BY <1>f, <1>u DEF Return
    <2> QED BY <1>u, <2>1, <2>2, <2>3, <2>4, <2>5 DEF Pending
<1>4. Eligible' = Eligible /\ Candidates' = Candidates
    BY <1>u DEF Eligible, Candidates, UseActive, UsePassive
<1>5. PublishedIsCurrent'
    <2>1. CASE LeaveClosed(a)
        <3>1. Listed = Candidates /\ refresh.stage \notin {"none", "closed"}
            BY <2>1, AllReadIsEligible DEF LeaveClosed
        <3>2. refresh.found = {} /\ ~available'
            BY <1>f, <1>u, <2>1, PoolAssumption DEF LeaveClosed, RefreshInOrder, passiveVars
        <3> QED BY <1>3, <1>4, <1>f, <1>u, <3>1, <3>2
                DEF FoundIsCurrent, PublishedIsCurrent, Published
    <2>2. CASE Reopen(a)
        <3>1. refresh.stage = "published" /\ available'
            BY <2>2 DEF Reopen, At
        <3>2. refresh.found = snapshot /\ snapshot # {}
            BY <1>f, <3>1 DEF RefreshInOrder
        <3>3. Seen = Eligible /\ Listed = Candidates
            BY <3>1 DEF Seen, Eligible, Listed, Candidates
        <3>4. available' = TRUE
            BY <2>2 DEF Reopen
        <3> QED BY <1>3, <1>4, <1>f, <1>u, <3>1, <3>2, <3>3, <3>4
                DEF FoundIsCurrent, PublishedIsCurrent, Published
    <2> QED BY <2>1, <2>2
<1>6. HostNameUnreachable' /\ OnlyAddressesPicked'
    <2>1. \A r \in Requests : request'[r] = "admitted" => request[r] = "admitted"
        BY <1>f, <1>u DEF Return
    <2>2. CASE LeaveClosed(a)
        BY <1>f, <1>u, <2>1, <2>2
           DEF LeaveClosed, HostNameUnreachable, OnlyAddressesPicked
    <2>3. CASE Reopen(a)
        <3>1. LogicalEndpoint \notin snapshot
            BY <1>f, <2>3, PoolAssumption DEF Reopen, At, RefreshInOrder
        <3> QED BY <1>f, <1>u, <3>1 DEF HostNameUnreachable, OnlyAddressesPicked
    <2> QED BY <2>2, <2>3
<1> QED BY <1>1, <1>2, <1>5, <1>6

-----------------------------------------------------------------------------
(* Who is left to wake the runner.                                          *)

\* An ejection begins only with a request that reports it.
LEMMA PendingGrows ==
    ASSUME PoolInv, [Next]_vars
    PROVE  \/ PendingRecoveries' \subseteq PendingRecoveries
           \/ \E r \in Requests : request'[r] = "ejecting"
<1>i. PassiveInv /\ IInv /\ answer \in SUBSET Endpoints
    BY OwnTypesAre DEF PoolInv, PassiveInv, OwnTypes
<1>m. members' \subseteq Endpoints
    BY PoolTypeStep DEF PoolInv, PoolTypeOK, PassiveTypeOK
<1>g. ASSUME \A e \in Endpoints : e \in members' /\ state'[e].ejection # NotEjected =>
                                    e \in members /\ state[e].ejection # NotEjected
      PROVE  PendingRecoveries' \subseteq PendingRecoveries
    BY <1>m, <1>g DEF PendingRecoveries, NotEjected
<1>1. CASE ClearExpired
    BY <1>1, <1>g, <1>i, ClearExpiredEffect
<1>2. CASE Replace(answer)
    BY <1>2, <1>g, <1>i, ReplaceEffect
<1>3. CASE \E r \in Requests, d \in Endpoints : AcquirePermit(r, d)
    BY <1>3, <1>g, <1>i, AcquireEffect
<1>4. ASSUME NEW r \in Requests, NEW outcome \in Outcomes, FinishRoundTrip(r, outcome)
      PROVE  \/ PendingRecoveries' \subseteq PendingRecoveries
             \/ request'[r] = "ejecting"
    <2>1. /\ RecordOutcome(r, outcome)
          /\ ReportsEjection(r, outcome) => request'[r] = "ejecting"
        BY <1>4, OwnTypesAre DEF FinishRoundTrip, PoolInv, OwnTypes
    <2>2. ASSUME ~ReportsEjection(r, outcome), NEW e \in Endpoints,
                 e \in members', state'[e].ejection # NotEjected
          PROVE  e \in members /\ state[e].ejection # NotEjected
        <3>1. r \in Counted(e) => ~Ejects(state[e], outcome)
            BY <2>2 DEF ReportsEjection, Counted, Holders
        <3> QED BY <1>i, <2>1, <2>2, <3>1, RecordEffect DEF Outcomes
    <2> QED BY <1>g, <2>1, <2>2
<1>5. CASE Elapse
    BY <1>5, <1>g, <1>i, ElapseEffect DEF NotEjected
<1>6. CASE UNCHANGED passiveVars
    BY <1>6 DEF passiveVars, PendingRecoveries
<1> QED BY <1>1, <1>2, <1>3, <1>4, <1>5, <1>6, <1>i, PassiveStep

\* The runner goes to sleep for good only when it has seen no ejection, and
\* until it has woken up, a wake-up is not lost.
AlarmStands ==
    /\ runner = "blocked" \/ PendingRecoveries' = {}
    /\ wake => wake'
    /\ \A r \in Requests : request[r] \in {"ejecting", "waking"} =>
            request'[r] \in {"ejecting", "waking"} \/ wake'

LEMMA AlarmIsKept ==
    ASSUME OwnTypes, [Next]_vars, runner' = "blocked"
    PROVE  AlarmStands
<1> USE DEF pickerVars, requestVars, watcherVars, checkerVars, runnerVars, AlarmStands
<1>1. ASSUME NEW a \in Actors, RefreshStep(a)
      PROVE  AlarmStands
    <2>1. CASE LeaveClosed(a) \/ Reopen(a)
        <3>1. runner = "blocked" /\ wake' = wake
            BY <2>1 DEF LeaveClosed, Reopen, Return
        <3>2. \A r \in Requests : request'[r] \in {request[r], "waking"}
            BY <2>1 DEF LeaveClosed, Reopen, Return, OwnTypes
        <3> QED BY <3>1, <3>2
    <2>2. CASE ~(LeaveClosed(a) \/ Reopen(a))
        BY <1>1, <2>2 DEF RefreshStep, LockAndClose, ReadMembership, ReadActive,
                          ReadPassive, Publish
    <2> QED BY <2>1, <2>2
<1>2. ASSUME NEW q \in Requests, RequestStep(q)
      PROVE  AlarmStands
    <2>1. runner = "blocked"
        BY <1>2 DEF RequestStep, ReadAvailable, PickTarget, TakePermit, PermitRefused,
                    SendUntracked, FinishRoundTrip, SendWake, AnswerRefused, poolRest
    <2>2. CASE SendWake(q)
        BY <2>1, <2>2 DEF SendWake
    <2>3. CASE ~SendWake(q)
        BY <1>2, <2>1, <2>3
           DEF RequestStep, ReadAvailable, PickTarget, TakePermit, PermitRefused,
               SendUntracked, FinishRoundTrip, AnswerRefused, OwnTypes
    <2> QED BY <2>2, <2>3
<1>3. CASE \E endpoints \in SUBSET Endpoints : ResolveAnswer(endpoints)
    BY <1>3 DEF ResolveAnswer
<1>4. CASE ApplyStep
    BY <1>4 DEF ApplyStep, ApplyActive, ApplyPassive, ApplyMembership
<1>5. CASE BeginRound \/ \E e \in Endpoints : ProbeSucceeds(e) \/ ProbeFails(e)
    BY <1>5 DEF BeginRound, ProbeSucceeds, ProbeFails
<1>6. CASE RunnerStep
    BY <1>6 DEF RunnerStep, ComputeDelay, ReceiveWake, TimerFires, runnerRest,
                passiveVars, PendingRecoveries
<1>7. CASE Tick \/ UNCHANGED vars
    BY <1>7 DEF Tick, vars
<1> QED BY <1>1, <1>2, <1>3, <1>4, <1>5, <1>6, <1>7 DEF Next

LEMMA RecoveryStaysComing ==
    ASSUME PoolInv, [Next]_vars
    PROVE  RecoveryIsComing'
<1> SUFFICES ASSUME PendingRecoveries' # {}, runner' = "blocked", ~wake',
                    \A r \in Requests : request'[r] \notin {"ejecting", "waking"}
             PROVE  FALSE
    BY DEF RecoveryIsComing
<1>1. AlarmStands
    BY AlarmIsKept, OwnTypesAre DEF PoolInv
<1>2. PendingRecoveries # {}
    BY PendingGrows
<1> QED BY <1>1, <1>2 DEF PoolInv, RecoveryIsComing, AlarmStands

-----------------------------------------------------------------------------

LEMMA PoolInvStep == PoolInv /\ [Next]_vars => PoolInv'
<1> SUFFICES ASSUME PoolInv, [Next]_vars PROVE PoolInv'
    OBVIOUS
<1>1. PoolTypeOK' /\ PassiveInv' /\ RecoveryIsComing'
    BY PoolTypeStep, RecoveryStaysComing DEF PoolInv
<1>2. /\ RefreshInOrder' /\ SkippedInOrder'
      /\ FoundIsCurrent' /\ PublishedIsCurrent'
      /\ HostNameUnreachable' /\ OnlyAddressesPicked'
    <2>1. CASE \E a \in Actors : RefreshStep(a)
        BY <2>1, LockStep, HolderStep, ReleaseStep DEF RefreshStep
    <2>2. CASE ~\E a \in Actors : RefreshStep(a)
        <3>1. Quiet
            BY <2>2, OthersAreQuiet, OwnTypesAre DEF PoolInv
        <3> QED BY <3>1, QuietKeepsOrder, QuietKeepsCurrent
    <2> QED BY <2>1, <2>2
<1> QED BY <1>1, <1>2 DEF PoolInv

LEMMA PoolInvariance == Spec => []PoolInv
BY PoolInvInit, PoolInvStep, PTL DEF Spec

\* Every variable of the pool keeps its type, whoever runs in whatever order.
THEOREM PoolTypesHold == Spec => []PoolTypeOK
BY PoolInvariance, PTL DEF PoolInv

\* Once all who changed membership, active or passive health have refreshed the
\* picker, it publishes endpoints that membership and every health check agree
\* on, however the refreshes raced with the changes; and if one of those is not
\* published, then it is because the latest refresh has met an ejection that is
\* over by now.
THEOREM SettledPoolPublishesEligible == Spec => []PublishedIsEligible
<1>1. ASSUME PoolInv, Settled
      PROVE  ~Pending /\ refresh.stage = "none"
    <2>1. /\ refresh.owner = Nobody /\ watcher = "idle" /\ changed = {}
          /\ \A r \in Requests : request[r] # "ejecting"
        BY <1>1 DEF Settled, Actors, WantsRefresh
    <2> QED BY <1>1, <2>1 DEF PoolInv, RefreshInOrder, Pending
<1>2. Eligible \subseteq Candidates
    BY DEF Eligible, Candidates, HealthyEndpoints
<1>3. PoolInv => PublishedIsEligible
    BY <1>1, <1>2 DEF PoolInv, PublishedIsCurrent, PublishedIsEligible
<1> QED BY <1>3, PoolInvariance, PTL

\* No request of a DNS route is ever sent to the host name itself, not even one
\* that read available before a refresh and asks the balancer after it.
THEOREM HostNameNeverPicked == Spec => []OnlyAddressesPicked
BY PoolInvariance, PTL DEF PoolInv

\* While an ejection is pending, the runner has a timer, or a wake-up in its
\* channel, or a request is on its way to send one: a wake-up is never lost.
THEOREM WakeUpNeverLost == Spec => []RecoveryIsComing
BY PoolInvariance, PTL DEF PoolInv

\* The pool, with all its goroutines, does to the passive tracker only what
\* PassiveHealthTracker says may be done to it.
THEOREM PassiveInPool == Spec => PassiveSpec
<1>1. Init => PassiveInit
    BY DEF Init
<1>2. PoolInv /\ [Next]_vars => [PassiveNext]_passiveVars
    BY PassiveStepIsStep, OwnTypesAre DEF PoolInv, OwnTypes
<1> QED BY <1>1, <1>2, PoolInvariance, PTL DEF Spec, PassiveSpec

\* In the pool as well, no request that was under way to an endpoint when it was
\* ejected counts against it again, and the endpoint lives by its contract.
THEOREM EjectionsInPool == Spec => []EjectedHearsNobody /\ ImplementsContract
BY PassiveInPool, EjectedNeverHears, TrackerImplementsContract

=============================================================================
