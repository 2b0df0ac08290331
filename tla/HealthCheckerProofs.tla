------------------------- MODULE HealthCheckerProofs -------------------------
(****************************************************************************)
(* What active health means, and the checker that acts on it, for any       *)
(* endpoints, thresholds and number of workers.                             *)
(*                                                                          *)
(* The meaning (HealthHistory) rests on CountersAreRuns: the counters of    *)
(* endpointHealth are run lengths, and only the one that could change the   *)
(* health is in use.                                                        *)
(*                                                                          *)
(* Every step of the checker is a step of HealthHistory or none, so that    *)
(* what is proved there holds of it.  Two invariants are added: an endpoint *)
(* on which picker and tracker differ has a result that is still to be      *)
(* reported (Told), and an endpoint's run of failures has one stale failure *)
(* in it at most, which is still to come as long as a stale probe is on its *)
(* way (Fresh).                                                             *)
(****************************************************************************)
EXTENDS HealthChecker, TLAPS

(* HealthHistory: the tracker under reports in any order.                   *)

LEMMA NewRecordType == NewEndpointHealth \in HealthRecord
BY TrackerAssumption DEF NewEndpointHealth, HealthRecord

LEMMA InvInit == Init => IInv
<1> SUFFICES ASSUME Init PROVE IInv
    OBVIOUS
<1>1. TypeOK
    BY NewRecordType, TrackerAssumption DEF Init, TrackerInit, TypeOK, TrackerTypeOK
<1>2. CountersAreRuns
    BY DEF Init, TrackerInit, CountersAreRuns, NewEndpointHealth
<1> QED BY <1>1, <1>2 DEF IInv

\* What one report does to a record whose counter is the length of a run.
LEMMA SuccessCounts ==
    ASSUME NEW h \in HealthRecord,
           NEW f \in 0 .. FailureThreshold, NEW s \in 0 .. SuccessThreshold,
           IF h.healthy THEN h.failures = f /\ h.successes = 0
                        ELSE h.successes = s /\ h.failures = 0
    PROVE  /\ AfterSuccess(h) \in HealthRecord
           /\ Saturated(s, SuccessThreshold) \in 0 .. SuccessThreshold
           /\ IF AfterSuccess(h).healthy
              THEN AfterSuccess(h).failures = 0 /\ AfterSuccess(h).successes = 0
              ELSE /\ AfterSuccess(h).successes = Saturated(s, SuccessThreshold)
                   /\ AfterSuccess(h).failures = 0
           /\ h.healthy => AfterSuccess(h).healthy
           /\ ~h.healthy /\ AfterSuccess(h).healthy
                => Saturated(s, SuccessThreshold) = SuccessThreshold
<1> USE TrackerAssumption DEF HealthRecord, Saturated, AfterSuccess
<1>1. CASE h.healthy
    BY <1>1
<1>2. CASE ~h.healthy /\ h.successes + 1 >= SuccessThreshold
    BY <1>2 DEF NewEndpointHealth
<1>3. CASE ~h.healthy /\ ~(h.successes + 1 >= SuccessThreshold)
    <2>1. AfterSuccess(h) =
            [healthy |-> FALSE, successes |-> h.successes + 1, failures |-> 0]
        BY <1>3
    <2>2. h.successes + 1 \in 0 .. SuccessThreshold - 1 /\ h.successes = s
        BY <1>3
    <2> HIDE DEF AfterSuccess
    <2> QED BY <1>3, <2>1, <2>2
<1> QED BY <1>1, <1>2, <1>3

LEMMA FailureCounts ==
    ASSUME NEW h \in HealthRecord,
           NEW f \in 0 .. FailureThreshold, NEW s \in 0 .. SuccessThreshold,
           IF h.healthy THEN h.failures = f /\ h.successes = 0
                        ELSE h.successes = s /\ h.failures = 0
    PROVE  /\ AfterFailure(h) \in HealthRecord
           /\ Saturated(f, FailureThreshold) \in 0 .. FailureThreshold
           /\ IF AfterFailure(h).healthy
              THEN /\ AfterFailure(h).failures = Saturated(f, FailureThreshold)
                   /\ AfterFailure(h).successes = 0
              ELSE AfterFailure(h).successes = 0 /\ AfterFailure(h).failures = 0
           /\ ~h.healthy => ~AfterFailure(h).healthy
           /\ h.healthy /\ ~AfterFailure(h).healthy
                => Saturated(f, FailureThreshold) = FailureThreshold
<1> USE TrackerAssumption DEF HealthRecord, Saturated, AfterFailure
<1>1. CASE ~h.healthy
    BY <1>1
<1>2. CASE h.healthy /\ h.failures + 1 >= FailureThreshold
    BY <1>2
<1>3. CASE h.healthy /\ ~(h.failures + 1 >= FailureThreshold)
    <2>1. AfterFailure(h) =
            [healthy |-> TRUE, successes |-> 0, failures |-> h.failures + 1]
        BY <1>3
    <2>2. h.failures + 1 \in 0 .. FailureThreshold - 1 /\ h.failures = f
        BY <1>3
    <2> HIDE DEF AfterFailure
    <2> QED BY <1>3, <2>1, <2>2
<1> QED BY <1>1, <1>2, <1>3

\* The action property, for one step, is proved along with the invariant.
OnlyRunsChange ==
    \A e \in tracked \cap tracked' :
        /\ health[e].healthy /\ ~health'[e].healthy
                => failureRun'[e] = FailureThreshold
        /\ ~health[e].healthy /\ health'[e].healthy
                => successRun'[e] = SuccessThreshold

LEMMA InvStep == IInv /\ [Next]_vars => IInv' /\ OnlyRunsChange
<1> SUFFICES ASSUME IInv, [Next]_vars
             PROVE  TypeOK' /\ CountersAreRuns' /\ OnlyRunsChange
    BY DEF IInv
<1>t. TypeOK /\ CountersAreRuns
    BY DEF IInv
<1>c. \A e \in tracked :
        IF health[e].healthy
        THEN health[e].failures = failureRun[e] /\ health[e].successes = 0
        ELSE health[e].successes = successRun[e] /\ health[e].failures = 0
    BY <1>t DEF CountersAreRuns, TypeOK, TrackerTypeOK
<1>s. CASE UNCHANGED vars
    BY <1>t, <1>s
       DEF vars, trackerVars, historyVars, TypeOK, TrackerTypeOK, CountersAreRuns,
           OnlyRunsChange
<1>1. ASSUME NEW e \in Endpoints, ReportSuccess(e)
      PROVE  TypeOK' /\ CountersAreRuns' /\ OnlyRunsChange
    <2>1. CASE e \notin tracked
        <3>1. UNCHANGED vars
            BY <1>1, <2>1
               DEF ReportSuccess, RecordSuccess, vars, trackerVars, historyVars
        <3> QED BY <1>s, <3>1
    <2>2. CASE e \in tracked
        <3>1. /\ tracked' = tracked
              /\ health' = [health EXCEPT ![e] = AfterSuccess(health[e])]
              /\ successRun' = [successRun EXCEPT
                                ![e] = Saturated(successRun[e], SuccessThreshold)]
              /\ failureRun' = [failureRun EXCEPT ![e] = 0]
            BY <1>1, <2>2 DEF ReportSuccess, RecordSuccess
        <3>2. /\ health[e] \in HealthRecord
              /\ failureRun[e] \in 0 .. FailureThreshold
              /\ successRun[e] \in 0 .. SuccessThreshold
            BY <1>t DEF TypeOK, TrackerTypeOK
        <3>3. /\ AfterSuccess(health[e]) \in HealthRecord
              /\ Saturated(successRun[e], SuccessThreshold) \in 0 .. SuccessThreshold
              /\ IF AfterSuccess(health[e]).healthy
                 THEN /\ AfterSuccess(health[e]).failures = 0
                      /\ AfterSuccess(health[e]).successes = 0
                 ELSE /\ AfterSuccess(health[e]).successes
                            = Saturated(successRun[e], SuccessThreshold)
                      /\ AfterSuccess(health[e]).failures = 0
              /\ health[e].healthy => AfterSuccess(health[e]).healthy
              /\ ~health[e].healthy /\ AfterSuccess(health[e]).healthy
                    => Saturated(successRun[e], SuccessThreshold) = SuccessThreshold
            BY <1>c, <2>2, <3>2, SuccessCounts
        <3>4. TypeOK'
            BY <1>t, <3>1, <3>3, TrackerAssumption DEF TypeOK, TrackerTypeOK
        <3>5. CountersAreRuns'
            BY <1>t, <2>2, <3>1, <3>3 DEF CountersAreRuns, TypeOK, TrackerTypeOK
        <3>6. OnlyRunsChange
            BY <1>t, <2>2, <3>1, <3>3 DEF OnlyRunsChange, TypeOK, TrackerTypeOK
        <3> QED BY <3>4, <3>5, <3>6
    <2> QED BY <2>1, <2>2
<1>2. ASSUME NEW e \in Endpoints, ReportFailure(e)
      PROVE  TypeOK' /\ CountersAreRuns' /\ OnlyRunsChange
    <2>1. CASE e \notin tracked
        <3>1. UNCHANGED vars
            BY <1>2, <2>1
               DEF ReportFailure, RecordFailure, vars, trackerVars, historyVars
        <3> QED BY <1>s, <3>1
    <2>2. CASE e \in tracked
        <3>1. /\ tracked' = tracked
              /\ health' = [health EXCEPT ![e] = AfterFailure(health[e])]
              /\ failureRun' = [failureRun EXCEPT
                                ![e] = Saturated(failureRun[e], FailureThreshold)]
              /\ successRun' = [successRun EXCEPT ![e] = 0]
            BY <1>2, <2>2 DEF ReportFailure, RecordFailure
        <3>2. /\ health[e] \in HealthRecord
              /\ failureRun[e] \in 0 .. FailureThreshold
              /\ successRun[e] \in 0 .. SuccessThreshold
            BY <1>t DEF TypeOK, TrackerTypeOK
        <3>3. /\ AfterFailure(health[e]) \in HealthRecord
              /\ Saturated(failureRun[e], FailureThreshold) \in 0 .. FailureThreshold
              /\ IF AfterFailure(health[e]).healthy
                 THEN /\ AfterFailure(health[e]).failures
                            = Saturated(failureRun[e], FailureThreshold)
                      /\ AfterFailure(health[e]).successes = 0
                 ELSE /\ AfterFailure(health[e]).successes = 0
                      /\ AfterFailure(health[e]).failures = 0
              /\ ~health[e].healthy => ~AfterFailure(health[e]).healthy
              /\ health[e].healthy /\ ~AfterFailure(health[e]).healthy
                    => Saturated(failureRun[e], FailureThreshold) = FailureThreshold
            BY <1>c, <2>2, <3>2, FailureCounts
        <3>4. TypeOK'
            BY <1>t, <3>1, <3>3, TrackerAssumption DEF TypeOK, TrackerTypeOK
        <3>5. CountersAreRuns'
            BY <1>t, <2>2, <3>1, <3>3 DEF CountersAreRuns, TypeOK, TrackerTypeOK
        <3>6. OnlyRunsChange
            BY <1>t, <2>2, <3>1, <3>3 DEF OnlyRunsChange, TypeOK, TrackerTypeOK
        <3> QED BY <3>4, <3>5, <3>6
    <2> QED BY <2>1, <2>2
<1>3. ASSUME NEW endpoints \in SUBSET Endpoints, ReplaceEndpoints(endpoints)
      PROVE  TypeOK' /\ CountersAreRuns' /\ OnlyRunsChange
    <2>1. TypeOK'
        BY <1>t, <1>3, NewRecordType, TrackerAssumption
           DEF ReplaceEndpoints, Replace, TypeOK, TrackerTypeOK
    <2>2. CountersAreRuns'
        BY <1>t, <1>3
           DEF ReplaceEndpoints, Replace, CountersAreRuns, NewEndpointHealth
    <2>3. OnlyRunsChange
        BY <1>t, <1>3
           DEF ReplaceEndpoints, Replace, OnlyRunsChange, TypeOK, TrackerTypeOK
    <2> QED BY <2>1, <2>2, <2>3
<1> QED BY <1>s, <1>1, <1>2, <1>3 DEF Next

\* An endpoint in rotation has not failed FailureThreshold probes in a row and
\* one kept out has not passed SuccessThreshold in a row, through every
\* replacement of the endpoint set.
THEOREM HealthAlwaysFollowsRuns == Spec => []HealthFollowsRuns
<1>1. IInv => HealthFollowsRuns
    <2> SUFFICES ASSUME IInv, NEW e \in tracked
                 PROVE  IF health[e].healthy
                        THEN failureRun[e] < FailureThreshold
                        ELSE successRun[e] < SuccessThreshold
        BY DEF HealthFollowsRuns
    <2>1. health[e] \in HealthRecord /\ e \in Endpoints
        BY DEF IInv, TypeOK, TrackerTypeOK
    <2> QED
        BY <2>1, TrackerAssumption DEF IInv, CountersAreRuns, HealthRecord
<1> QED BY <1>1, InvInit, InvStep, PTL DEF Spec

\* Nothing but such a run takes an endpoint out of rotation or puts it back.
THEOREM OnlyRunsEverChangeHealth == Spec => OnlyRunsChangeHealth
<1>1. IInv /\ [Next]_vars => [OnlyRunsChange]_vars
    BY InvStep
<1>2. [OnlyRunsChange]_vars <=>
        [\A e \in tracked \cap tracked' :
            /\ health[e].healthy /\ ~health'[e].healthy
                    => failureRun'[e] = FailureThreshold
            /\ ~health[e].healthy /\ health'[e].healthy
                    => successRun'[e] = SuccessThreshold]_vars
    BY DEF OnlyRunsChange
<1> QED BY <1>1, <1>2, InvInit, InvStep, PTL DEF Spec, OnlyRunsChangeHealth

-----------------------------------------------------------------------------
(* The checker.                                                             *)

\* A round is in progress while any job is.
Rounds == \A e \in Endpoints : job[e] # "none" => run = "round"

Told ==
    \A e \in Endpoints :
        (e \in published) # (e \in HealthyEndpoints) => job[e] = "changed"

Fresh ==
    \A e \in tracked :
        /\ failureRun[e] <= freshRun[e] + 1
        /\ job[e] \in Working /\ ~current[e] => failureRun[e] <= freshRun[e]

CheckerInv == CheckerTypeOK /\ CountersAreRuns /\ Rounds /\ Told /\ Fresh

LEMMA CheckerInvInit == CheckerInit => CheckerInv
<1> SUFFICES ASSUME CheckerInit PROVE CheckerInv
    OBVIOUS
<1> USE DEF CheckerInit
<1>1. IInv
    BY InvInit
<1>2. CheckerTypeOK
    <2>1. cancelled \in BOOLEAN
        BY Zenon
    <2>2. published \in SUBSET Endpoints
        BY TrackerAssumption
    <2>3. /\ job \in [Endpoints -> {"none"} \cup Unfinished \cup Results]
          /\ current \in [Endpoints -> BOOLEAN]
          /\ freshRun \in [Endpoints -> 0 .. FailureThreshold]
        BY TrackerAssumption
    <2> QED BY <1>1, <2>1, <2>2, <2>3 DEF CheckerTypeOK, IInv
<1>3. Rounds
    BY DEF Rounds
<1>4. Told
    BY TrackerAssumption
       DEF Init, TrackerInit, Told, HealthyEndpoints, NewEndpointHealth
<1>5. Fresh
    <2>1. \A e \in Endpoints : failureRun[e] = 0 /\ freshRun[e] = 0
        BY DEF Init
    <2>2. tracked \subseteq Endpoints
        BY TrackerAssumption DEF Init, TrackerInit
    <2>3. \A e \in tracked :
            failureRun[e] <= freshRun[e] + 1 /\ failureRun[e] <= freshRun[e]
        <3> SUFFICES ASSUME NEW e \in tracked
                     PROVE  failureRun[e] <= freshRun[e] + 1 /\ failureRun[e] <= freshRun[e]
            OBVIOUS
        <3>1. failureRun[e] = 0 /\ freshRun[e] = 0
            BY <2>1, <2>2
        <3> QED BY <3>1
    <2> QED BY <2>3, Zenon DEF Fresh
<1> QED BY <1>1, <1>2, <1>3, <1>4, <1>5 DEF CheckerInv, IInv

\* What the checker does to the tracker is what HealthHistory says.
LEMMA StepOfHistory == [CheckerNext]_allVars => [Next]_vars
<1> SUFFICES ASSUME [CheckerNext]_allVars PROVE [Next]_vars
    OBVIOUS
<1>1. CASE Start \/ BeginRound \/ Return \/ EndRound \/ Cancel
    BY <1>1 DEF Start, BeginRound, Return, EndRound, Cancel
<1>2. ASSUME NEW e \in Endpoints, Work(e) PROVE [Next]_vars
    BY <1>2 DEF Work, TakeJob, ProbeEnds, RecordPassed, RecordFailed, ReportTransition, Next
<1>3. ASSUME NEW endpoints \in SUBSET Endpoints, Apply(endpoints) PROVE [Next]_vars
    BY <1>3 DEF Apply, Next
<1>4. CASE UNCHANGED allVars
    BY <1>4 DEF allVars
<1> QED BY <1>1, <1>2, <1>3, <1>4 DEF CheckerNext

\* The history's invariant, which TypeOK and CountersAreRuns of CheckerInv are.
LEMMA HistoryStep ==
    CheckerInv /\ [CheckerNext]_allVars
        => TypeOK' /\ CountersAreRuns' /\ OnlyRunsChange
BY StepOfHistory, InvStep DEF CheckerInv, CheckerTypeOK, IInv

-----------------------------------------------------------------------------
(* The steps of Run and of the checker's surroundings.                      *)

LEMMA RunInv ==
    ASSUME CheckerInv, Start \/ BeginRound \/ Return \/ EndRound \/ Cancel
    PROVE  CheckerInv'
<1>1. TypeOK' /\ CountersAreRuns'
    BY HistoryStep DEF CheckerNext
<1> USE DEF Start, BeginRound, Return, EndRound, Cancel, AllDone
<1>2. UNCHANGED <<tracked, health, failureRun, published, current, freshRun>>
    BY DEF vars, trackerVars, historyVars
<1>3. CheckerTypeOK'
    BY <1>1, <1>2 DEF CheckerInv, CheckerTypeOK, Unfinished
<1>4. Rounds'
    BY DEF CheckerInv, CheckerTypeOK, Rounds
<1>5. Told'
    <2>1. UNCHANGED HealthyEndpoints
        BY <1>2 DEF HealthyEndpoints
    <2>2. ASSUME run # "round"
          PROVE  \A e \in Endpoints : e \in published <=> e \in HealthyEndpoints
        BY <2>2 DEF CheckerInv, Rounds, Told
    <2> QED BY <1>2, <2>1, <2>2 DEF CheckerInv, Told
<1>6. Fresh'
    <2>1. \A e \in Endpoints : job'[e] \in Working => job[e] \in Working
        BY DEF Working, CheckerInv, CheckerTypeOK
    <2>2. tracked \subseteq Endpoints
        BY DEF CheckerInv, CheckerTypeOK, TypeOK, TrackerTypeOK
    <2> QED BY <1>2, <2>1, <2>2 DEF CheckerInv, Fresh
<1> QED BY <1>1, <1>3, <1>4, <1>5, <1>6 DEF CheckerInv

LEMMA ApplyInv ==
    ASSUME CheckerInv, NEW endpoints \in SUBSET Endpoints, Apply(endpoints)
    PROVE  CheckerInv'
<1>1. TypeOK' /\ CountersAreRuns'
    BY HistoryStep DEF CheckerNext
<1>2. tracked' = endpoints
    BY DEF Apply, ReplaceEndpoints, Replace
<1>3. CheckerTypeOK'
    BY <1>1, TrackerAssumption DEF Apply, CheckerInv, CheckerTypeOK
<1>4. Rounds'
    BY DEF Apply, CheckerInv, Rounds
<1>5. Told'
    BY <1>2 DEF Apply, Told, HealthyEndpoints
<1>6. Fresh'
    <2> SUFFICES ASSUME NEW e \in endpoints
                 PROVE  /\ failureRun'[e] <= freshRun'[e] + 1
                        /\ job[e] \in Working /\ ~current'[e]
                                => failureRun'[e] <= freshRun'[e]
        BY <1>2 DEF Fresh, Apply
    <2>1. e \in Endpoints
        OBVIOUS
    <2>2. CASE e \in tracked
        <3>1. /\ failureRun'[e] = failureRun[e]
              /\ freshRun'[e] = freshRun[e]
              /\ current'[e] = current[e]
            BY <2>1, <2>2 DEF Apply, ReplaceEndpoints, CheckerInv, CheckerTypeOK
        <3> QED BY <2>2, <3>1 DEF CheckerInv, Fresh
    <2>3. CASE e \notin tracked
        <3>1. failureRun'[e] = 0 /\ freshRun'[e] = 0
            BY <2>1, <2>3 DEF Apply, ReplaceEndpoints
        <3> QED BY <3>1
    <2> QED BY <2>2, <2>3
<1> QED BY <1>1, <1>3, <1>4, <1>5, <1>6 DEF CheckerInv

-----------------------------------------------------------------------------
(* The steps of workers and of the report after the round.                  *)

LEMMA ProbeInv ==
    ASSUME CheckerInv, NEW e \in Endpoints,
           TakeJob(e) \/ ProbeEnds(e) \/ ReportTransition(e)
    PROVE  CheckerInv'
<1>1. TypeOK' /\ CountersAreRuns'
    BY HistoryStep DEF CheckerNext, Work
<1> USE DEF TakeJob, ProbeEnds, ReportTransition
<1>2. /\ UNCHANGED <<tracked, health, failureRun, freshRun, run, cancelled>>
      /\ \A f \in Endpoints \ {e} : job'[f] = job[f] /\ current'[f] = current[f]
    BY DEF vars, trackerVars, historyVars, CheckerInv, CheckerTypeOK
<1>3. CheckerTypeOK'
    <2>1. HealthyEndpoints \in SUBSET Endpoints
        BY DEF HealthyEndpoints, CheckerInv, CheckerTypeOK, TypeOK, TrackerTypeOK
    <2>2. current' \in [Endpoints -> BOOLEAN]
        <3>1. current \in [Endpoints -> BOOLEAN]
            BY DEF CheckerInv, CheckerTypeOK
        <3>2. \/ current' = current
              \/ current' = [current EXCEPT ![e] = TRUE]
              \/ current' = [current EXCEPT ![e] = FALSE]
            <4>1. CASE ~TakeJob(e)
                BY <4>1
            <4>2. CASE TakeJob(e) /\ e \in tracked
                <5>1. (e \in tracked) = TRUE
                    BY <4>2
                <5> QED BY <4>2, <5>1, Zenon
            <4>3. CASE TakeJob(e) /\ e \notin tracked
                <5>1. (e \in tracked) = FALSE
                    BY <4>3
                <5> QED BY <4>3, <5>1, Zenon
            <4> QED BY <4>1, <4>2, <4>3
        <3> QED BY <3>1, <3>2
    <2>3. job' \in [Endpoints -> {"none"} \cup Unfinished \cup Results]
        BY DEF CheckerInv, CheckerTypeOK, Unfinished, Working, Results
    <2> QED BY <1>1, <1>2, <2>1, <2>2, <2>3 DEF CheckerInv, CheckerTypeOK
<1>4. Rounds'
    BY <1>2 DEF CheckerInv, Rounds
<1>5. Told'
    <2>1. UNCHANGED HealthyEndpoints
        BY <1>2 DEF HealthyEndpoints
    <2> QED BY <1>2, <2>1 DEF CheckerInv, Told
<1>6. Fresh'
    <2> SUFFICES ASSUME NEW f \in tracked
                 PROVE  /\ failureRun[f] <= freshRun[f] + 1
                        /\ job'[f] \in Working /\ ~current'[f]
                                => failureRun[f] <= freshRun[f]
        BY <1>2 DEF Fresh
    <2>1. f \in Endpoints
        BY DEF CheckerInv, CheckerTypeOK, TypeOK, TrackerTypeOK
    <2>2. job'[f] \in Working /\ ~current'[f] => job[f] \in Working /\ ~current[f]
        BY <1>2, <2>1 DEF Working, CheckerInv, CheckerTypeOK
    <2> QED BY <2>2 DEF CheckerInv, Fresh
<1> QED BY <1>1, <1>3, <1>4, <1>5, <1>6 DEF CheckerInv

\* A report changes the health of its endpoint if and only if it says so.
LEMMA ReportInv ==
    ASSUME CheckerInv, NEW e \in Endpoints, RecordPassed(e) \/ RecordFailed(e)
    PROVE  CheckerInv'
<1>1. TypeOK' /\ CountersAreRuns'
    BY HistoryStep DEF CheckerNext, Work
<1>2. job[e] \in Working /\ e \in Endpoints
    BY DEF RecordPassed, RecordFailed, Working
<1>3. /\ tracked' = tracked
      /\ UNCHANGED <<published, run, cancelled>>
      /\ \A f \in Endpoints \ {e} :
            /\ job'[f] = job[f] /\ current'[f] = current[f]
            /\ health'[f] = health[f]
            /\ failureRun'[f] = failureRun[f] /\ freshRun'[f] = freshRun[f]
      /\ job'[e] \in Results
    BY DEF RecordPassed, RecordFailed, ReportSuccess, ReportFailure, RecordSuccess,
           RecordFailure, historyVars, Results, CheckerInv, CheckerTypeOK, TypeOK,
           TrackerTypeOK
<1>4. CheckerTypeOK'
    <2>1. current' \in [Endpoints -> BOOLEAN]
        BY DEF RecordPassed, RecordFailed, CheckerInv, CheckerTypeOK
    <2>2. job' \in [Endpoints -> {"none"} \cup Unfinished \cup Results]
        BY DEF RecordPassed, RecordFailed, CheckerInv, CheckerTypeOK, Results
    <2>3. freshRun' \in [Endpoints -> 0 .. FailureThreshold]
        <3>1. \A n \in 0 .. FailureThreshold :
                Saturated(n, FailureThreshold) \in 0 .. FailureThreshold
            BY TrackerAssumption DEF Saturated
        <3>2. freshRun \in [Endpoints -> 0 .. FailureThreshold]
            BY DEF CheckerInv, CheckerTypeOK
        <3>3. \/ freshRun' = freshRun
              \/ freshRun' = [freshRun EXCEPT ![e] = 0]
              \/ freshRun' = [freshRun EXCEPT ![e] = Saturated(freshRun[e], FailureThreshold)]
            BY DEF RecordPassed, RecordFailed
        <3> QED BY <3>1, <3>2, <3>3, TrackerAssumption
    <2> QED BY <1>1, <1>3, <2>1, <2>2, <2>3 DEF CheckerInv, CheckerTypeOK
<1>5. Rounds'
    <2>1. run = "round"
        BY <1>2 DEF CheckerInv, Rounds, Working
    <2> QED BY <1>3, <2>1 DEF Rounds
<1>6. Told'
    <2>1. \A f \in Endpoints \ {e} : f \in HealthyEndpoints' <=> f \in HealthyEndpoints
        BY <1>3 DEF HealthyEndpoints
    <2>2. e \in published <=> e \in HealthyEndpoints
        BY <1>2 DEF CheckerInv, Told, Working
    <2>3. job'[e] = "changed" \/ (e \in HealthyEndpoints' <=> e \in HealthyEndpoints)
        <3>1. CASE e \notin tracked
            BY <1>3, <3>1 DEF HealthyEndpoints
        <3>2. CASE e \in tracked /\ RecordPassed(e)
            <4>1. /\ health'[e] = AfterSuccess(health[e])
                  /\ job'[e] = IF SuccessChanges(e) THEN "changed" ELSE "reported"
                BY <3>2 DEF RecordPassed, ReportSuccess, RecordSuccess, CheckerInv,
                            CheckerTypeOK, TypeOK, TrackerTypeOK
            <4>2. health[e].healthy \in BOOLEAN /\ health'[e].healthy \in BOOLEAN
                BY <1>1, <1>2 DEF CheckerInv, CheckerTypeOK, TypeOK, TrackerTypeOK, HealthRecord
            <4> QED BY <1>3, <3>2, <4>1, <4>2 DEF SuccessChanges, HealthyEndpoints
        <3>3. CASE e \in tracked /\ RecordFailed(e)
            <4>1. /\ health'[e] = AfterFailure(health[e])
                  /\ job'[e] = IF FailureChanges(e) THEN "changed" ELSE "reported"
                BY <3>3 DEF RecordFailed, ReportFailure, RecordFailure, CheckerInv,
                            CheckerTypeOK, TypeOK, TrackerTypeOK
            <4>2. health[e].healthy \in BOOLEAN /\ health'[e].healthy \in BOOLEAN
                BY <1>1, <1>2 DEF CheckerInv, CheckerTypeOK, TypeOK, TrackerTypeOK, HealthRecord
            <4> QED BY <1>3, <3>3, <4>1, <4>2 DEF FailureChanges, HealthyEndpoints
        <3> QED BY <3>1, <3>2, <3>3
    <2> QED BY <1>3, <2>1, <2>2, <2>3 DEF CheckerInv, Told
<1>7. Fresh'
    <2> SUFFICES ASSUME NEW f \in tracked
                 PROVE  /\ failureRun'[f] <= freshRun'[f] + 1
                        /\ job'[f] \in Working /\ ~current'[f]
                                => failureRun'[f] <= freshRun'[f]
        BY <1>3 DEF Fresh
    <2>1. f \in Endpoints
        BY DEF CheckerInv, CheckerTypeOK, TypeOK, TrackerTypeOK
    <2>2. CASE f # e
        BY <1>3, <2>1, <2>2 DEF CheckerInv, Fresh
    <2>3. CASE f = e
        <3>1. job'[e] \notin Working
            BY <1>3 DEF Results, Working
        <3>2. /\ failureRun[e] \in 0 .. FailureThreshold
              /\ freshRun[e] \in 0 .. FailureThreshold
              /\ failureRun[e] <= freshRun[e] + 1
              /\ ~current[e] => failureRun[e] <= freshRun[e]
            BY <1>2, <2>3 DEF CheckerInv, CheckerTypeOK, TypeOK, Fresh
        <3>3. CASE RecordPassed(e)
            <4>1. failureRun'[e] = 0 /\ freshRun'[e] = 0
                BY <2>3, <3>3 DEF RecordPassed, ReportSuccess, CheckerInv, CheckerTypeOK, TypeOK
            <4> QED BY <2>3, <3>1, <4>1
        <3>4. CASE RecordFailed(e)
            <4>1. /\ failureRun'[e] = Saturated(failureRun[e], FailureThreshold)
                  /\ freshRun'[e] = IF current[e]
                                    THEN Saturated(freshRun[e], FailureThreshold)
                                    ELSE freshRun[e]
                BY <2>3, <3>4 DEF RecordFailed, ReportFailure, CheckerInv, CheckerTypeOK, TypeOK
            <4>2. failureRun'[e] <= freshRun'[e] + 1
                BY <3>2, <4>1, TrackerAssumption DEF Saturated
            <4> QED BY <2>3, <3>1, <4>2
        <3> QED BY <3>3, <3>4, RecordPassed(e) \/ RecordFailed(e)
    <2> QED BY <2>2, <2>3
<1> QED BY <1>1, <1>4, <1>5, <1>6, <1>7 DEF CheckerInv

LEMMA CheckerInvStep == CheckerInv /\ [CheckerNext]_allVars => CheckerInv'
<1> SUFFICES ASSUME CheckerInv, [CheckerNext]_allVars PROVE CheckerInv'
    OBVIOUS
<1>1. CASE Start \/ BeginRound \/ Return \/ EndRound \/ Cancel
    BY <1>1, RunInv
<1>2. ASSUME NEW e \in Endpoints, Work(e) PROVE CheckerInv'
    BY <1>2, ProbeInv, ReportInv DEF Work
<1>3. ASSUME NEW endpoints \in SUBSET Endpoints, Apply(endpoints) PROVE CheckerInv'
    BY <1>3, ApplyInv
<1>4. CASE UNCHANGED allVars
    BY <1>4 DEF allVars, vars, trackerVars, historyVars, checkerVars, CheckerInv,
        CheckerTypeOK, TypeOK, TrackerTypeOK, CountersAreRuns, Rounds, Told, Fresh,
        HealthyEndpoints
<1> QED BY <1>1, <1>2, <1>3, <1>4 DEF CheckerNext

LEMMA CheckerInvariance == CheckerSpec => []CheckerInv
BY CheckerInvInit, CheckerInvStep, PTL DEF CheckerSpec

-----------------------------------------------------------------------------

\* The checker is one of the reporters that HealthHistory speaks of, so its
\* theorems hold of every checker.
THEOREM CheckerImplementsHistory == CheckerSpec => Spec
<1>1. CheckerInit => Init
    BY DEF CheckerInit
<1> QED BY <1>1, StepOfHistory, PTL DEF CheckerSpec, Spec

\* For any endpoints, thresholds and number of workers, state has its type.
THEOREM CheckerTypeCorrect == CheckerSpec => []CheckerTypeOK
<1>1. CheckerInv => CheckerTypeOK
    BY DEF CheckerInv
<1> QED BY <1>1, CheckerInvariance, PTL

\* Between rounds the picker has been told of every change of health.
THEOREM PickerAlwaysKnowsAtRest == CheckerSpec => []PickerKnowsAtRest
<1>1. CheckerInv => PickerKnowsAtRest
    <2> SUFFICES ASSUME CheckerInv, run # "round" PROVE published = HealthyEndpoints
        BY DEF PickerKnowsAtRest
    <2>1. published \subseteq Endpoints /\ HealthyEndpoints \subseteq Endpoints
        BY DEF CheckerInv, CheckerTypeOK, TypeOK, TrackerTypeOK, HealthyEndpoints
    <2>2. \A e \in Endpoints : e \in published <=> e \in HealthyEndpoints
        BY DEF CheckerInv, Rounds, Told
    <2> QED BY <2>1, <2>2
<1> QED BY <1>1, CheckerInvariance, PTL

Verdict ==
    \A e \in tracked \cap tracked' :
        health[e].healthy /\ ~health'[e].healthy
            => freshRun'[e] >= FailureThreshold - 1

\* Of the failures that take an endpoint out, one at most is of a probe that
\* was sent before the endpoint came (last): results are recorded by URL.
THEOREM VerdictsAreAlwaysFresh == CheckerSpec => VerdictsAreFresh
<1>1. CheckerInv /\ CheckerInv' /\ [CheckerNext]_allVars => [Verdict]_allVars
    <2> SUFFICES ASSUME CheckerInv, CheckerInv', [CheckerNext]_allVars,
                        NEW e \in tracked \cap tracked',
                        health[e].healthy, ~health'[e].healthy
                 PROVE  freshRun'[e] >= FailureThreshold - 1
        BY DEF Verdict
    <2>1. failureRun'[e] = FailureThreshold
        BY HistoryStep DEF OnlyRunsChange
    <2>2. failureRun'[e] <= freshRun'[e] + 1 /\ freshRun'[e] \in Nat
        BY DEF CheckerInv, Fresh, CheckerTypeOK, TypeOK, TrackerTypeOK
    <2> QED BY <2>1, <2>2, TrackerAssumption
<1>2. [Verdict]_allVars <=>
        [\A e \in tracked \cap tracked' :
            health[e].healthy /\ ~health'[e].healthy
                => freshRun'[e] >= FailureThreshold - 1]_allVars
    BY DEF Verdict
<1> QED
    BY <1>1, <1>2, CheckerInvariance, PTL DEF CheckerSpec, VerdictsAreFresh

=============================================================================
