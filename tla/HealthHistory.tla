---------------------------- MODULE HealthHistory ----------------------------
(****************************************************************************)
(* The active health tracker beside a record of what was reported to it:    *)
(* for each tracked endpoint, how many failures or successes in a row came  *)
(* last.  It says what an endpoint's health means in terms of its probes,   *)
(* which the two counters of endpointHealth only keep half of.              *)
(****************************************************************************)
EXTENDS HealthTracker

VARIABLES
    failureRun,     \* failures reported in a row, up to FailureThreshold
    successRun      \* successes reported in a row, up to SuccessThreshold

historyVars == <<failureRun, successRun>>
vars == <<trackerVars, historyVars>>

Init ==
    /\ TrackerInit
    /\ failureRun = [e \in Endpoints |-> 0]
    /\ successRun = [e \in Endpoints |-> 0]

\* Bound: a run is not counted beyond its threshold.
Saturated(run, threshold) == IF run < threshold THEN run + 1 ELSE run

\* A report on an endpoint that is not tracked is forgotten.
ReportSuccess(e) ==
    /\ RecordSuccess(e)
    /\ IF e \in tracked
       THEN /\ successRun' = [successRun EXCEPT
                                ![e] = Saturated(@, SuccessThreshold)]
            /\ failureRun' = [failureRun EXCEPT ![e] = 0]
       ELSE UNCHANGED historyVars

ReportFailure(e) ==
    /\ RecordFailure(e)
    /\ IF e \in tracked
       THEN /\ failureRun' = [failureRun EXCEPT
                                ![e] = Saturated(@, FailureThreshold)]
            /\ successRun' = [successRun EXCEPT ![e] = 0]
       ELSE UNCHANGED historyVars

\* The reports on an endpoint count from the moment it is tracked.
ReplaceEndpoints(endpoints) ==
    /\ Replace(endpoints)
    /\ failureRun' = [e \in Endpoints |->
                        IF e \in tracked \cap endpoints THEN failureRun[e] ELSE 0]
    /\ successRun' = [e \in Endpoints |->
                        IF e \in tracked \cap endpoints THEN successRun[e] ELSE 0]

Next ==
    \/ \E e \in Endpoints : ReportSuccess(e) \/ ReportFailure(e)
    \/ \E endpoints \in SUBSET Endpoints : ReplaceEndpoints(endpoints)

Spec == Init /\ [][Next]_vars

-----------------------------------------------------------------------------

TypeOK ==
    /\ TrackerTypeOK
    /\ failureRun \in [Endpoints -> 0 .. FailureThreshold]
    /\ successRun \in [Endpoints -> 0 .. SuccessThreshold]

\* No endpoint is in rotation on FailureThreshold failed probes in a row, and
\* none is kept out of it on SuccessThreshold successful ones, whatever came
\* before, and through every replacement that keeps the endpoint.
HealthFollowsRuns ==
    \A e \in tracked :
        IF health[e].healthy
        THEN failureRun[e] < FailureThreshold
        ELSE successRun[e] < SuccessThreshold

\* Nothing short of such a run changes the health of an endpoint that stays.
OnlyRunsChangeHealth ==
    [][\A e \in tracked \cap tracked' :
            /\ health[e].healthy /\ ~health'[e].healthy
                    => failureRun'[e] = FailureThreshold
            /\ ~health[e].healthy /\ health'[e].healthy
                    => successRun'[e] = SuccessThreshold]_vars

\* The counter in use is the length of the run that would change the health;
\* the other one is zero, and so are both of an untracked endpoint.
CountersAreRuns ==
    \A e \in Endpoints :
        IF e \in tracked
        THEN IF health[e].healthy
             THEN health[e].failures = failureRun[e] /\ health[e].successes = 0
             ELSE health[e].successes = successRun[e] /\ health[e].failures = 0
        ELSE health[e] = NewEndpointHealth /\ failureRun[e] = 0 /\ successRun[e] = 0

IInv == TypeOK /\ CountersAreRuns

=============================================================================
