---------------------------- MODULE HealthChecker ----------------------------
(****************************************************************************)
(* The goroutine that probes a route's endpoints: HealthChecker.Run and     *)
(* runRound of internal/upstream/health_checker.go with their worker        *)
(* goroutines, over the tracker of HealthTracker and the history of its     *)
(* reports.  Meanwhile DNS answers replace the endpoints, and the context   *)
(* may be cancelled at any moment.                                          *)
(*                                                                          *)
(* HealthAwarePicker.Refresh is one step here; UpstreamPool takes it apart. *)
(****************************************************************************)
EXTENDS HealthHistory, FiniteSets

CONSTANT MaxConcurrentProbes     \* maxConcurrentProbes

ASSUME CheckerAssumption == MaxConcurrentProbes \in Nat \ {0}

VARIABLES
    run,          \* where Run is
    cancelled,    \* whether its context has ended
    job,          \* how far the round is with each endpoint
    published,    \* the healthy endpoints the picker was last refreshed with
    current,      \* whether a job's probe began in its endpoint's present life
    freshRun      \* failures in a row of such probes, up to FailureThreshold

\* current and freshRun are history variables, like those of HealthHistory.
checkerVars == <<run, cancelled, job, published, current, freshRun>>
allVars == <<vars, checkerVars>>

\* A worker has the job from "sent" until its result is written.
Working == {"sent", "passed", "failed"}
Unfinished == {"queued"} \cup Working
Results == {"reported", "changed"}

CheckerInit ==
    /\ Init
    /\ run = "called"
    /\ cancelled = FALSE
    /\ job = [e \in Endpoints |-> "none"]
    /\ published = InitialEndpoints
    /\ current = [e \in Endpoints |-> FALSE]
    /\ freshRun = [e \in Endpoints |-> 0]

-----------------------------------------------------------------------------

\* Run looks at the context once before it waits for its timer.
Start ==
    /\ run = "called"
    /\ run' = IF cancelled THEN "returned" ELSE "waiting"
    /\ UNCHANGED <<vars, cancelled, job, published, current, freshRun>>

\* The select may take the timer although the context has ended as well.
BeginRound ==
    /\ run = "waiting"
    /\ run' = "round"
    /\ job' = [e \in Endpoints |-> IF e \in tracked THEN "queued" ELSE "none"]
    /\ UNCHANGED <<vars, cancelled, published, current, freshRun>>

Return ==
    /\ run = "waiting"
    /\ cancelled
    /\ run' = "returned"
    /\ UNCHANGED <<vars, cancelled, job, published, current, freshRun>>

\* A worker receives a job: there are MaxConcurrentProbes of them, or one for
\* each target if there are fewer targets.
TakeJob(e) ==
    /\ job[e] = "queued"
    /\ Cardinality({f \in Endpoints : job[f] \in Working}) < MaxConcurrentProbes
    /\ job' = [job EXCEPT ![e] = "sent"]
    /\ current' = [current EXCEPT ![e] = e \in tracked]
    /\ UNCHANGED <<vars, run, cancelled, published, freshRun>>

\* probe has returned, and checkTarget looks at the context: after its end the
\* outcome means nothing.
ProbeEnds(e) ==
    /\ job[e] = "sent"
    /\ \E outcome \in IF cancelled THEN {"reported"} ELSE {"passed", "failed"} :
            job' = [job EXCEPT ![e] = outcome]
    /\ current' = IF cancelled THEN [current EXCEPT ![e] = FALSE] ELSE current
    /\ UNCHANGED <<vars, run, cancelled, published, freshRun>>

RecordPassed(e) ==
    /\ job[e] = "passed"
    /\ ReportSuccess(e)
    /\ job' = [job EXCEPT ![e] = IF SuccessChanges(e) THEN "changed" ELSE "reported"]
    /\ freshRun' = IF e \in tracked THEN [freshRun EXCEPT ![e] = 0] ELSE freshRun
    /\ current' = [current EXCEPT ![e] = FALSE]
    /\ UNCHANGED <<run, cancelled, published>>

\* Mutant: the worker leaves its job without a result if nobody tracks it.
RecordFailedIfTracked(e) ==
    /\ job[e] = "failed"
    /\ e \in tracked
    /\ ReportFailure(e)
    /\ job' = [job EXCEPT ![e] = IF FailureChanges(e) THEN "changed" ELSE "reported"]
    /\ freshRun' = IF current[e]
                   THEN [freshRun EXCEPT ![e] = Saturated(@, FailureThreshold)]
                   ELSE freshRun
    /\ current' = [current EXCEPT ![e] = FALSE]
    /\ UNCHANGED <<run, cancelled, published>>

RecordFailed(e) ==
    /\ job[e] = "failed"
    /\ ReportFailure(e)
    /\ job' = [job EXCEPT ![e] = IF FailureChanges(e) THEN "changed" ELSE "reported"]
    /\ freshRun' = IF current[e]
                   THEN [freshRun EXCEPT ![e] = Saturated(@, FailureThreshold)]
                   ELSE freshRun
    /\ current' = [current EXCEPT ![e] = FALSE]
    /\ UNCHANGED <<run, cancelled, published>>

\* wg.Wait is over: no job is queued or with a worker.
AllDone == \A e \in Endpoints : job[e] \notin Unfinished

\* RecordStateTransition refreshes the picker.
ReportTransition(e) ==
    /\ run = "round"
    /\ AllDone
    /\ job[e] = "changed"
    /\ job' = [job EXCEPT ![e] = "reported"]
    /\ published' = HealthyEndpoints
    /\ UNCHANGED <<vars, run, cancelled, current, freshRun>>

\* Mutant: once the context has ended, the results are not looked at any more.
EndRoundEarly ==
    /\ run = "round"
    /\ AllDone
    /\ cancelled \/ \A e \in Endpoints : job[e] # "changed"
    /\ run' = "waiting"
    /\ job' = [e \in Endpoints |-> "none"]
    /\ UNCHANGED <<vars, cancelled, published, current, freshRun>>

\* Every result has been looked at: the timer is set again.
EndRound ==
    /\ run = "round"
    /\ AllDone
    /\ \A e \in Endpoints : job[e] # "changed"
    /\ run' = "waiting"
    /\ job' = [e \in Endpoints |-> "none"]
    /\ UNCHANGED <<vars, cancelled, published, current, freshRun>>

-----------------------------------------------------------------------------
(* The checker's surroundings.                                              *)

\* EndpointCoordinator.Apply: the tracker is replaced, the picker refreshed.
Apply(endpoints) ==
    /\ ReplaceEndpoints(endpoints)
    /\ published' = {e \in endpoints : health'[e].healthy}
    /\ current' = [e \in Endpoints |-> current[e] /\ e \in tracked \cap endpoints]
    /\ freshRun' = [e \in Endpoints |->
                        IF e \in tracked \cap endpoints THEN freshRun[e] ELSE 0]
    /\ UNCHANGED <<run, cancelled, job>>

\* stopBackgroundRunners
Cancel ==
    /\ ~cancelled
    /\ cancelled' = TRUE
    /\ UNCHANGED <<vars, run, job, published, current, freshRun>>

Work(e) ==
    \/ TakeJob(e)
    \/ ProbeEnds(e)
    \/ RecordPassed(e)
    \/ RecordFailed(e)
    \/ ReportTransition(e)

CheckerNext ==
    \/ Start
    \/ BeginRound
    \/ Return
    \/ \E e \in Endpoints : Work(e)
    \/ EndRound
    \/ \E endpoints \in SUBSET Endpoints : Apply(endpoints)
    \/ Cancel

CheckerSpec == CheckerInit /\ [][CheckerNext]_allVars

\* A probe ends by its timeout, and goroutines are scheduled.  Between rounds
\* the select meets the end of the context again and again.
CheckerFairness ==
    /\ WF_allVars(Start)
    /\ WF_allVars(EndRound)
    /\ SF_allVars(Return)
    /\ \A e \in Endpoints : WF_allVars(Work(e))

FairCheckerSpec == CheckerSpec /\ CheckerFairness

-----------------------------------------------------------------------------

CheckerTypeOK ==
    /\ TypeOK
    /\ run \in {"called", "waiting", "round", "returned"}
    /\ cancelled \in BOOLEAN
    /\ job \in [Endpoints -> {"none"} \cup Unfinished \cup Results]
    /\ published \in SUBSET Endpoints
    /\ current \in [Endpoints -> BOOLEAN]
    /\ freshRun \in [Endpoints -> 0 .. FailureThreshold]

\* Whenever no round is in progress, the picker has been told of every change
\* of health, also of those in a round during which the context was cancelled
\* or the endpoints replaced (RecordStateTransition after wg.Wait in runRound).
PickerKnowsAtRest == run # "round" => published = HealthyEndpoints

\* Results are recorded by URL: the failure of a probe sent to an endpoint
\* before it left counts when it is back.  But it is one at most: an endpoint
\* is never taken out by fewer than FailureThreshold - 1 failures of probes
\* that were sent after it came (last).
VerdictsAreFresh ==
    [][\A e \in tracked \cap tracked' :
            health[e].healthy /\ ~health'[e].healthy
                => freshRun'[e] >= FailureThreshold - 1]_allVars

\* A cancelled checker returns: no job is left behind that wg.Wait waits for.
\* (Shutdown waits for it in stopBackgroundRunners.)
RunReturns == cancelled ~> run = "returned"

=============================================================================
