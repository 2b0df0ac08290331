---------------------------- MODULE UpstreamPool ----------------------------
(****************************************************************************)
(* The endpoint pool of one route: everything that decides which endpoints  *)
(* requests are sent to, and every goroutine that takes part in it.         *)
(*                                                                          *)
(*   state      EndpointMembership, HealthTracker, PassiveHealthTracker     *)
(*              (which this module extends), and the HealthAwarePicker with *)
(*              the load balancer's snapshot                                *)
(*   requests   Acquire, the passive health permit, the outcome, and after  *)
(*              an ejection RecordEjection                                  *)
(*   watcher    DNSWatcher.refresh and EndpointCoordinator.Apply            *)
(*   checker    HealthChecker.runRound                                      *)
(*   runner     routePassiveHealthObserver.Run                              *)
(*                                                                          *)
(* Each step is one critical section or atomic access of the code; between  *)
(* two of them every other goroutine may run.  Any of them may find out     *)
(* that the set of eligible endpoints has changed, and then it calls        *)
(* HealthAwarePicker.Refresh, which is itself many steps under one mutex.   *)
(****************************************************************************)
EXTENDS PassiveHealthTracker, FiniteSets, FiniteSetsExt

CONSTANTS
    LogicalEndpoint,      \* the URL with a host name of a DNS discovery route
    UseDNS,               \* DNS discovery instead of a static endpoint list
    Routes,               \* the routes the pool may be of: which health checks
                          \* they have, and (a bound) which addresses an
                          \* answer of their watcher may name
    SuccessThreshold, FailureThreshold,       \* of the active checks
    Nobody                \* holds the picker's mutex when nobody does

Watcher == "watcher"
Checker == "checker"
Runner == "runner"
Actors == Requests \cup {Watcher, Checker, Runner}

\* A DNS route starts with no endpoint: Apply(nil) runs before it serves.  A
\* static list is not empty.
ASSUME PoolAssumption ==
    /\ UseDNS \in BOOLEAN
    /\ Routes \subseteq [active : BOOLEAN, passive : BOOLEAN,
                          addresses : SUBSET Endpoints]
    /\ InitialEndpoints = IF UseDNS THEN {} ELSE Endpoints
    /\ Endpoints # {}
    /\ LogicalEndpoint \notin Endpoints \cup {NoEndpoint}
    /\ {SuccessThreshold, FailureThreshold} \subseteq Nat \ {0}
    /\ Requests \cap {Watcher, Checker, Runner} = {}
    /\ Nobody \notin Actors

VARIABLES
    route,                           \* the route of this pool, never changed
    membership,                      \* EndpointMembership.snapshot
    activeTracked, activeHealth,     \* HealthTracker
    available,                       \* HealthAwarePicker.available
    snapshot,                        \* the endpoints of its base picker
    refresh,                         \* who holds its mutex, where, with what
    skipped,                         \* history: whom the latest refresh has
                                     \* left out as ejected
    request, target,                 \* where each request is, and is sent to
    watcher, answer,                 \* where Apply is, and its endpoints
    probing, changed,                \* targets still to probe in this round,
                                     \* and transitions still to be reported
    runner, timer,                   \* where Run is, and ticks left to its timer
    wake                             \* whether the wake channel is full

activeVars == <<activeTracked, activeHealth>>
pickerVars == <<available, snapshot, refresh, skipped>>
requestVars == <<request, target>>
watcherVars == <<watcher, answer>>
checkerVars == <<probing, changed>>
runnerVars == <<runner, timer>>
vars == <<route, membership, activeVars, passiveVars, pickerVars, requestVars,
          watcherVars, checkerVars, runnerVars, wake>>

UseActive == route.active
UsePassive == route.passive

Active == INSTANCE HealthTracker WITH
    tracked <- activeTracked, health <- activeHealth

Idle == [owner |-> Nobody, stage |-> "none", found |-> {}]

\* The load balancer of a DNS route is built around the logical endpoint, and
\* keeps it until the first answer that is not empty.
Init ==
    /\ route \in Routes
    /\ membership = InitialEndpoints
    /\ Active!TrackerInit
    /\ PassiveInit
    /\ available = ~UseDNS
    /\ snapshot = IF UseDNS THEN {LogicalEndpoint} ELSE Endpoints
    /\ refresh = Idle
    /\ skipped = {}
    /\ request = [r \in Requests |-> "idle"]
    /\ target = [r \in Requests |-> NoEndpoint]
    /\ watcher = "idle" /\ answer = {}
    /\ probing = {} /\ changed = {}
    /\ runner = "compute" /\ timer = 0
    /\ wake = FALSE

-----------------------------------------------------------------------------
(* HealthAwarePicker.Refresh, by any goroutine that has come to call it.    *)

WantsRefresh(a) ==
    \/ a = Watcher /\ watcher = "refresh"
    \/ a = Checker /\ probing = {} /\ changed # {}
    \/ a = Runner /\ runner = "refresh"
    \/ a \in Requests /\ request[a] = "ejecting"

\* Where the caller goes on.  The checker has one transition less to report.
Return(a) ==
    /\ watcher' = IF a = Watcher THEN "idle" ELSE watcher
    /\ answer' = IF a = Watcher THEN {} ELSE answer
    /\ changed' \in IF a = Checker THEN {changed \ {e} : e \in changed} ELSE {changed}
    /\ runner' = IF a = Runner THEN "compute" ELSE runner
    /\ request' = IF a \in Requests THEN [request EXCEPT ![a] = "waking"] ELSE request

At(a, stage) == refresh.owner = a /\ refresh.stage = stage

\* p.mu.Lock(); p.available.Store(false)
LockAndClose(a) ==
    /\ refresh.owner = Nobody
    /\ WantsRefresh(a)
    /\ refresh' = [owner |-> a, stage |-> "closed", found |-> {}]
    /\ available' = FALSE
    /\ skipped' = {}
    /\ UNCHANGED <<route, membership, activeVars, passiveVars, snapshot, requestVars,
                   watcherVars, checkerVars, runnerVars, wake>>

\* CompositeHealthSource.HealthyEndpoints reads its sources one by one.
ReadMembership(a) ==
    /\ At(a, "closed")
    /\ refresh' = [refresh EXCEPT !.stage = "read_membership", !.found = membership]
    /\ UNCHANGED <<route, membership, activeVars, passiveVars, available, snapshot,
                   skipped, requestVars, watcherVars, checkerVars, runnerVars, wake>>

ReadActive(a) ==
    /\ UseActive
    /\ At(a, "read_membership")
    /\ refresh' = [refresh EXCEPT !.stage = "read_active",
                                  !.found = @ \cap Active!HealthyEndpoints]
    /\ UNCHANGED <<route, membership, activeVars, passiveVars, available, snapshot,
                   skipped, requestVars, watcherVars, checkerVars, runnerVars, wake>>

\* Reading the passive tracker clears the ejections that are over.
ReadPassive(a) ==
    /\ UsePassive
    /\ At(a, IF UseActive THEN "read_active" ELSE "read_membership")
    /\ refresh' = [refresh EXCEPT !.stage = "read_passive",
                                  !.found = @ \cap HealthyEndpoints]
    /\ skipped' = Running
    /\ ClearExpired
    /\ UNCHANGED <<route, membership, activeVars, available, snapshot,
                   requestVars, watcherVars, checkerVars, runnerVars, wake>>

AllRead ==
    refresh.stage = IF UsePassive THEN "read_passive"
                    ELSE IF UseActive THEN "read_active" ELSE "read_membership"

\* Mutant: the early return leaves the mutex locked.
LeaveLocked(a) ==
    /\ refresh.owner = a /\ AllRead
    /\ refresh.found = {}
    /\ refresh' = [refresh EXCEPT !.stage = "none"]
    /\ Return(a)
    /\ UNCHANGED <<route, membership, activeVars, passiveVars, available, snapshot,
                   skipped, target, probing, timer, wake>>

\* Mutant: the picker opens whatever was found.
LeaveOpen(a) ==
    /\ refresh.owner = a /\ AllRead
    /\ refresh.found = {}
    /\ available' = TRUE
    /\ refresh' = Idle
    /\ Return(a)
    /\ UNCHANGED <<route, membership, activeVars, passiveVars, snapshot,
                   skipped, target, probing, timer, wake>>

\* Nothing found: the picker stays closed, over its last snapshot.
LeaveClosed(a) ==
    /\ refresh.owner = a /\ AllRead
    /\ refresh.found = {}
    /\ refresh' = Idle
    /\ Return(a)
    /\ UNCHANGED <<route, membership, activeVars, passiveVars, available, snapshot,
                   skipped, target, probing, timer, wake>>

\* p.picker.Replace(healthyEndpoints)
Publish(a) ==
    /\ refresh.owner = a /\ AllRead
    /\ refresh.found # {}
    /\ snapshot' = refresh.found
    /\ refresh' = [refresh EXCEPT !.stage = "published"]
    /\ UNCHANGED <<route, membership, activeVars, passiveVars, available, skipped,
                   requestVars, watcherVars, checkerVars, runnerVars, wake>>

\* p.available.Store(true); p.mu.Unlock()
Reopen(a) ==
    /\ At(a, "published")
    /\ available' = TRUE
    /\ refresh' = Idle
    /\ Return(a)
    /\ UNCHANGED <<route, membership, activeVars, passiveVars, snapshot,
                   skipped, target, probing, timer, wake>>

RefreshStep(a) ==
    \/ LockAndClose(a) \/ ReadMembership(a) \/ ReadActive(a) \/ ReadPassive(a)
    \/ LeaveClosed(a) \/ Publish(a) \/ Reopen(a)

-----------------------------------------------------------------------------
(* Requests: proxy.ServeHTTP up to Acquire, then PassiveHealthTransport.    *)

poolRest == <<route, membership, activeVars, pickerVars, watcherVars, checkerVars,
              runnerVars>>

\* HealthAwarePicker.Acquire reads available ...
ReadAvailable(r) ==
    /\ request[r] = "idle"
    /\ request' = [request EXCEPT ![r] = IF available THEN "admitted" ELSE "refused"]
    /\ UNCHANGED <<poolRest, passiveVars, target, wake>>

\* ... and then asks the load balancer, which has a snapshot of its own.
PickTarget(r) ==
    /\ request[r] = "admitted"
    /\ \E e \in snapshot : target' = [target EXCEPT ![r] = e]
    /\ request' = [request EXCEPT ![r] = "picked"]
    /\ UNCHANGED <<poolRest, passiveVars, wake>>

\* PassiveHealthTransport.RoundTrip asks again for the endpoint it was given.
TakePermit(r) ==
    /\ UsePassive
    /\ request[r] = "picked"
    /\ AcquirePermit(r, target[r])
    /\ request' = [request EXCEPT ![r] = "sent"]
    /\ target' = [target EXCEPT ![r] = NoEndpoint]
    /\ UNCHANGED <<poolRest, wake>>

PermitRefused(r) ==
    /\ UsePassive
    /\ request[r] = "picked"
    /\ PermitDenied(target[r])
    /\ request' = [request EXCEPT ![r] = "refused"]
    /\ target' = [target EXCEPT ![r] = NoEndpoint]
    /\ UNCHANGED <<poolRest, passiveVars, wake>>

\* Without passive checks nothing of the pool depends on the round trip.
SendUntracked(r) ==
    /\ ~UsePassive
    /\ request[r] = "picked"
    /\ request' = [request EXCEPT ![r] = "idle"]
    /\ target' = [target EXCEPT ![r] = NoEndpoint]
    /\ UNCHANGED <<poolRest, passiveVars, wake>>

Outcomes == {"ignored", "failure", "success"}

\* The outcome is recorded; the request that ejects must report it.
FinishRoundTrip(r, outcome) ==
    /\ request[r] = "sent"
    /\ RecordOutcome(r, outcome)
    /\ request' = [request EXCEPT
            ![r] = IF ReportsEjection(r, outcome) THEN "ejecting" ELSE "idle"]
    /\ UNCHANGED <<poolRest, target, wake>>

\* Mutant: the wake channel has no buffer, so that the wake-up is dropped when
\* the runner has not reached its select yet.
SendWakeUnbuffered(r) ==
    /\ request[r] = "waking"
    /\ wake' \in {wake, TRUE}
    /\ request' = [request EXCEPT ![r] = "idle"]
    /\ UNCHANGED <<poolRest, passiveVars, target>>

\* RecordEjection, after its Refresh: a send that does not wait for room.
SendWake(r) ==
    /\ request[r] = "waking"
    /\ wake' = TRUE
    /\ request' = [request EXCEPT ![r] = "idle"]
    /\ UNCHANGED <<poolRest, passiveVars, target>>

\* The refusal is answered: 503 when Acquire has given up, 502 when the endpoint
\* was ejected after it had been picked (see UpstreamCall!StatusCodes).
AnswerRefused(r) ==
    /\ request[r] = "refused"
    /\ request' = [request EXCEPT ![r] = "idle"]
    /\ UNCHANGED <<poolRest, passiveVars, target, wake>>

RequestStep(r) ==
    \/ ReadAvailable(r) \/ PickTarget(r) \/ TakePermit(r) \/ PermitRefused(r)
    \/ SendUntracked(r) \/ SendWake(r) \/ AnswerRefused(r)
    \/ \E outcome \in Outcomes : FinishRoundTrip(r, outcome)

-----------------------------------------------------------------------------
(* DNSWatcher.refresh: a failed lookup leaves everything as it is, an       *)
(* answer goes to the trackers first, then to the membership.               *)

ResolveAnswer(endpoints) ==
    /\ UseDNS
    /\ watcher = "idle"
    /\ endpoints \subseteq route.addresses
    /\ answer' = endpoints
    /\ watcher' = IF UseActive THEN "active"
                  ELSE IF UsePassive THEN "passive" ELSE "membership"
    /\ UNCHANGED <<route, membership, activeVars, passiveVars, pickerVars, requestVars,
                   checkerVars, runnerVars, wake>>

ApplyActive ==
    /\ watcher = "active"
    /\ Active!Replace(answer)
    /\ watcher' = IF UsePassive THEN "passive" ELSE "membership"
    /\ UNCHANGED <<route, membership, passiveVars, pickerVars, requestVars, answer,
                   checkerVars, runnerVars, wake>>

ApplyPassive ==
    /\ watcher = "passive"
    /\ Replace(answer)
    /\ watcher' = "membership"
    /\ UNCHANGED <<route, membership, activeVars, pickerVars, requestVars, answer,
                   checkerVars, runnerVars, wake>>

\* Mutant: the picker is not refreshed after the membership.
ApplyMembershipOnly ==
    /\ watcher = "membership"
    /\ membership' = answer
    /\ watcher' = "idle" /\ answer' = {}
    /\ UNCHANGED <<route, activeVars, passiveVars, pickerVars, requestVars,
                   checkerVars, runnerVars, wake>>

ApplyMembership ==
    /\ watcher = "membership"
    /\ membership' = answer
    /\ watcher' = "refresh"
    /\ UNCHANGED <<route, activeVars, passiveVars, pickerVars, requestVars, answer,
                   checkerVars, runnerVars, wake>>

ApplyStep == ApplyActive \/ ApplyPassive \/ ApplyMembership

-----------------------------------------------------------------------------
(* HealthChecker.runRound: the targets are fixed at the start, each result  *)
(* is recorded as it comes, and the transitions are reported when all are   *)
(* in.                                                                      *)

BeginRound ==
    /\ UseActive
    /\ probing = {} /\ changed = {} /\ refresh.owner # Checker
    /\ probing' = activeTracked
    /\ UNCHANGED <<route, membership, activeVars, passiveVars, pickerVars, requestVars,
                   watcherVars, changed, runnerVars, wake>>

ProbeSucceeds(e) ==
    /\ e \in probing
    /\ Active!RecordSuccess(e)
    /\ probing' = probing \ {e}
    /\ changed' = IF Active!SuccessChanges(e) THEN changed \cup {e} ELSE changed
    /\ UNCHANGED <<route, membership, passiveVars, pickerVars, requestVars, watcherVars,
                   runnerVars, wake>>

ProbeFails(e) ==
    /\ e \in probing
    /\ Active!RecordFailure(e)
    /\ probing' = probing \ {e}
    /\ changed' = IF Active!FailureChanges(e) THEN changed \cup {e} ELSE changed
    /\ UNCHANGED <<route, membership, passiveVars, pickerVars, requestVars, watcherVars,
                   runnerVars, wake>>

-----------------------------------------------------------------------------
(* routePassiveHealthObserver.Run: sleep until the first ejection ends, or  *)
(* until woken, or, with no ejection pending, until woken only.             *)

runnerRest == <<route, membership, activeVars, pickerVars, requestVars, watcherVars,
                checkerVars>>

\* Mutant: endpoints that are not ejected take part in the minimum.
ComputeDelayOfAll ==
    /\ UsePassive
    /\ runner = "compute"
    /\ IF members = {}
       THEN runner' = "blocked" /\ UNCHANGED timer
       ELSE /\ runner' = "armed"
            /\ timer' = Min({state[e].ejection : e \in members})
    /\ UNCHANGED <<runnerRest, passiveVars, wake>>

ComputeDelay ==
    /\ UsePassive
    /\ runner = "compute"
    /\ IF PendingRecoveries = {}
       THEN runner' = "blocked" /\ UNCHANGED timer
       ELSE /\ runner' = "armed"
            /\ timer' = Min({state[e].ejection :
                                e \in PendingRecoveries})
    /\ UNCHANGED <<runnerRest, passiveVars, wake>>

ReceiveWake ==
    /\ runner \in {"blocked", "armed"}
    /\ wake
    /\ wake' = FALSE
    /\ runner' = "compute" /\ timer' = 0
    /\ UNCHANGED <<runnerRest, passiveVars>>

\* Mutant: the ejections that are over are cleared, and the picker is not told.
TimerFiresQuietly ==
    /\ runner = "armed"
    /\ timer = 0
    /\ ClearExpired
    /\ runner' = "compute"
    /\ UNCHANGED <<runnerRest, timer, wake>>

\* The timer has fired: HealthyEndpoints is read for the metrics, which
\* clears the ejections that are over, and Refresh comes next.
TimerFires ==
    /\ runner = "armed"
    /\ timer = 0
    /\ ClearExpired
    /\ runner' = "refresh"
    /\ UNCHANGED <<runnerRest, timer, wake>>

RunnerStep == ComputeDelay \/ ReceiveWake \/ TimerFires

-----------------------------------------------------------------------------

\* The clock moves, at any time, as far as any goroutine looks at it.
Tick ==
    /\ UsePassive
    /\ Running # {} \/ timer > 0
    /\ Elapse
    /\ timer' = IF timer > 0 THEN timer - 1 ELSE timer
    /\ UNCHANGED <<route, membership, activeVars, pickerVars, requestVars, watcherVars,
                   checkerVars, runner, wake>>

Next ==
    \/ \E a \in Actors : RefreshStep(a)
    \/ \E r \in Requests : RequestStep(r)
    \/ \E endpoints \in SUBSET Endpoints : ResolveAnswer(endpoints)
    \/ ApplyStep
    \/ BeginRound
    \/ \E e \in Endpoints : ProbeSucceeds(e) \/ ProbeFails(e)
    \/ RunnerStep
    \/ Tick

Spec == Init /\ [][Next]_vars

RefreshHeld(a) ==
    \/ ReadMembership(a) \/ ReadActive(a) \/ ReadPassive(a)
    \/ LeaveClosed(a) \/ Publish(a) \/ Reopen(a)

\* A request in the gateway's own hands.  One that has been sent may never return.
RequestGoesOn(r) == request[r] \notin {"idle", "sent"} /\ RequestStep(r)

\* Goroutines are scheduled, probes end by their own timeout, and time passes.
\* A mutex of Go is handed to a goroutine that has waited long enough, and a
\* select with two channels ready picks one at random: hence the strong
\* fairness of taking the mutex and of the timer.
FairSpec ==
    /\ Spec
    /\ \A a \in Actors : SF_vars(LockAndClose(a))
    /\ WF_vars(\E a \in Actors : RefreshHeld(a))
    /\ \A r \in Requests : WF_vars(RequestGoesOn(r))
    /\ WF_vars(ApplyStep)
    /\ WF_vars(\E e \in Endpoints : ProbeSucceeds(e) \/ ProbeFails(e))
    /\ WF_vars(ComputeDelay \/ ReceiveWake) /\ SF_vars(TimerFires)
    /\ WF_vars(Tick)

-----------------------------------------------------------------------------

Stages == {"none", "closed", "read_membership", "read_active", "read_passive",
           "published"}

PoolTypeOK ==
    /\ route \in Routes
    /\ membership \in SUBSET Endpoints
    /\ Active!TrackerTypeOK
    /\ PassiveTypeOK
    /\ available \in BOOLEAN
    /\ snapshot \in SUBSET (Endpoints \cup {LogicalEndpoint})
    /\ refresh \in [owner : Actors \cup {Nobody}, stage : Stages,
                    found : SUBSET Endpoints]
    /\ skipped \in SUBSET (IF UsePassive THEN Endpoints ELSE {})
    /\ request \in [Requests -> {"idle", "admitted", "picked", "sent", "ejecting",
                                 "waking", "refused"}]
    /\ target \in [Requests -> Endpoints \cup {LogicalEndpoint, NoEndpoint}]
    /\ watcher \in {"idle", "active", "passive", "membership", "refresh"}
    /\ answer \in SUBSET Endpoints
    /\ probing \in SUBSET Endpoints
    /\ changed \in SUBSET Endpoints
    /\ runner \in {"compute", "blocked", "armed", "refresh"}
    /\ timer \in 0 .. EjectionDuration
    /\ wake \in BOOLEAN

\* The endpoints that every source calls healthy.
Eligible ==
    {e \in membership :
        /\ UseActive => e \in Active!HealthyEndpoints
        /\ UsePassive => e \in HealthyEndpoints}

\* The endpoints Acquire chooses from.
Published == IF available THEN snapshot ELSE {}

\* Nobody has changed a source without having refreshed the picker since.
Settled ==
    /\ refresh.owner = Nobody
    /\ watcher = "idle"
    /\ changed = {}
    /\ \A a \in Actors : ~WantsRefresh(a)

\* Whatever refreshes raced with one another, and in whatever order they read
\* their sources: once all who had something to report have reported it, an
\* open picker holds eligible endpoints only, at least one, and an eligible
\* endpoint is missing only if its ejection has ended since the latest refresh
\* looked: without passive checks none is.
PublishedIsEligible ==
    Settled =>
        /\ available => snapshot # {} /\ snapshot \subseteq Eligible
        /\ Eligible \ Published \subseteq skipped

\* No request is ever sent to the host name itself: it leaves the load
\* balancer before the picker opens for the first time.
OnlyAddressesPicked ==
    \A r \in Requests : target[r] # LogicalEndpoint

\* The wake-up is never lost: while an ejection is pending, the runner is not
\* asleep for good, for it has a timer, or a wake-up before it, or somebody
\* who ejected is about to send one.
RecoveryIsComing ==
    PendingRecoveries # {} =>
        \/ runner # "blocked"
        \/ wake
        \/ \E r \in Requests : request[r] \in {"ejecting", "waking"}

\* Publishing an answer never gets stuck: neither the coordinator's mutex nor
\* the picker's is ever kept, whoever else refreshes.
ApplyCompletes == watcher # "idle" ~> watcher = "idle"

\* The endpoints that may ever have passive checks.
Ejectable ==
    IF UseDNS THEN UNION {rt.addresses : rt \in {rt \in Routes : rt.passive}}
              ELSE Endpoints

\* Out of rotation for a reason that has nothing to do with passive health.
Excused(e) ==
    \/ e \notin membership
    \/ UseActive /\ e \notin Active!HealthyEndpoints

\* Every ejection ends, traffic or not: the endpoint comes back into rotation,
\* unless it is no longer a member or fails its active checks, or unless a
\* request that picked it before the ejection finds the ejection over before
\* anybody else and is on its way to it (see ReturnsToRotation).
EjectionEnds ==
    \A e \in Ejectable :
        e \in PendingRecoveries ~>
            e \in Published \/ Excused(e) \/ Counted(e) # {}

\* "Once an endpoint reaches consecutive_failures, DevGate removes it from load
\* balancing for ejection_duration.  It becomes eligible again automatically
\* after that period" (README.md:269): whatever keeps a healthy member out of
\* rotation, it comes back.
ReturnsToRotation ==
    \A e \in Endpoints :
        e \in membership \ Published ~> e \in Published \/ Excused(e)

=============================================================================
