---------------------------- MODULE ProxyHandler ----------------------------
(****************************************************************************)
(* A request's way through proxy.Handler.ServeHTTP (internal/proxy/proxy.go)*)
(* and releasingTransport (releasing_transport.go), over the least_requests *)
(* load balancer: where its endpoint is acquired and where it is released.  *)
(*                                                                          *)
(* Three places call the release function of a request: the transport when  *)
(* the call fails, the response body when it is closed, and ServeHTTP when  *)
(* it returns, also by a panic.  An upgraded connection is closed by a      *)
(* goroutine of httputil.ReverseProxy, at the end of the request's context, *)
(* which may come while data still flows or after ServeHTTP has returned.   *)
(*                                                                          *)
(* What is below releasingTransport may answer or fail; UpstreamCall models *)
(* it.  What decides on the endpoint list is modelled by UpstreamPool.      *)
(****************************************************************************)
EXTENDS LeastRequests

CONSTANT Lists      \* the endpoint lists that health and discovery publish

ASSUME ListsAssumption == Lists \subseteq Seq(Targets) \ {<<>>}

VARIABLES
    phase,          \* where each request is
    target,         \* the target each request was given
    watched         \* requests whose upgraded connection is yet to be closed

vars == <<balancerVars, phase, target, watched>>

Phases == {"idle", "calling", "failing", "streaming", "upgraded", "closed",
           "lingering"}

Init ==
    /\ BalancerInit
    /\ phase = [r \in Requests |-> "idle"]
    /\ target = [r \in Requests |-> InitialTargets[1]]
    /\ watched = {}

Goto(r, p) == phase' = [phase EXCEPT ![r] = p] /\ UNCHANGED target

\* targetPicker.Acquire.  (An Acquire that fails leaves no trace here.)
Select(r) ==
    /\ phase[r] = "idle"
    /\ Acquire(r)
    /\ target' = [target EXCEPT ![r] = endpoints[ticket'[r].place].target]
    /\ phase' = [phase EXCEPT ![r] = "calling"]
    /\ UNCHANGED watched

\* Mutant: a failed call is left to ServeHTTP to release.
CallFailsUnreleased(r) ==
    /\ phase[r] = "calling"
    /\ Goto(r, "failing")
    /\ UNCHANGED <<balancerVars, watched>>

\* The call fails: released before the error response is written.
CallFails(r) ==
    /\ phase[r] = "calling"
    /\ Release(r)
    /\ Goto(r, "failing")
    /\ UNCHANGED watched

\* The call succeeds: its body will release.
CallAnswers(r) ==
    /\ phase[r] = "calling"
    /\ Goto(r, "streaming")
    /\ UNCHANGED <<balancerVars, watched>>

CallSwitchesProtocols(r) ==
    /\ phase[r] = "calling"
    /\ Goto(r, "upgraded")
    /\ watched' = watched \cup {r}
    /\ UNCHANGED balancerVars

\* releasingBody.Close: at the end of the body, or when copying it fails.
CloseBody(r) ==
    /\ phase[r] = "streaming"
    /\ Release(r)
    /\ Goto(r, "closed")
    /\ UNCHANGED watched

\* releasingReadWriteBody.Close, by the goroutine.
CloseUpgraded(r) ==
    /\ r \in watched
    /\ watched' = watched \ {r}
    /\ IF phase[r] = "lingering"
       THEN ReleaseAndForget(r) /\ Goto(r, "idle")
       ELSE Release(r) /\ UNCHANGED <<phase, target>>

\* ServeHTTP returns, and its deferred release runs.
Return(r) ==
    /\ phase[r] \in {"failing", "closed", "upgraded"}
    /\ IF r \in watched
       THEN Release(r) /\ Goto(r, "lingering")
       ELSE ReleaseAndForget(r) /\ Goto(r, "idle")
    /\ UNCHANGED watched

\* A Refresh of the pool publishes another list.
Publish(list) ==
    /\ Replace(list)
    /\ UNCHANGED <<phase, target, watched>>

Next ==
    \/ \E r \in Requests :
        \/ Select(r) \/ CallFails(r) \/ CallAnswers(r) \/ CallSwitchesProtocols(r)
        \/ CloseBody(r) \/ CloseUpgraded(r) \/ Return(r)
    \/ \E list \in Lists : Publish(list)

Spec == Init /\ [][Next]_vars

-----------------------------------------------------------------------------

\* "An endpoint remains active until its response body is closed, so
\* streaming HTTP and WebSocket traffic contributes to its load"
\* (README.md:127).
Active(r) ==
    \/ phase[r] \in {"calling", "streaming"}
    \/ phase[r] = "upgraded" /\ r \in watched

ActiveOn(place) == {r \in Requests : Active(r) /\ ticket[r].place = place}

ProxyTypeOK ==
    /\ BalancerTypeOK
    /\ phase \in [Requests -> Phases]
    /\ target \in [Requests -> Targets]
    /\ watched \in SUBSET Requests

\* The load of an endpoint is the number of its active requests: no release
\* is lost, none counts twice, and none hits another endpoint, whatever lists
\* are published meanwhile.
LoadIsActive ==
    \A i \in DOMAIN endpoints :
        endpoints[i].activeRequests = Cardinality(ActiveOn(i))

\* A release function has been called exactly of the requests that are not
\* active; and only an upgraded connection is watched.
ReleasedWhenInactive ==
    /\ \A r \in Requests : ticket[r].released <=> ~Active(r)
    /\ \A r \in watched : phase[r] \in {"upgraded", "lingering"}

\* The inductive invariant of the safety proofs.
IInv == ProxyTypeOK /\ LoadIsActive /\ ReleasedWhenInactive

Selects(r) == phase[r] = "idle" /\ phase'[r] = "calling"

\* A request is sent to an endpoint of the list that has no more active
\* requests, of those sent to it since it was listed, than any other.
SentWhereLeastActive ==
    [][\A r \in Requests : Selects(r) =>
            \A i \in DOMAIN endpoints :
                Cardinality(ActiveOn(ticket'[r].place)) <= Cardinality(ActiveOn(i))
      ]_vars

=============================================================================
