# DevGate in TLA+

DevGate is a reverse-proxy gateway: it matches a request to a route, picks one
endpoint of the route's upstream, sends the request there through a stack of
transports (circuit breaker, passive health, retries, `net/http`), and copies
the answer back.  In the background it resolves DNS names, probes endpoints and
brings ejected endpoints back into rotation.

This directory models what is concurrent and stateful in it: modules in TLA+,
configurations that check them with TLC on small instances, and proofs checked
by TLAPS that hold for every instance.  Paths below are relative to the
repository; `README.md:271` in a comment of a module is line 271 of the
repository's own README.

## 1. The system

### Components

| Component | Code | State | Operations |
|---|---|---|---|
| Circuit breaker, one per route | `internal/proxy/circuit_breaker.go` | state, generation, failure streak, time of opening; a mutex | `RoundTrip`: take a permit, call on, classify, record |
| Active health tracker, one per route with active checks | `internal/upstream/health.go`, `health_tracker.go` | per endpoint: healthy, two counters | `RecordSuccess`, `RecordFailure`, `HealthyEndpoints`, `Replace` |
| Passive health tracker and transport, one per route with passive checks | `internal/upstream/passive_health_*.go` | per endpoint an object: failure streak, end of ejection, generation | `acquirePermit`, `recordOutcome`, `HealthyEndpoints`, `NextRecoveryDelay`, `Replace` |
| Health-aware picker | `internal/upstream/health_aware_picker.go` | an atomic flag `available`, the snapshot of the load balancer below it | `Acquire`, `Refresh` |
| Composite source, membership, coordinator | `composite_health_source.go`, `endpoint_membership.go`, `endpoint_coordinator.go` | the endpoint set | `HealthyEndpoints`, `Apply` |
| Active health checker | `health_checker.go`, `cmd/devgate/health_check_observer.go` | the round in progress, its jobs and results | `Run`, `runRound`, workers, transition reports |
| Passive recovery runner | `cmd/devgate/passive_health_observer.go` | a timer, a wake channel of capacity one | `RecordEjection`, `Run` |
| DNS watcher and resolver | `internal/discovery/` | none of its own | `refresh`, then `Apply` |
| Load balancers | `least_requests.go`, `round_robin.go`, `random.go` | endpoint list, cursor or index, load counters | `Acquire`, release, `Replace` |
| Proxy handler, releasing transport | `internal/proxy/proxy.go`, `releasing_transport.go` | the acquired endpoint of each request | `ServeHTTP`, `Rewrite`, body `Close`, error mapping |
| Retry transport | `internal/proxy/retry.go` | none | `RoundTrip` |
| Router | `internal/router/` | the routes, fixed at start | `Match`, conflict detection |
| Gateway handler, recovery, response writer | `internal/gateway/` | per response: status, whether written | dispatch, recovery from panics |
| Header policies | `internal/router/route.go` | none | `validate`, `Apply` |
| Lifecycle | `cmd/devgate/main.go`, `handlers.go` | server, background runners | `run`, `serve`, start and stop of the runners |
| Forwarded headers | `internal/proxy/trusted_proxies.go` | none | `setXForwardedFor` |
| Route middleware, direct responses, redirects, error responses | `internal/requesttimeout`, `requestbodylimit`, `ratelimit`, `requestid`, `directresponse`, `redirect`, `errorresponse` | rate limiter | wrap or answer |
| Configuration, TLS, logging, metrics | `internal/config`, `internal/metrics`, `cmd/devgate/{routes,tls,logger}.go` | none that decides anything | parse, validate, count |

### How they interact

```
 request ─► gateway ─► router ─► middleware ─► proxy.Handler
                                                 │ Acquire
                                                 ▼
                        HealthAwarePicker ─► load balancer ◄── Refresh ───┐
                                                 │                        │
     releasingTransport ─► CircuitBreaker ─► PassiveHealth ─► Retry ─► net/http
                                                 │ RecordEjection         │
                                                 ├────────────────────────┤
                                                 └─ wake ─► recovery runner
     DNS watcher ─► coordinator.Apply ─► trackers, membership ─► Refresh ─┤
     health checker ─► active tracker ─► transition observer ─► Refresh ──┘
```

Everything below the picker is called by one goroutine per request.  Four other
kinds of goroutines (watcher, checker, runner, and a request that has just
ejected an endpoint) call `Refresh`, which reads three sources one after the
other and publishes what it found.  Mutexes are held for one operation at a
time and never across a call to an upstream.

### What is hard

* **Permits that outlive their period.**  Breaker and passive tracker hand out a
  permit, release the mutex for as long as the upstream takes, and record the
  outcome later.  Meanwhile the breaker may trip, probe and close again; the
  endpoint may be ejected, recover, leave the DNS answer and return as another
  object.
* **One probe.**  A half-open breaker is left through the outcome of one request
  only, and that request may be cancelled.
* **Refreshes that race.**  Sources change between the reads of one `Refresh`,
  and several goroutines queue for it.
* **A wake-up that must not be lost.**  The runner computes how long to sleep,
  and a request may eject before, while or after it falls asleep.
* **Ejections that end while somebody else is looking.**  Any reader of the
  passive tracker clears an ejection that is over, and the runner must still get
  the picker refreshed.
* **Release exactly once.**  Transport, body and handler all call the release
  function; an upgraded connection is closed by a goroutine of its own; the
  endpoint list may be replaced in between.
* **Contexts that end at any time**, seen by each layer on its own.
* **Probes of a past life.**  A round may go on while DNS answers replace the
  endpoints; its results are recorded by URL, and reported to the picker when all
  are there, or when the context has ended in the middle of it.
* **An index and a list that do not belong together.**  Round robin draws an index,
  then loads the list; the counter starts over at 2^64.
* **A chain of proxies that may lie.**  The sender of a request writes what it likes
  into `X-Forwarded-For`, and trusted proxies add to it.
* **A shutdown that races everything**: the server may fail, not yet listen, accept
  one more connection, or hold a request that never ends; watchers and checkers
  are in the middle of their work.
* **Routes that tie.**  `Match` keeps the first of two routes neither of which is
  better, so the order of a configuration would matter, were it not for conflict
  detection, which looks at methods, hosts and headers pair by pair.
* **Responses cut short.**  A handler may panic before the header, after it, in the
  middle of the body, or on purpose; the gateway must either answer or see to it
  that nobody takes what was sent for a whole response.

`PROJECT.json` lists each hazard at its line, with the properties that cover it.

### What makes each component correct

| Component | It is correct if |
|---|---|
| Breaker | outcomes count only for requests admitted since its last change of mode; one request at a time probes; only a probe whose call never ends keeps a half-open breaker so; an upstream that answers well gets a closed breaker |
| Active tracker | an endpoint's health follows the last run of its probes, through replacements |
| Active checker | between rounds the picker knows every endpoint's health; stale results decide nothing on their own; a cancelled checker returns |
| Passive tracker | only requests admitted since the endpoint became eligible count; an ejection is neither prolonged nor cut short; a returning endpoint starts from nothing |
| Pool | once all changes are reported, what is published is eligible; no wake-up is lost; an ejection ends with the endpoint back in rotation; nothing deadlocks |
| `least_requests` and handler | load counters equal the requests that are active; requests go where the counter is lowest |
| `round_robin` | between two replacements, no endpoint gets more than one request more than another |
| Outgoing headers | the upstream is told the true path of the request and no other; what the configuration asks of headers is done, and nothing else |
| Call stack | a request that may not be repeated is sent once; only final results count, for endpoint and route; no call gets stuck between the layers; refusals are answered 503 |
| Router | the route chosen precedes every other that matches, whatever the order of the configuration; 405 names the methods that would have matched |
| Gateway | one response per request, also under panics; the status decided on is the one that is sent and counted |
| Lifecycle | drained requests finish before their runners stop; a clean exit has cut nothing off; a signal ends the process |

## 2. Modules

| Module | Models | Used by |
|---|---|---|
| `BreakerContract` | what the breaker promises: modes, counted requests, probe, streak; no generations, no time | refined by `CircuitBreaker` |
| `CircuitBreaker` | `CircuitBreakerTransport` under concurrent requests | `UpstreamCall` |
| `CircuitBreakerProofs` | proofs | |
| `HealthTracker` | `HealthTracker` and `endpointHealth` | `HealthHistory`, `UpstreamPool` |
| `HealthHistory` | the tracker beside a history of its reports | refined by `HealthChecker` |
| `HealthChecker` | `HealthChecker`: rounds, workers, results, transition reports, cancellation; DNS answers meanwhile | |
| `HealthCheckerProofs` | proofs about `HealthHistory` and `HealthChecker` | |
| `EjectionContract` | what passive health promises for one endpoint | refined by `PassiveHealthTracker` |
| `PassiveHealthTracker` | tracker and permits of the passive transport | `UpstreamPool`, `UpstreamCall` |
| `PassiveHealthProofs` | proofs | `UpstreamPoolProofs`, `UpstreamCallProofs` |
| `UpstreamPool` | picker, composite source, membership, coordinator, watcher, checker, runner, requests | |
| `UpstreamPoolProofs` | proofs | |
| `LeastRequests` | the `least_requests` balancer | `ProxyHandler` |
| `Balancers` | the lock-free balancers `round_robin` and `random` | `OutgoingRequest` |
| `ForwardedFor` | `setXForwardedFor` and what it calls | `OutgoingRequest` |
| `HeaderPolicy` | validation and application of a route's header changes | `OutgoingRequest` |
| `OutgoingRequest` | `ServeHTTP` and its `Rewrite` over the lock-free balancers | |
| `ProxyHandler` | `ServeHTTP` and `releasingTransport` over the balancer | |
| `ProxyHandlerProofs` | proofs about `ProxyHandler` and `OutgoingRequest` | |
| `UpstreamCall` | breaker, passive health and retries on top of one another, error statuses | |
| `UpstreamCallProofs` | proofs | |
| `Router` | which configurations `New` accepts, and `Match` route by route | `Gateway` |
| `Gateway` | a request's way through gateway, router and route middleware, its response writer, recovery from panics | |
| `GatewayProofs` | proofs about `Router` and `Gateway` | |
| `Lifecycle` | `run`, `serve`, the server of net/http, DNS watchers and other background runners | |
| `LifecycleProofs` | proofs | |
| `MC*` | instances for TLC | |

### How state and actions correspond to the code

* **One action per critical section or atomic access.**  Where the code calls an
  upstream, reads a context or waits on a channel between two of them, other
  goroutines run in between.  `HealthAwarePicker.Refresh` is seven actions in
  `UpstreamPool` (and one in `HealthChecker`, which is about the round around
  it); `HealthTracker.RecordFailure` is one; `RoundRobin.Acquire` is two.
* **Time.**  The breaker's open timeout and an ejection are kept as the ticks left
  to them.  In `CircuitBreaker` and `PassiveHealthTracker` a tick may come at any
  moment.  The comparison the code makes (`now < openedAt + timeout`,
  `now < ejectionUntil`) is "ticks left > 0".
* **Generations.**  The code counts a `uint64` up and only ever compares it for
  equality.  The models take a number that no permit in use holds
  (`NextGeneration`); a counter with 2^64 values that is not brought all the way
  round while a single request is in flight is the same thing.  The assumption on
  `Generations` is that there is always such a number.
* **Object identity.**  `recordOutcome` compares pointers.  A
  `passiveEndpointHealth` is known by its address, and a new one never lies where
  a permit still points (`FreshAddress`), which is what Go's memory management
  guarantees and nothing more: addresses are reused once nobody holds them.
* **Endpoint lists** are sets in trackers and pool, where order changes nothing;
  `LeastRequests` and `Balancers` keep the list and its order.
* **Requests** come from a fixed finite set and start over when they end.  In
  `Gateway` they share nothing that changes, so there is one at a time.
* **Paths** are cut at their slashes (`Router`): a path matcher compares whole
  segments, and the longer of two matchers of one path is the one with more of
  them.  What a request or a route says beyond method, host, path, headers,
  priority, action and policies is left out.
* **The response writer** is `responseWriter` together with what net/http has sent:
  the first status of 200 or more, once (`SendStatus`).
* **Headers** are a function from canonical names to values (`HeaderPolicy`), or the
  sequence of hops of `X-Forwarded-For` (`ForwardedFor`).  A hop is an address or
  text that is none.  Rewriting looks at one request only, so
  `OutgoingRequest` takes requests through it one at a time.
* **The process** (`Lifecycle`) is the main goroutine, the server of net/http as its
  documentation describes `ListenAndServe`, `Shutdown` and `Close`, and one step
  counter per request and runner.  Start-up, up to the first goroutine, is one
  step that may fail.
* **Left out everywhere:** metrics, logs, the content of requests and responses.  A result is one of: an error, no response, a status
  of 5xx, another status.

`HealthTracker`, `PassiveHealthTracker` and `CircuitBreaker` have actions that
leave everything else to their caller, and the compositions conjoin them with
their own steps.  `UpstreamPool` and `UpstreamCall` extend
`PassiveHealthTracker`: its variables are theirs, and the lemmas about it are used
in the proofs of both.  Active tracker and breaker come in through
`INSTANCE ... WITH`.  `OutgoingRequest` and `ProxyHandler` are two views of one
handler that share a module of proofs, and so no names.

`HealthHistory` adds history variables only: they record the reports and change
nothing about the tracker.  So do `current` and `freshRun` of `HealthChecker`
(which probes began in the present life of their endpoint), `fresh`, `sent`,
`draws` and `wraps` of `Balancers` (who got what since the list was stored),
`skipped` of `UpstreamPool` (whom the latest refresh left out as ejected), and
`late` of `Lifecycle`.

## 3. Runs

All runs explore the whole state space of their instance.  Deadlock is checked in
every run but `lifecycle`, where the process ends.

| Run | Asks | Instance |
|---|---|---|
| `circuit_breaker` | Do stale outcomes count? Can anything but a probe that hangs keep the breaker half-open? Does it heal? Does it implement `BreakerContract`? | 3 requests, threshold 2, timeout of 2 ticks |
| `health_checker` | Is health what the last probes say, whatever is replaced? Does the picker hear of it? Do stale results decide? Does the checker return? | 3 endpoints, thresholds of 2, 2 workers |
| `passive_health` | Do stale outcomes count, prolong or repeat an ejection? Does the tracker implement `EjectionContract`? | 1 endpoint, 3 requests, threshold 2, ejection of 2 ticks |
| `upstream_pool` | DNS with every combination of active and passive checks: is what is published eligible, and all of it? Is a wake-up lost? Is the host name ever picked? Does `Apply` always get through? Does an ejection end, whoever else is at work? | 1 request; 1 address with passive checks, 2 without |
| `pool_recovery` | Does an endpoint that is kept out always come back? | passive checks on a static route, 2 endpoints, 2 requests; **violated**, see 5 |
| `proxy_handler` | Are load counters the active requests, and does the least loaded endpoint get the next one? | 3 requests, 2 targets, 5 lists, two with a repeated target |
| `outgoing_request` | Is the round even? Is the upstream told the true path? Are headers changed as configured? | 3 requests, lists of 2 and 3 endpoints, a counter of 4 values, 6 draws; paths of 3 nodes, headers of up to 5 hops with a limit of 3; every policy on 3 spellings of 2 names |
| `lifecycle` | Are requests drained under runners? Is an exit without error clean? Does a signal end the process? | 3 requests, a watcher and another runner |
| `upstream_call` | Is anything sent twice, or counted against endpoint or route that is not final? Where can a call be stuck? | 2 requests, 1 endpoint, 2 attempts |
| `upstream_status` | Is a request that is not sent answered 503? | as above; **violated**, see 5 |
| `gateway` | Does the best route win in every configuration? Are 404, 405 and `Allow` true? Is the decided status sent and counted, and a cut response never passed off as whole? | 10 routes, every accepted configuration of up to 3 of them, 98 requests |
| `gateway_informs` | Does an error that is answered reach the client? | as above; **violated**, see 5 |

### Bounds, and why they are enough

* *Requests.*  The hazards of a permit need one request that changes the mode, one
  left over from the period before, and a third to be probe or second leftover.
  `pool_recovery` and the call stack need two: one that ejects, one that holds an
  older choice.  In `upstream_pool` the other goroutines are what one request races with.
* *Endpoints.*  No operation of the passive tracker or of the breaker relates two
  endpoints, hence one.  The active tracker's `Replace` does, and a round must have
  a job waiting while two workers are busy, hence three.  Refresh asks of each
  endpoint the same question; what can race is the order of the reads, so in
  `upstream_pool` a route with passive checks has one address beside the host
  name (`Routes` bounds the addresses per kind of route), and a route without
  them two; passive checks on two endpoints are in `pool_recovery` (on whose
  instance TLC finds `EjectionEnds` to hold as well).
  The balancer compares loads, hence two targets, and a third place by repetition.
* *Thresholds* of 2 and more where a streak may be interrupted; of 1 in the
  compositions, where only the moment of the transition matters.
* *Generations, addresses*: one more than requests that may hold one, which is the
  most that can be told apart.
* *Ticks*: one or two; what matters is whether a timeout is over when something
  else happens.
* *Routes*: ten that differ by one condition each, so that every clause of matching,
  precedence and conflict decides between some pair of them.  A third route is
  needed for a better match to come before, between and after two others; the
  properties compare routes pair by pair, and so gain nothing from a fourth.
  Configurations that conflict are among the inputs and are rejected by `Accepted`.
* *The counter* of round robin has 4 values instead of 2^64: it starts over within a
  cycle of three, and evenly within a cycle of two.  Six draws for one list are
  two cycles and a start in the middle.
* *Hops*: a header is one or two hops beyond the limit, and a path has a client, two
  proxies, and room for one that lies.
* *The process*: three requests, so that one may be new, one old and one upgraded; of
  watchers and other runners one each, as none looks at another.
* *Symmetry* among requests is used in `passive_health`, `proxy_handler` and
  `outgoing_request`, which check no liveness.

### Fairness, and why the code justifies it

* Nothing is assumed of calls to an upstream.  `net/http` starts the response
  header timeout when the request has been written, body included; the server has
  no `ReadTimeout`, `request_timeout` is optional, and the wait for a free
  connection under `MaxConnsPerHost` has no bound of its own.  So a call may stay
  in the transport for ever, and the properties say what follows:
  `ProbeResolves` that no other call than a probe's keeps a breaker half-open
  (`NoProbeHangs` is its hypothesis, not a fairness condition), `CallEnds` that a
  request which never ends is in one attempt for ever, with a context that goes on.
* A call whose context has ended returns, as the documentation of `net/http` has it.
* A goroutine with a step to take is scheduled (weak fairness of its steps).
* A Go mutex that a goroutine has waited for long enough is handed to it
  (starvation mode), and `select` picks among ready channels at random: hence
  strong fairness of `LockAndClose` and of `TimerFires`, and of the runners' look
  at the end of their context (`Return`, `ReturnFromRun`).
* `Server.Shutdown` has the deadline that `serve` gives it, and a closed listener ends
  the accept loop.  Nothing is assumed of requests, which may never end.
* `HealsWithUpstream` has its assumptions as hypotheses: probes return, and clients
  keep sending requests (`ClientsKeepComing`), for an open breaker is closed by
  traffic and nothing else.  Ordinary requests may hang for ever.
* A probe of the active checker ends by its own timeout, which the code gives it.
* Time passes: the clock may tick at any moment, also between any two steps of a
  goroutine, and `EjectionEnds` needs it to do so again and again.
* DNS answers and probe rounds need no fairness: no property needs the next one to
  come.  (A lookup that fails changes nothing, and is not an action.)

## 4. Proofs

`tlapm` checks all of them; nothing is assumed but the named `ASSUME`s of the
modules, which say that thresholds and durations are positive and lists not empty (as
the constructors demand), that there are finitely many requests, that they
never hold every generation or address, and what routes and requests are made of.

| Theorem | For every |
|---|---|
| `CircuitBreakerProofs!TypeCorrect`, `PermitsAlwaysMatchState`, `BreakerImplementsContract` | set of requests, threshold, timeout |
| `HealthCheckerProofs!CheckerImplementsHistory`, `CheckerTypeCorrect`, `PickerAlwaysKnowsAtRest`, `VerdictsAreAlwaysFresh` | set of endpoints, pair of thresholds, number of workers |
| `LifecycleProofs!AlwaysDrainedUnderRunners`, `ExitIsAlwaysClean`, `LateAnswerIsAlwaysOne` | set of requests, sets of watchers and other runners |
| `HealthCheckerProofs!HealthAlwaysFollowsRuns`, `OnlyRunsEverChangeHealth` | set of endpoints, pair of thresholds |
| `UpstreamPoolProofs!PoolTypesHold`, `SettledPoolPublishesEligible`, `HostNameNeverPicked`, `WakeUpNeverLost`, `PassiveInPool`, `EjectionsInPool` | set of addresses, set of requests, thresholds, duration, every mix of static and DNS routes with and without checks |
| `UpstreamCallProofs!AlwaysSentOnce`, `CallTypesHold`, `FinalResultCounts`, `BreakerInStack`, `BreakerContractInStack`, `PassiveInStack`, `EjectionsInStack` | set of requests, set of endpoints, number of attempts, thresholds, durations |
| `ProxyHandlerProofs!SpreadIsAlwaysEven` | set of requests, set of lists, number of values of the counter |
| `ProxyHandlerProofs!PathIsAlwaysTrue`, `HeadersAlwaysAsConfigured` | set of addresses, set of trusted proxies, limit on hops, spelling of names, set of reserved names, length of paths and headers |
| `PassiveHealthProofs!TypeCorrect`, `EjectedNeverHears`, `EjectionsRunTheirCourse`, `TrackerImplementsContract` | set of endpoints, set of requests, threshold, duration |
| `ProxyHandlerProofs!TypeCorrect`, `LoadsAreAlwaysActive`, `AlwaysSentWhereLeastActive` | set of targets, set of lists, finite set of requests |
| `GatewayProofs!TypeCorrect`, `MatchIsAlwaysBest`, `AllowIsAlwaysTruthful`, `StatusIsAlwaysDecided`, `CutShortIsAlwaysAborted` | set of routes, set of configurations, set of requests |

**Breaker.**  `PermitsMatchState` is inductive together with the types and the
fact that only a closed breaker counts a streak (`IInv`).  Every change of mode
takes a new generation, and `NextGenerationIsFree` says that nobody in flight
holds it; so at each such step the set of awaited requests becomes empty
(`BumpAwaitsNobody`), and a probe joins an empty set.  The refinement follows
action by action: a stale record is a stutter of the contract, a trip empties
`counted`, the end of a probe is `ProbeSucceeds` or `ProbeEnds`.

**Active tracker.**  `HealthFollowsRuns` alone is not inductive: it says nothing
of the counter that will cause the next transition.  `CountersAreRuns` adds that
the counter in use is the length of the current run and the other one is zero.

**Active checker.**  Every step of the checker is a step of `HealthHistory` or leaves
its variables alone (`StepOfHistory`), so its invariant and its action property
are there to be used.  `Told` adds: where picker and tracker differ on an
endpoint, that endpoint's job says "changed"; a round does not end while one does,
and outside of rounds there are no jobs (`Rounds`).  `Fresh` adds: an
endpoint's run of failures exceeds its run of fresh ones by one at most, and by
none while a stale probe of it is still on its way.  A round has one job per endpoint,
so there is no second one; a return of the endpoint resets both runs.

**Passive tracker.**  The invariant (`IInv`) is the types, `EjectedHearsNobody`, and
`StreakOnlyEligible`: an endpoint that is ejected or gone has no streak.  A new
life of an endpoint begins with a generation that no permit has
(`NextGenerationIsFree`) or with an object at an address that no permit points to
(`FreshAddressIsFree`), so nobody counts for it at first.  One lemma per action
says what it does to a single endpoint and to the requests that count for it; the
theorems, the refinement of `EjectionContract` included, put these together by
cases.

**Balancer and handler.**  `LoadIsActive` alone does not say which release calls
still count; `ReleasedWhenInactive` does: a release function has been called
exactly of the requests that are not active.  With both (`IInv`) every step adds
one request to the set that is active on a place, removes one, or leaves it as
it is, and the counter follows.  For `Replace` it matters that no two places of
the new list take over the same endpoint (`OriginInjective`): the k-th occurrence
of a target gets the k-th endpoint it had.  That the endpoint selected is the
least loaded (`FirstIsLeast`) rests on the natural numbers being well-founded.

**Round robin.**  That the spread is even follows from where the round is
(`RoundIsEven`).  `Passed(i)` is 1 for the places the round has come past in its
present cycle.  Of two places, the earlier one is ahead of the later one by no more
than their `Passed` explain and one for each cycle that the counter has broken off
by starting over; the later one is ahead of the earlier by the cycle that was
under way when the list was stored, at most.  A draw adds one to the share of the
place the round is at (`DrawAddsShare`) and moves the round on by one
(`DrawMovesRound`); a request that loads the list turns what it has drawn into what
it was sent, and no share changes (`UseKeepsShares`).

**Outgoing request.**  The request on the wire is one that `Rewrite` has made
(`WireOK`); the rest is about `Rewrite` alone.  `ToldTruePath` goes through the
peers: one without an address, one that is not trusted, which then is the whole
path, and a trusted one, where the last untrusted hop is the first node of the path
(`WalkBackKeepsPath`), whatever stands before it.  A valid policy names no header
twice in any spelling, so that each has one writer and the order of a Go map does
not matter (`PolicyOnHeaders`).

**Router and gateway.**  That the order of a configuration never matters comes down
to `OneIsBetter`: of two routes that match one request and may stand in one
configuration, one is better.  Prefixes of one path that are equally long are the
same (`PrefixesOfOnePath`), conditions that one request meets overlap
(`ConditionsOverlap`), and so a tie would have been a conflict.  `BestSoFar`, which
says of the routes looked at so far what `MatchIsBest` says of all, is then
preserved by each turn of the loop, as better is transitive.  `AllowIsTruthful`
follows from it and from `AnswerMatchesAllow`: a route that matches but for the
method, in a configuration without a match, names its methods.  For the response,
`ResponseMatchesStage` says how much of it has been written at each stage; every
answer written in one go meets a fresh response, or one that a 1xx response has
spoilt (`AnswerOnce`).

**Pool.**  `PublishedIsEligible` speaks of moments at which nobody has anything to
report; its invariant must say what holds before.  `Pending` says that somebody has
changed a source and not begun the refresh that will report it: the watcher in
`Apply`, the checker after a round, a request that has ejected.  As long as there
is one, the picker may lag behind.  Otherwise, between refreshes it is up to date
(`PublishedIsCurrent`), and a refresh in progress has found what the sources that it
has read so far say by now (`Seen`, `FoundIsCurrent`): whoever changes a source under
it is pending from then on.  Refreshes come one after the other, each on behalf of
somebody who asked for it, and the picker is closed meanwhile (`RefreshInOrder`).
The end of an ejection is nobody's to report but the runner's; so of
those who are listed, ejected or not (`Listed`, `Candidates`), a refresh may have left
some out, but only whom it met ejected (`skipped`).  Without passive checks there
are none of these, and what is published is what is eligible.  `HostNameUnreachable`: while the host name is in the
balancer, the picker is closed and no request has got past it.  `RecoveryIsComing`
is preserved because a step after which the runner sleeps without a timer either
leaves every wake-up standing that is in the channel or on its way, or follows the
runner's own look at the tracker (`AlarmStands`, `AlarmIsKept`); an ejection that
becomes pending is the work of a request that is then about to send one.  Most
steps change nothing that these invariants read and are dealt with at once
(`Quiet`).  Every step does to the passive tracker what its specification allows,
or nothing (`PassiveInPool`), so that its theorems hold in the pool.

**Call stack.**  `StateOfCall` says at which stages a request has been sent, how
often, may be sent again and has a result.  With it, each step of the stack is a
step of the breaker or leaves it alone, and the same for passive health; so the
theorems about the two hold of them under any mixture of calls, retries and ended
contexts (`BreakerContractInStack`, `EjectionsInStack`, where those theorems are
used as they stand: `CircuitBreakerProofs` is instantiated on the variables of
the stack).  For `FinalResultOnly` one has to know that the permit of a request is for
the endpoint it was sent to (`PermitsMatchTargets`), and that only an outcome that is
recorded is held against an endpoint, and against that one alone
(`HeldByOutcome`): replacing the endpoints, an ejection that ends and a permit taken
never are.  What is classified as a failure for the breaker has come back from the
layers below for good: it is the last permitted attempt's, or passive health's own
refusal, and the context goes on (`FailureIsFinal`); and the breaker counts only
what is recorded so, of a permit of its present generation (`RouteHeldForFailure`).

**Lifecycle.**  `Started`: the listener is not open, and no request is in the
server's hands, unless all runners have been started.  `Cancelling`: their
context ends only when `serve` has returned.  `CleanExit`: a drain that came to
its end has closed the listener for good (`Quiet`), and `run` returns nil in no
other way.  A watcher that has applied a late answer cannot come to another one, as
a lookup that ends after the context does leads to no `Apply` (`LateWatchers`).

**Only model-checked.**  The liveness properties: `ProbeResolves`,
`HealsWithUpstream`, `RunReturns`, `ApplyCompletes`, `EjectionEnds`, `Terminates`
and `CallEnds`, and the absence of deadlocks.  Liveness under fairness and `ENABLED`
are out of the prover's reach.  Every invariant and action property of a run
that passes is proved.

## 5. Where code and documentation differ

* **502 instead of 503** (`upstream_status`).  An endpoint ejected between its
  selection and its permit makes the request fail with an error that the status
  mapping does not know, and that the breaker counts as an upstream failure.
* **Errors that arrive as 200** (`gateway_informs`).  `responseWriter` takes a 1xx
  status, which `httputil.ReverseProxy` forwards ahead of the answer, for the
  status of the response: every later `WriteHeader` is dropped.  If an upstream
  sends 103 Early Hints and then fails, the client receives 200 with the body of a
  502, and the metrics count 103.
* **An endpoint that stays out** (`pool_recovery`).  The documentation promises that
  an ejected endpoint "becomes eligible again automatically" (`README.md:269`).
  Two requests have picked e1, and the first one's failure ejects it.  The
  `Refresh` of that request reads e1 as ejected, publishes e2 alone, and wakes the
  runner.  Before the runner has computed its delay, the ejection ends, and the
  second request, taking its permit, clears it.  The runner finds nothing pending
  and waits for the next ejection.  On a static route without active checks nobody
  refreshes the picker again until then: e1 is eligible to the tracker and out of
  rotation, for ever if e2 never fails.  It takes goroutines that are held up between that read and the
  runner's look for the length of the ejection, so a short `ejection_duration` or a long
  stall.  In the instances checked this is the only way: `EjectionEnds` says that
  every other ejection ends with the endpoint back in rotation.

No document promises how long a breaker may stay half-open.  A probe whose call
never ends keeps it so, and the route answers nobody else; nothing in the code
bounds such a call (see Fairness).

An endpoint that leaves the snapshot of `least_requests` and returns counts as idle
though requests may still be streaming from it.  The documentation
(`README.md:127`) can be read either way, so the properties take the code's
reading: `LoadIsActive` counts requests by endpoint object, not by target.

## 6. Not modelled, and why

What is left to do, in this order:

1. `DNSResolver.Resolve`: sorting and deduplication of addresses, of which the rest
   sees a set.
2. The token bucket behind the rate limiter, as an external component.

Left out for good: configuration parsing and per-field validation (no state
afterwards), TLS and logging set-up, metrics (nothing reads them), the bodies and
headers of direct responses, redirects and error responses (constant),
connections that an upgrade has taken over from the gateway's response writer,
the operations listener with `/healthz` and `/metrics`, the joining of an
endpoint's URL with a request's (`ProxyRequest.SetURL`), the configuration of the
upstream transport (nothing is assumed of its timeouts), and the standard library
below the transports.  In particular a request that `UpstreamCall` counts as sent
once is one call of the base `RoundTrip`; `net/http` may itself send some requests
again on a new connection.  The runner's delay and the timer started with it are one
step (`ComputeDelay`), so nothing is said of how late a timer fires.
