------------------------------ MODULE Lifecycle ------------------------------
(****************************************************************************)
(* The life of the process: run and serve of cmd/devgate/main.go, the       *)
(* background runners that startBackgroundRunners of handlers.go starts and *)
(* stops, and the server of net/http between them.  The DNS watcher         *)
(* (internal/discovery/dns_watcher.go) is followed step by step, since an   *)
(* answer may arrive while it is told to stop; HealthChecker and            *)
(* UpstreamPool do so for the other runners.                                *)
(****************************************************************************)
EXTENDS Integers

CONSTANTS
    Requests,     \* requests that clients send
    Watchers,     \* DNSWatcher goroutines, one per DNS route
    Others        \* HealthChecker and routePassiveHealthObserver goroutines

Runners == Watchers \cup Others

ASSUME LifecycleAssumption == Watchers \cap Others = {}

VARIABLES
    main,            \* where the main goroutine is
    signalled,       \* whether shutdownSignal is done
    exit,            \* what run returns: "none", "ok" or "error"
    listener,        \* of the server: "unopened", "open" or "ended"
    shuttingDown,    \* whether Server.Shutdown has been called
    serveErr,        \* what is in serveErrCh: "none", "closed" or "failed"
    request,         \* how far each request is
    cancelled,       \* whether the runners' context has ended
    runner,          \* how far each runner is
    late             \* history: answers applied after that, counted up to two

mainVars == <<main, signalled, exit>>
serverVars == <<listener, shuttingDown, serveErr>>
runnerVars == <<runner, late>>
vars == <<mainVars, serverVars, request, cancelled, runnerVars>>

Init ==
    /\ main = "loading" /\ signalled = FALSE /\ exit = "none"
    /\ listener = "unopened" /\ shuttingDown = FALSE /\ serveErr = "none"
    /\ request = [q \in Requests |-> "none"]
    /\ cancelled = FALSE
    /\ runner = [r \in Runners |-> "unstarted"]
    /\ late = [w \in Watchers |-> 0]

Alive == main \notin {"exited", "killed"}

-----------------------------------------------------------------------------
(* The main goroutine.                                                      *)

\* TLS files, routes, router, resolver, transport or handlers are refused:
\* run returns before any runner is started.
LoadFails ==
    /\ main = "loading"
    /\ main' = "exited"
    /\ exit' = "error"
    /\ UNCHANGED <<signalled, serverVars, request, cancelled, runnerVars>>

StartBackgroundRunners ==
    /\ main = "loading"
    /\ main' = "starting"
    /\ runner' = [r \in Runners |-> "started"]
    /\ UNCHANGED <<signalled, exit, serverVars, request, cancelled, late>>

\* From here on a signal is caught; the goroutine of listenAndServe is started.
Serve ==
    /\ main = "starting"
    /\ main' = "serving"
    /\ UNCHANGED <<signalled, exit, serverVars, request, cancelled, runnerVars>>

\* run returns from serve: its deferred stopBackgroundRunners cancels.
ReturnFromServe(result) ==
    /\ main' = "stopping"
    /\ exit' = result
    /\ cancelled' = TRUE

Result(err) == IF err = "closed" THEN "ok" ELSE "error"

\* The select takes the error of a server that does not serve any more.
ServeFails ==
    /\ main = "serving"
    /\ serveErr # "none"
    /\ ReturnFromServe(Result(serveErr))
    /\ serveErr' = "none"
    /\ UNCHANGED <<signalled, listener, shuttingDown, request, runnerVars>>

\* Mutant: the runners are stopped by the signal, as if it were their context.
BeginShutdownOfAll ==
    /\ main = "serving"
    /\ signalled
    /\ main' = "draining"
    /\ shuttingDown' = TRUE
    /\ cancelled' = TRUE
    /\ UNCHANGED <<signalled, exit, listener, serveErr, request, runnerVars>>

\* The select takes the signal, also if the server has failed as well.
BeginShutdown ==
    /\ main = "serving"
    /\ signalled
    /\ main' = "draining"
    /\ shuttingDown' = TRUE
    /\ UNCHANGED <<signalled, exit, listener, serveErr, request, cancelled, runnerVars>>

\* Server.Shutdown returns nil: the accept loop has ended, no connection is
\* active or waits for its first request.
Drained ==
    /\ main = "draining"
    /\ listener # "open"
    /\ \A q \in Requests : request[q] \notin {"connected", "active"}
    /\ main' = "awaiting"
    /\ UNCHANGED <<signalled, exit, serverVars, request, cancelled, runnerVars>>

\* Mutant: the error of Shutdown is logged, and that is all.
ShutdownFailsQuietly ==
    /\ main = "draining"
    /\ listener # "open"
    /\ main' = "awaiting"
    /\ request' = [q \in Requests |->
                    IF request[q] \in {"connected", "active"} THEN "cut" ELSE request[q]]
    /\ UNCHANGED <<signalled, exit, serverVars, cancelled, runnerVars>>

\* Mutant: Shutdown is given no deadline, and returns when all is quiet.
ShutdownFailsWhenQuiet ==
    /\ main = "draining"
    /\ listener # "open"
    /\ \A q \in Requests : request[q] \notin {"connected", "active"}
    /\ ReturnFromServe("error")
    /\ UNCHANGED <<signalled, serverVars, request, runnerVars>>

\* Shutdown's deadline has passed (or it could not close the listener), and
\* Server.Close cuts the connections: an error in any case.
ShutdownFails ==
    /\ main = "draining"
    /\ listener # "open"
    /\ ReturnFromServe("error")
    /\ request' = [q \in Requests |->
                    IF request[q] \in {"connected", "active"} THEN "cut" ELSE request[q]]
    /\ UNCHANGED <<signalled, serverVars, runnerVars>>

\* err := <-serveErrCh
AwaitServe ==
    /\ main = "awaiting"
    /\ serveErr # "none"
    /\ ReturnFromServe(Result(serveErr))
    /\ serveErr' = "none"
    /\ UNCHANGED <<signalled, listener, shuttingDown, request, runnerVars>>

\* What is still open when the process ends; an upgraded connection has left
\* the server's hands long before.
Abandoned ==
    [q \in Requests |->
        CASE request[q] \in {"connected", "active"} -> "cut"
          [] request[q] = "upgraded" -> "dropped"
          [] OTHER -> request[q]]

\* wg.Wait is over: run returns, and the process ends.
Exit ==
    /\ main = "stopping"
    /\ \A r \in Runners : runner[r] = "returned"
    /\ main' = "exited"
    /\ request' = Abandoned
    /\ UNCHANGED <<signalled, exit, serverVars, cancelled, runnerVars>>

\* SIGINT or SIGTERM while it is caught, ...
Signal ==
    /\ main = "serving"
    /\ ~signalled
    /\ signalled' = TRUE
    /\ UNCHANGED <<main, exit, serverVars, request, cancelled, runnerVars>>

\* ... before it is, or again after stop(): the process ends on the spot.
Kill ==
    /\ Alive
    /\ main # "serving"
    /\ main' = "killed"
    /\ exit' = "error"
    /\ request' = Abandoned
    /\ UNCHANGED <<signalled, serverVars, cancelled, runnerVars>>

-----------------------------------------------------------------------------
(* The server of net/http.                                                  *)

ServeCalled == Alive /\ main \notin {"loading", "starting"}

\* ListenAndServe returns ErrServerClosed if Shutdown has been faster, ...
ListenRefused ==
    /\ ServeCalled /\ listener = "unopened" /\ shuttingDown
    /\ listener' = "ended" /\ serveErr' = "closed"
    /\ UNCHANGED <<mainVars, shuttingDown, request, cancelled, runnerVars>>

\* ... or the error of Listen, also if Shutdown comes meanwhile.
ListenFails ==
    /\ ServeCalled /\ listener = "unopened"
    /\ listener' = "ended" /\ serveErr' = "failed"
    /\ UNCHANGED <<mainVars, shuttingDown, request, cancelled, runnerVars>>

Listen ==
    /\ ServeCalled /\ listener = "unopened" /\ ~shuttingDown
    /\ listener' = "open"
    /\ UNCHANGED <<mainVars, shuttingDown, serveErr, request, cancelled, runnerVars>>

AcceptFails ==
    /\ ServeCalled /\ listener = "open" /\ ~shuttingDown
    /\ listener' = "ended" /\ serveErr' = "failed"
    /\ UNCHANGED <<mainVars, shuttingDown, request, cancelled, runnerVars>>

\* Shutdown has closed the listener.
AcceptEnds ==
    /\ ServeCalled /\ listener = "open" /\ shuttingDown
    /\ listener' = "ended" /\ serveErr' = "closed"
    /\ UNCHANGED <<mainVars, shuttingDown, request, cancelled, runnerVars>>

Step(q, from, to) ==
    /\ Alive
    /\ request[q] = from
    /\ request' = [request EXCEPT ![q] = to]
    /\ UNCHANGED <<mainVars, serverVars, cancelled, runnerVars>>

\* A connection may be accepted until the accept loop ends; one on which no
\* request comes is closed, also by Shutdown.
Connect(q) == listener = "open" /\ Step(q, "none", "connected")
Disconnect(q) == Step(q, "connected", "none")
BeginRequest(q) == Step(q, "connected", "active")
Upgrade(q) == Step(q, "active", "upgraded")
EndRequest(q) == Step(q, "active", "done") \/ Step(q, "upgraded", "done")

-----------------------------------------------------------------------------
(* The runners.                                                             *)

Advance(r, from, to) ==
    /\ Alive
    /\ runner[r] = from
    /\ runner' = [runner EXCEPT ![r] = to]
    /\ UNCHANGED <<mainVars, serverVars, request, cancelled>>

\* Run looks at the context; a watcher looks its name up at once.
BeginRun(r) ==
    /\ Advance(r, "started", IF cancelled THEN "returned"
                             ELSE IF r \in Watchers THEN "lookup" ELSE "waiting")
    /\ UNCHANGED late

\* The timer has fired.  (The select may take it after the context's end.)
BeginWork(r) ==
    /\ Advance(r, "waiting", IF r \in Watchers THEN "lookup" ELSE "working")
    /\ UNCHANGED late

EndWork(r) ==
    /\ Advance(r, "working", "waiting")
    /\ UNCHANGED late

ReturnFromRun(r) ==
    /\ cancelled
    /\ Advance(r, "waiting", "returned")
    /\ UNCHANGED late

\* Mutant: refresh does not look at the context when the lookup has ended.
LookupEndsAnyway(w) ==
    /\ \E next \in {"waiting", "applying"} : Advance(w, "lookup", next)
    /\ UNCHANGED late

\* The lookup has ended.  An error, or the end of the context, ends refresh.
LookupEnds(w) ==
    /\ \E next \in {"waiting"} \cup (IF cancelled THEN {} ELSE {"applying"}) :
            Advance(w, "lookup", next)
    /\ UNCHANGED late

\* w.applier.Apply
ApplyAnswer(w) ==
    /\ Advance(w, "applying", "waiting")
    /\ late' = IF cancelled /\ late[w] < 2 THEN [late EXCEPT ![w] = @ + 1] ELSE late

-----------------------------------------------------------------------------

MainStep ==
    \/ LoadFails \/ StartBackgroundRunners \/ Serve
    \/ ServeFails \/ BeginShutdown
    \/ Drained \/ ShutdownFails \/ AwaitServe \/ Exit

ServerStep ==
    \/ ListenRefused \/ ListenFails \/ Listen \/ AcceptFails \/ AcceptEnds

RequestStep(q) ==
    \/ Connect(q) \/ Disconnect(q) \/ BeginRequest(q) \/ Upgrade(q) \/ EndRequest(q)

RunnerStep(r) ==
    \/ BeginRun(r) \/ BeginWork(r) \/ EndWork(r) \/ ReturnFromRun(r)
    \/ r \in Watchers /\ (LookupEnds(r) \/ ApplyAnswer(r))

Next ==
    \/ MainStep
    \/ Signal
    \/ Kill
    \/ ServerStep
    \/ \E q \in Requests : RequestStep(q)
    \/ \E r \in Runners : RunnerStep(r)

Spec == Init /\ [][Next]_vars

\* Goroutines are scheduled.  Shutdown has a deadline, a closed listener ends the
\* accept loop, and lookups, probes and refreshes end; of requests nothing is
\* assumed.  A select that meets the end of the context again and again takes it.
Fairness ==
    /\ WF_vars(MainStep)
    /\ WF_vars(ListenRefused \/ AcceptEnds)
    /\ \A r \in Runners :
        /\ WF_vars(BeginRun(r) \/ EndWork(r))
        /\ SF_vars(ReturnFromRun(r))
    /\ \A w \in Watchers : WF_vars(LookupEnds(w) \/ ApplyAnswer(w))

FairSpec == Spec /\ Fairness

-----------------------------------------------------------------------------

LifecycleTypeOK ==
    /\ main \in {"loading", "starting", "serving", "draining", "awaiting",
                 "stopping", "exited", "killed"}
    /\ signalled \in BOOLEAN
    /\ exit \in {"none", "ok", "error"}
    /\ listener \in {"unopened", "open", "ended"}
    /\ shuttingDown \in BOOLEAN
    /\ serveErr \in {"none", "closed", "failed"}
    /\ request \in [Requests -> {"none", "connected", "active", "upgraded",
                                 "done", "cut", "dropped"}]
    /\ cancelled \in BOOLEAN
    /\ runner \in [Runners -> {"unstarted", "started", "waiting", "working",
                               "lookup", "applying", "returned"}]
    /\ late \in [Watchers -> 0 .. 2]

\* While the server has requests in hand, health checks, recovery and discovery
\* go on for them, through the drain as well: their context ends under a request
\* only if run is about to return an error (the order of run's defer statements).
DrainedUnderRunners ==
    \A q \in Requests : request[q] \in {"connected", "active"} =>
        /\ \A r \in Runners : runner[r] # "unstarted"
        /\ cancelled => exit = "error"

\* When run has returned, no runner is left to touch the pool; and if it has
\* returned nil, no request that the server accepted was cut off, whatever
\* raced: the signal with a failing server, Shutdown with ListenAndServe, a
\* new connection with both.  (Upgraded connections are not waited for.)
ExitIsClean ==
    main = "exited" =>
        /\ \A r \in Runners : runner[r] \in {"unstarted", "returned"}
        /\ exit = "ok" => \A q \in Requests : request[q] # "cut"

\* refresh looks at the context between the answer and Apply: a watcher applies
\* one answer at most after its context has ended.
LateAnswerIsOne == \A w \in Watchers : late[w] <= 1

\* A caught signal ends the process, though requests may never end.
Terminates == signalled ~> ~Alive

=============================================================================
