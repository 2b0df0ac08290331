--------------------------- MODULE LifecycleProofs ---------------------------
(****************************************************************************)
(* The safety of start and shutdown, for any number of requests, watchers   *)
(* and other runners.  What carries it: the runners are started before the  *)
(* listener can be open (Started), their context ends after the drain       *)
(* (Cancelling), and run returns nil only if the drain has come to its end, *)
(* after which no connection can be made (CleanExit).                       *)
(****************************************************************************)
EXTENDS Lifecycle, TLAPS

InFlight == {"connected", "active"}

\* Before the runners are started, nothing else has.
Started ==
    /\ (\E r \in Runners : runner[r] = "unstarted") =>
            /\ main \in {"loading", "exited", "killed"}
            /\ listener = "unopened"
            /\ \A q \in Requests : request[q] \notin InFlight
    /\ main = "loading" => \A r \in Runners : runner[r] = "unstarted"
    /\ main \in {"loading", "starting"} =>
            /\ listener = "unopened"
            /\ serveErr = "none"
            /\ \A q \in Requests : request[q] = "none"

\* When the runners' context has ended, serve has returned.
Cancelling ==
    /\ cancelled => main \in {"stopping", "exited", "killed"}
    /\ main = "stopping" => cancelled
    /\ main \in {"stopping", "exited", "killed"} <=> exit # "none"
    /\ main = "exited" => \A r \in Runners : runner[r] \in {"unstarted", "returned"}

\* A server that was told to stop, and only such a one, ends with ErrServerClosed.
Closing ==
    /\ main \in {"loading", "starting", "serving"} => ~shuttingDown
    /\ main \in {"draining", "awaiting"} => shuttingDown
    /\ serveErr = "closed" => shuttingDown

\* A drain that came to its end leaves nothing behind, and nothing follows it.
Quiet ==
    /\ shuttingDown
    /\ listener # "open"
    /\ \A q \in Requests : request[q] \notin InFlight \cup {"cut"}

CleanExit ==
    /\ main = "awaiting" \/ exit = "ok" => Quiet
    /\ exit = "none" => \A q \in Requests : request[q] # "cut"

\* A watcher that has applied a late answer is past its last lookup.
LateWatchers ==
    \A w \in Watchers : late[w] # 0 => late[w] = 1 /\ cancelled /\ runner[w] # "applying"

IInv ==
    /\ LifecycleTypeOK
    /\ Started
    /\ Cancelling
    /\ Closing
    /\ CleanExit
    /\ LateWatchers

LEMMA InvInit == Init => IInv
<1> SUFFICES ASSUME Init PROVE IInv
    OBVIOUS
<1> USE DEF Init, Runners
<1>1. LifecycleTypeOK
    <2>1. signalled \in BOOLEAN /\ shuttingDown \in BOOLEAN /\ cancelled \in BOOLEAN
        BY Zenon
    <2>2. /\ request \in [Requests -> {"none", "connected", "active", "upgraded",
                                      "done", "cut", "dropped"}]
          /\ runner \in [Watchers \cup Others ->
                            {"unstarted", "started", "waiting", "working",
                             "lookup", "applying", "returned"}]
          /\ late \in [Watchers -> 0 .. 2]
        OBVIOUS
    <2> QED BY <2>1, <2>2 DEF LifecycleTypeOK
<1>2. Started /\ Cancelling /\ Closing
    BY DEF Started, Cancelling, Closing, InFlight
<1>3. CleanExit /\ LateWatchers
    BY DEF CleanExit, LateWatchers, Quiet
<1> QED BY <1>1, <1>2, <1>3 DEF IInv

\* The steps of the main goroutine.
LEMMA MainInv == IInv /\ MainStep => IInv'
<1> SUFFICES ASSUME IInv, MainStep PROVE IInv'
    OBVIOUS
<1> USE DEF IInv, LifecycleTypeOK, Started, Cancelling, Closing, CleanExit, Quiet,
            LateWatchers, InFlight, Runners,
            mainVars, serverVars, runnerVars, ReturnFromServe, Result
<1>1. CASE LoadFails
    BY <1>1 DEF LoadFails
<1>2. CASE StartBackgroundRunners
    BY <1>2 DEF StartBackgroundRunners
<1>3. CASE Serve
    BY <1>3 DEF Serve
<1>4. CASE ServeFails
    BY <1>4 DEF ServeFails
<1>5. CASE BeginShutdown
    BY <1>5 DEF BeginShutdown
<1>6. CASE Drained
    BY <1>6 DEF Drained
<1>7. CASE ShutdownFails
    BY <1>7 DEF ShutdownFails
<1>8. CASE AwaitServe
    BY <1>8 DEF AwaitServe
<1>9. CASE Exit
    BY <1>9 DEF Exit, Abandoned
<1> QED
    BY <1>1, <1>2, <1>3, <1>4, <1>5, <1>6, <1>7, <1>8, <1>9 DEF MainStep

\* Signals.
LEMMA SignalInv == IInv /\ (Signal \/ Kill) => IInv'
<1> SUFFICES ASSUME IInv, Signal \/ Kill PROVE IInv'
    OBVIOUS
<1> USE DEF IInv, LifecycleTypeOK, Started, Cancelling, Closing, CleanExit, Quiet,
            LateWatchers, InFlight, Runners, mainVars, serverVars, runnerVars
<1>1. CASE Signal
    BY <1>1 DEF Signal
<1>2. CASE Kill
    BY <1>2 DEF Kill, Abandoned, Alive
<1> QED BY <1>1, <1>2

\* The server: a connection is made only while the listener is open, and that
\* is never again once a drain has come to its end.
LEMMA ServerInv == IInv /\ ServerStep => IInv'
<1> SUFFICES ASSUME IInv, ServerStep PROVE IInv'
    OBVIOUS
<1> USE DEF IInv, LifecycleTypeOK, Started, Cancelling, Closing, CleanExit, Quiet,
            LateWatchers, InFlight, Runners, mainVars, serverVars, runnerVars,
            ServeCalled, Alive
<1>1. CASE ListenRefused
    BY <1>1 DEF ListenRefused
<1>2. CASE ListenFails
    BY <1>2 DEF ListenFails
<1>3. CASE Listen
    BY <1>3 DEF Listen
<1>4. CASE AcceptFails
    BY <1>4 DEF AcceptFails
<1>5. CASE AcceptEnds
    BY <1>5 DEF AcceptEnds
<1> QED BY <1>1, <1>2, <1>3, <1>4, <1>5 DEF ServerStep

LEMMA RequestInv ==
    ASSUME NEW q \in Requests, IInv, RequestStep(q)
    PROVE  IInv'
<1> USE DEF IInv, LifecycleTypeOK, Started, Cancelling, Closing, CleanExit, Quiet,
            LateWatchers, InFlight, Runners, mainVars, serverVars, runnerVars,
            Alive, Step
<1>1. CASE Connect(q)
    BY <1>1 DEF Connect
<1>2. CASE Disconnect(q)
    BY <1>2 DEF Disconnect
<1>3. CASE BeginRequest(q)
    BY <1>3 DEF BeginRequest
<1>4. CASE Upgrade(q)
    BY <1>4 DEF Upgrade
<1>5. CASE EndRequest(q)
    BY <1>5 DEF EndRequest
<1> QED BY <1>1, <1>2, <1>3, <1>4, <1>5 DEF RequestStep

LEMMA RunnerInv ==
    ASSUME NEW r \in Runners, IInv, RunnerStep(r)
    PROVE  IInv'
<1> USE DEF IInv, LifecycleTypeOK, Started, Cancelling, Closing, CleanExit, Quiet,
            LateWatchers, InFlight, Runners, mainVars, serverVars, Alive, Advance
<1>1. CASE BeginRun(r)
    BY <1>1 DEF BeginRun
<1>2. CASE BeginWork(r)
    BY <1>2 DEF BeginWork
<1>3. CASE EndWork(r)
    BY <1>3 DEF EndWork
<1>4. CASE ReturnFromRun(r)
    BY <1>4 DEF ReturnFromRun
<1>5. CASE r \in Watchers /\ LookupEnds(r)
    BY <1>5 DEF LookupEnds
<1>6. CASE r \in Watchers /\ ApplyAnswer(r)
    BY <1>6 DEF ApplyAnswer
<1> QED BY <1>1, <1>2, <1>3, <1>4, <1>5, <1>6 DEF RunnerStep

LEMMA InvStep == IInv /\ [Next]_vars => IInv'
<1> SUFFICES ASSUME IInv, [Next]_vars PROVE IInv'
    OBVIOUS
<1>1. CASE MainStep \/ Signal \/ Kill \/ ServerStep
    BY <1>1, MainInv, SignalInv, ServerInv
<1>2. ASSUME NEW q \in Requests, RequestStep(q) PROVE IInv'
    BY <1>2, RequestInv
<1>3. ASSUME NEW r \in Runners, RunnerStep(r) PROVE IInv'
    BY <1>3, RunnerInv
<1>4. CASE UNCHANGED vars
    BY <1>4 DEF vars, mainVars, serverVars, runnerVars, IInv, LifecycleTypeOK, Started,
        Cancelling, Closing, CleanExit, Quiet, LateWatchers, InFlight, Runners
<1> QED BY <1>1, <1>2, <1>3, <1>4 DEF Next

LEMMA Invariance == Spec => []IInv
<1> QED BY InvInit, InvStep, PTL DEF Spec

\* However many runners and requests there are, no request is served without
\* all runners, before the drain is over or has failed.
THEOREM AlwaysDrainedUnderRunners == Spec => []DrainedUnderRunners
<1>1. IInv => DrainedUnderRunners
    BY DEF IInv, Started, Cancelling, CleanExit, Quiet, LifecycleTypeOK, InFlight,
        DrainedUnderRunners
<1> QED BY <1>1, Invariance, PTL

\* run leaves no runner behind, and returns nil only if nothing was cut off.
THEOREM ExitIsAlwaysClean == Spec => []ExitIsClean
<1>1. IInv => ExitIsClean
    BY DEF IInv, Cancelling, CleanExit, Quiet, ExitIsClean
<1> QED BY <1>1, Invariance, PTL

\* No watcher applies two answers after its context has ended.
THEOREM LateAnswerIsAlwaysOne == Spec => []LateAnswerIsOne
<1>1. IInv => LateAnswerIsOne
    BY DEF IInv, LateWatchers, LifecycleTypeOK, LateAnswerIsOne
<1> QED BY <1>1, Invariance, PTL

=============================================================================
