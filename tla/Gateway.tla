------------------------------ MODULE Gateway ------------------------------
(****************************************************************************)
(* A request's way through the gateway handler (internal/gateway), with the *)
(* request-ID middleware around it, the router inside and, below, what      *)
(* routeRuntimeFromRoutes (cmd/devgate/handlers.go) installs for a route:   *)
(* rate limit, body limit, prefix stripping, and then the reverse proxy, a  *)
(* direct response or a redirect.  What can be written is written through   *)
(* responseWriter, which decides what the metrics say and whether a panic   *)
(* can still be answered.                                                   *)
(*                                                                          *)
(* Requests share nothing here but the routes, which do not change, so it   *)
(* is one request at a time.  How the reverse proxy comes by an answer is   *)
(* ProxyHandler's and UpstreamCall's subject.  Left out are connections     *)
(* that the reverse proxy takes over after 101 Switching Protocols.         *)
(****************************************************************************)
EXTENDS Router

CONSTANTS
    Methods,              \* of requests, and in the routes' conditions
    UpstreamStatuses      \* what upstreams answer with

ASSUME GatewayAssumption ==
    /\ \A route \in Routes : route.methods \subseteq Methods
    /\ \A req \in Requests : req.method \in Methods
    /\ UpstreamStatuses \subseteq 200 .. 599
    /\ \A route \in Routes : route.status \in 200 .. 599

VARIABLES
    stage,        \* where the request is
    response,     \* the responseWriter, and the status the client was sent
    allow,        \* the methods in the Allow header
    panicValue,   \* what the handler panics with
    recorded,     \* the status in the metrics, 0 for none
    decided,      \* history: the status the client is meant to get
    whole,        \* history: it was written to the end, and nothing else was
    informed      \* history: a 1xx response has been forwarded

answerVars == <<response, allow, decided, whole>>
vars == <<routerVars, answerVars, stage, panicValue, recorded, informed>>

-----------------------------------------------------------------------------

Fresh == [wroteHeader |-> FALSE, statusCode |-> 200, sent |-> 0]

\* http.ResponseWriter of net/http: the first status that is not 1xx is sent,
\* and 200 if there is none by the first byte or the return of the handler.
SendStatus(sent, status) ==
    IF sent = 0 /\ status >= 200 THEN status ELSE sent

\* Mutant: it is not noted that a header has been written.
WriteHeaderUnnoted(resp, status) ==
    [resp EXCEPT !.statusCode = status, !.sent = SendStatus(@, status)]

\* responseWriter.WriteHeader: the first call counts.
WriteHeader(resp, status) ==
    IF resp.wroteHeader
    THEN resp
    ELSE [wroteHeader |-> TRUE, statusCode |-> status,
          sent |-> SendStatus(resp.sent, status)]

\* responseWriter.Write: 200, unless there is a status.
Write(resp) ==
    LET headed == IF resp.wroteHeader THEN resp ELSE WriteHeader(resp, 200)
    IN  [headed EXCEPT !.sent = SendStatus(@, 200)]

Init ==
    /\ RouterInit
    /\ stage = "idle"
    /\ response = Fresh
    /\ allow = {}
    /\ panicValue = "none"
    /\ recorded = 0
    /\ decided = 0
    /\ whole = FALSE
    /\ informed = FALSE

Goto(s) == stage' = s

\* An answer that is written in one go, body included.
Answer(status) ==
    /\ Goto("returned")
    /\ response' = Write(WriteHeader(response, status))
    /\ decided' = status
    /\ whole' = (decided = 0)

-----------------------------------------------------------------------------

\* The middleware has generated an ID: the gateway takes the request.
ServeHTTP(req) ==
    /\ stage = "idle"
    /\ StartMatch(req)
    /\ Goto("matching")
    /\ UNCHANGED <<answerVars, panicValue, recorded, informed>>

\* It could not generate one, and answers past the gateway and its metrics.
FailRequestID(req) ==
    /\ stage = "idle"
    /\ StartMatch(req)
    /\ Goto("answered")
    /\ response' = [response EXCEPT !.sent = SendStatus(@, 500)]
    /\ decided' = 500
    /\ whole' = TRUE
    /\ UNCHANGED <<allow, panicValue, recorded, informed>>

MatchRoute ==
    /\ stage = "matching"
    /\ ScanRoute
    /\ UNCHANGED <<answerVars, stage, panicValue, recorded, informed>>

\* routeRouter.Match has returned without a route.
Unmatched ==
    /\ stage = "matching"
    /\ Scanned
    /\ best = 0
    /\ allow' = AllowedMethods(request)
    /\ UNCHANGED <<routerVars, panicValue, recorded, informed>>

AnswerMethodNotAllowed ==
    Unmatched /\ AllowedMethods(request) # {} /\ Answer(405)

AnswerNotFound == Unmatched /\ AllowedMethods(request) = {} /\ Answer(404)

InRoute == UNCHANGED <<routerVars, allow, panicValue, recorded>>

\* ... or with one, whose handler is called.
CallRouteHandler ==
    /\ stage = "matching"
    /\ Scanned
    /\ best # 0
    /\ Goto("handling")
    /\ UNCHANGED <<response, decided, whole, informed>>
    /\ InRoute

Applies(policy) == stage = "handling" /\ policy \in routes[best].policies

\* ratelimit.Middleware rejects the request.
RejectByRateLimit ==
    /\ Applies("rate_limit")
    /\ Answer(429)
    /\ UNCHANGED informed
    /\ InRoute

\* requestbodylimit knows the body to be too large.
RejectByBodyLimit ==
    /\ Applies("body_limit")
    /\ Answer(413)
    /\ UNCHANGED informed
    /\ InRoute

\* http.StripPrefix, not installed for "/", finds the prefix in the path, but
\* not in its escaped form.
FailStripPrefix ==
    /\ Applies("strip_path_prefix")
    /\ routes[best].path # Root
    /\ request.escaped
    /\ Answer(404)
    /\ UNCHANGED informed
    /\ InRoute

\* The handlers of routes without an upstream answer at once.
AnswerStatically(action) ==
    /\ stage = "handling"
    /\ routes[best].action = action
    /\ Answer(routes[best].status)
    /\ UNCHANGED informed
    /\ InRoute

RespondDirectly == AnswerStatically("direct_response")

Redirect == AnswerStatically("redirect")

\* Every policy lets the request pass to the proxy.
CallProxy ==
    /\ stage = "handling"
    /\ routes[best].action = "upstream"
    /\ ~(Applies("strip_path_prefix") /\ routes[best].path # Root
            /\ request.escaped)
    /\ Goto("proxying")
    /\ UNCHANGED <<response, decided, whole, informed>>
    /\ InRoute

\* statusCodeForProxyError: 413 for a body that is read beyond the limit.
ProxyStatuses ==
    {502, 503, 504} \cup
    (IF "body_limit" \in routes[best].policies THEN {413} ELSE {})

\* handleProxyError
AnswerProxyError(status) ==
    /\ stage = "proxying"
    /\ status \in ProxyStatuses
    /\ Answer(status)
    /\ UNCHANGED informed
    /\ InRoute

\* httputil.ReverseProxy forwards a 1xx response that precedes the answer.
Inform ==
    /\ stage = "proxying"
    /\ response' = WriteHeader(response, 103)
    /\ informed' = TRUE
    /\ UNCHANGED <<stage, decided, whole>>
    /\ InRoute

\* ... and the answer's status and header, before its body.
ForwardHeader(status) ==
    /\ stage = "proxying"
    /\ response' = WriteHeader(response, status)
    /\ decided' = status
    /\ Goto("copying")
    /\ UNCHANGED <<whole, informed>>
    /\ InRoute

\* ReverseProxy has copied the body, and returns ...
CopyBody ==
    /\ stage = "copying"
    /\ response' = Write(response)
    /\ whole' = TRUE
    /\ Goto("returned")
    /\ UNCHANGED <<decided, informed>>
    /\ InRoute

Panic(value) ==
    /\ panicValue' = value
    /\ Goto("panicking")
    /\ UNCHANGED <<routerVars, answerVars, recorded, informed>>

\* ... or could not, which it tells the server by http.ErrAbortHandler.
FailCopy == stage = "copying" /\ Panic("abort_handler")

\* Something in the handler panics by mistake.
PanicInHandler ==
    /\ stage \in {"handling", "proxying", "copying"}
    /\ Panic("error")

Leave == UNCHANGED <<routerVars, allow, panicValue, informed>>

\* The deferred functions run, and the server ends a response that is over ...
Finish ==
    /\ stage = "returned"
    /\ recorded' = response.statusCode
    /\ response' = [response EXCEPT !.sent = SendStatus(@, 200)]
    /\ Goto("answered")
    /\ UNCHANGED <<decided, whole>>
    /\ Leave

\* Mutant: recoverPanic answers whatever has been written before.
MustAbortWhenTold == panicValue = "abort_handler"

MustAbort == panicValue = "abort_handler" \/ response.wroteHeader

\* recoverPanic panics again when told to, or when part of a response has been
\* written, and the server closes the connection.
Abort ==
    /\ stage = "panicking"
    /\ MustAbort
    /\ recorded' = response.statusCode
    /\ Goto("aborted")
    /\ UNCHANGED <<response, decided, whole>>
    /\ Leave

\* recoverPanic answers a panic before any header.
AnswerPanic ==
    /\ stage = "panicking"
    /\ ~MustAbort
    /\ Answer(500)
    /\ UNCHANGED recorded
    /\ Leave

\* What belongs to the request goes with it.
EndRequest ==
    /\ stage \in {"answered", "aborted"}
    /\ Goto("idle")
    /\ request' = NoRequest
    /\ response' = Fresh
    /\ allow' = {}
    /\ panicValue' = "none"
    /\ recorded' = 0
    /\ decided' = 0
    /\ whole' = FALSE
    /\ informed' = FALSE
    /\ UNCHANGED <<routes, scanned, best>>

Next ==
    \/ \E req \in Requests : ServeHTTP(req) \/ FailRequestID(req)
    \/ MatchRoute
    \/ AnswerMethodNotAllowed \/ AnswerNotFound
    \/ CallRouteHandler
    \/ RejectByRateLimit \/ RejectByBodyLimit \/ FailStripPrefix
    \/ RespondDirectly \/ Redirect
    \/ CallProxy \/ Inform \/ CopyBody
    \/ \E status \in {413, 502, 503, 504} : AnswerProxyError(status)
    \/ \E status \in UpstreamStatuses : ForwardHeader(status)
    \/ FailCopy \/ PanicInHandler
    \/ Finish \/ Abort \/ AnswerPanic
    \/ EndRequest

Spec == Init /\ [][Next]_vars

-----------------------------------------------------------------------------

Sent == {0} \cup 200 .. 599

Responses == [wroteHeader : BOOLEAN, statusCode : 100 .. 599, sent : Sent]

Stages == {"idle", "matching", "handling", "proxying", "copying", "panicking",
           "returned", "answered", "aborted"}

\* Every variable is what it is declared as, and the best match is a route that
\* the loop in Match has come past for this request.
GatewayTypeOK ==
    /\ routes \in Configurations
    /\ request \in Requests \cup {NoRequest}
    /\ scanned \in 0 .. Len(routes)
    /\ best \in 0 .. scanned
    /\ stage \in Stages
    /\ response \in Responses
    /\ allow \subseteq Methods
    /\ panicValue \in {"none", "abort_handler", "error"}
    /\ recorded \in 0 .. 599
    /\ decided \in 0 .. 599
    /\ whole \in BOOLEAN
    /\ informed \in BOOLEAN

\* The answer to a request without a route tells the truth: 405 goes with the
\* methods that would have found a route for the same request, all of them and
\* no others, and 404 says that no method would have.  Match and AllowedMethods
\* work this out in two separate passes over the routes (router.go:63, 116).
AllowIsTruthful ==
    stage = "answered" /\ Scanned /\ best = 0 =>
        /\ decided = IF allow = {} THEN 404 ELSE 405
        /\ allow = {method \in Methods :
                \E i \in DOMAIN routes :
                    Matches(routes[i], [request EXCEPT !.method = method])}

\* Unless a 1xx response was forwarded before, the status that reaches the
\* client is the one that the gateway, or the route, has decided on (500 for a
\* panic that comes before any header, README.md:350), and the metrics tell of
\* the status that was sent, also when the connection is closed in the middle
\* of the response.
StatusIsDecided ==
    ~informed =>
        /\ stage = "answered" => response.sent = decided
        /\ recorded # 0 /\ response.sent # 0 => recorded = response.sent

\* A response that a panic has cut short, or that two answers were mixed in, is
\* never passed off as a complete one: the connection is closed instead.
CutShortIsAborted == stage = "answered" => whole

\* "Global responses support 404, 405, and 500. They cover ... recovered panics"
\* and "Route responses support 413, 429, 502, 503, and 504" (README.md:350,
\* 381): an error that is answered reaches the client as that error.
ErrorsReachClient ==
    stage = "answered" /\ decided >= 400 => response.sent = decided

=============================================================================
