--------------------------- MODULE GatewayProofs ---------------------------
(****************************************************************************)
(* Proofs about the router and the gateway, for every set of routes, every  *)
(* configuration, and every request.                                        *)
(****************************************************************************)
EXTENDS Gateway, TLAPS

-----------------------------------------------------------------------------
(* Two routes that match one request.                                       *)

\* Prefixes of one path that are equally long are the same.
LEMMA PrefixesOfOnePath ==
    ASSUME NEW p \in Seq(STRING), NEW q \in Seq(STRING), NEW path \in Seq(STRING),
           HasPathPrefix(path, p), HasPathPrefix(path, q), Len(p) = Len(q)
    PROVE  p = q
<1>1. \A k \in 1 .. Len(p) : p[k] = q[k]
    BY DEF HasPathPrefix
<1> QED
    BY <1>1

\* Two valid routes that match a request with paths of one length and of one
\* kind have the same path matcher.
LEMMA SamePathMatcher ==
    ASSUME NEW a \in Routes, NEW b \in Routes, NEW req \in Requests,
           ValidPath(a), ValidPath(b), Matches(a, req), Matches(b, req),
           PathLength(a) = PathLength(b), a.exact = b.exact
    PROVE  PathMatchKey(a) = PathMatchKey(b)
<1>1. /\ a.path \in Seq(STRING) /\ b.path \in Seq(STRING)
      /\ req.path \in Seq(STRING)
      /\ a.exact \in BOOLEAN
    BY RouterAssumption
<1>2. Len(a.path) > 0 /\ Len(b.path) > 0
    BY DEF ValidPath
<1>3. MatchesPath(a, req.path) /\ MatchesPath(b, req.path)
    BY DEF Matches, MatchesBesidesMethod
<1>4. a.path = b.path
    <2>1. CASE a.exact
        BY <2>1, <1>3 DEF MatchesPath
    <2>2. CASE ~a.exact /\ a.path = Root
        BY <2>2, <1>1, <1>2 DEF PathLength
    <2>3. CASE ~a.exact /\ b.path = Root
        BY <2>3, <1>1, <1>2 DEF PathLength
    <2>4. CASE ~a.exact /\ a.path # Root /\ b.path # Root
        <3>1. /\ HasPathPrefix(req.path, a.path)
              /\ HasPathPrefix(req.path, b.path)
            BY <2>4, <1>3 DEF MatchesPath
        <3>2. Len(a.path) = Len(b.path)
            BY <2>4 DEF PathLength
        <3> QED
            BY <3>1, <3>2, <1>1, PrefixesOfOnePath
    <2> QED
        BY <2>1, <2>2, <2>3, <2>4, <1>1
<1> QED
    BY <1>4 DEF PathMatchKey

\* Conditions that one request meets overlap.
LEMMA ConditionsOverlap ==
    ASSUME NEW a, NEW b, NEW req, Matches(a, req), Matches(b, req)
    PROVE  /\ SetsOverlap(a.methods, b.methods)
           /\ SetsOverlap(a.hosts, b.hosts)
           /\ HeaderMatchSetsOverlap(a.headers, b.headers)
<1>1. SetsOverlap(a.methods, b.methods)
    BY DEF Matches, MatchesMethod, SetsOverlap
<1>2. SetsOverlap(a.hosts, b.hosts)
    BY DEF Matches, MatchesBesidesMethod, MatchesHost, SetsOverlap
<1>3. ASSUME NEW name \in DOMAIN a.headers \cap DOMAIN b.headers
      PROVE  a.headers[name] = b.headers[name]
    <2>1. <<a.headers[name]>> = <<b.headers[name]>>
        BY DEF Matches, MatchesBesidesMethod, MatchesHeaders
    <2> QED
        BY <2>1
<1> QED
    BY <1>1, <1>2, <1>3 DEF HeaderMatchSetsOverlap

\* Of two routes that New accepts side by side and that match one request, one
\* is better.
LEMMA OneIsBetter ==
    ASSUME NEW config \in Seq(Routes), Accepted(config),
           NEW i \in DOMAIN config, NEW j \in DOMAIN config, i # j,
           NEW req \in Requests, Matches(config[i], req), Matches(config[j], req)
    PROVE  Better(config[i], config[j]) \/ Better(config[j], config[i])
<1> DEFINE a == config[i]
           b == config[j]
<1>1. /\ a \in Routes /\ b \in Routes
      /\ i \in Nat /\ j \in Nat
    OBVIOUS
<1>2. /\ a.exact \in BOOLEAN /\ b.exact \in BOOLEAN
      /\ a.priority \in Int /\ b.priority \in Int
      /\ a.path \in Seq(STRING) /\ b.path \in Seq(STRING)
    BY <1>1, RouterAssumption
<1>3. PathLength(a) \in Nat /\ PathLength(b) \in Nat
    BY <1>2 DEF PathLength
<1>4. ValidPath(a) /\ ValidPath(b)
    BY DEF Accepted
<1>5. ~Conflict(a, b) \/ ~Conflict(b, a)
    <2>1. i < j \/ j < i
        BY <1>1
    <2> QED
        BY <2>1 DEF Accepted
<1>6. CASE PathLength(a) = PathLength(b) /\ a.exact = b.exact
    <2>1. PathMatchKey(a) = PathMatchKey(b)
        BY <1>6, <1>1, <1>4, SamePathMatcher
    <2>2. a.priority # b.priority
        BY <2>1, <1>5, ConditionsOverlap DEF Conflict
    <2> QED
        BY <2>2, <1>6, <1>2 DEF Better
<1>7. CASE ~(PathLength(a) = PathLength(b) /\ a.exact = b.exact)
    BY <1>7, <1>2, <1>3 DEF Better
<1> QED
    BY <1>6, <1>7

LEMMA BetterTransitive ==
    ASSUME NEW a \in Routes, NEW b \in Routes, NEW c \in Routes,
           Better(a, b), Better(b, c)
    PROVE  Better(a, c)
<1>1. \A r \in {a, b, c} :
        /\ r.exact \in BOOLEAN
        /\ r.priority \in Int
        /\ PathLength(r) \in Nat
    BY RouterAssumption DEF PathLength
<1>2. /\ a.exact \in BOOLEAN /\ b.exact \in BOOLEAN /\ c.exact \in BOOLEAN
      /\ a.priority \in Int /\ b.priority \in Int /\ c.priority \in Int
      /\ PathLength(a) \in Nat /\ PathLength(b) \in Nat /\ PathLength(c) \in Nat
    BY <1>1
<1> QED
    BY <1>2 DEF Better

\* What is better in the code's order takes precedence in the documentation's.
LEMMA BetterPrecedes ==
    ASSUME NEW a \in Routes, NEW b \in Routes, NEW req \in Requests,
           ValidPath(a), ValidPath(b), Matches(a, req), Matches(b, req),
           Better(a, b)
    PROVE  Precedes(a, b)
BY SamePathMatcher DEF Better, Precedes

-----------------------------------------------------------------------------
(* The inductive invariant.  Gateway.tla's properties speak of a request    *)
(* that has been matched or answered; these say how it gets there.          *)

\* The best of the routes that Match has come past.
BestSoFar ==
    request # NoRequest =>
        /\ best = 0 => \A i \in 1 .. scanned : ~Matches(routes[i], request)
        /\ best # 0 =>
            /\ Matches(routes[best], request)
            /\ \A i \in 1 .. scanned :
                i # best /\ Matches(routes[i], request) =>
                    Better(routes[best], routes[i])

\* Which stages have a request, and which a route.
StagesMatch ==
    /\ stage = "idle" <=> request = NoRequest
    /\ stage \in {"handling", "proxying", "copying", "panicking"} =>
            Scanned /\ best # 0

InStep ==
    /\ decided # 0
    /\ ~informed => response.sent = decided /\ response.statusCode = decided

\* How far the response is, stage by stage.
ResponseMatchesStage ==
    /\ stage \in {"idle", "matching", "handling"} =>
            response = Fresh /\ decided = 0 /\ ~informed
    /\ stage = "proxying" =>
            /\ decided = 0
            /\ response = Fresh \/ (response.wroteHeader /\ informed)
    /\ stage = "copying" => response.wroteHeader /\ InStep
    /\ stage = "panicking" =>
            IF response.wroteHeader
            THEN ~informed => response.sent = response.statusCode
            ELSE response = Fresh /\ decided = 0
    /\ stage = "returned" => whole /\ response.wroteHeader /\ InStep
    /\ stage \notin {"answered", "aborted"} => recorded = 0

\* What a request without a route is answered.
AnswerMatchesAllow ==
    stage \in {"returned", "answered"} /\ Scanned /\ best = 0 =>
        /\ allow = AllowedMethods(request)
        /\ decided = IF allow = {} THEN 404 ELSE 405

IInv ==
    /\ GatewayTypeOK
    /\ Accepted(routes)
    /\ BestSoFar
    /\ StagesMatch
    /\ ResponseMatchesStage
    /\ AnswerMatchesAllow
    /\ StatusIsDecided
    /\ CutShortIsAborted

-----------------------------------------------------------------------------
(* The response writer.                                                     *)

\* What net/http does with a response when it is given a status.
Sending(resp, status) == [resp EXCEPT !.sent = SendStatus(@, status)]

LEMMA SendTypes ==
    ASSUME NEW resp \in Responses, NEW status \in 100 .. 599
    PROVE  Sending(resp, status) \in Responses
<1>1. SendStatus(resp.sent, status) \in Sent
    BY DEF SendStatus, Responses, Sent
<1> QED
    BY <1>1 DEF Sending, Responses

LEMMA HeaderTypes ==
    ASSUME NEW resp \in Responses, NEW status \in 100 .. 599
    PROVE  WriteHeader(resp, status) \in Responses
<1>1. SendStatus(resp.sent, status) \in Sent
    BY DEF SendStatus, Responses, Sent
<1> QED
    BY <1>1 DEF WriteHeader, Responses

LEMMA BodyTypes ==
    ASSUME NEW resp \in Responses
    PROVE  Write(resp) \in Responses
<1>1. 200 \in 100 .. 599
    OBVIOUS
<1>2. WriteHeader(resp, 200) \in Responses
    BY <1>1, HeaderTypes
<1> DEFINE headed == IF resp.wroteHeader THEN resp ELSE WriteHeader(resp, 200)
<1>3. headed \in Responses
    BY <1>2
<1> HIDE DEF headed
<1>4. Sending(headed, 200) \in Responses
    BY <1>1, <1>3, SendTypes
<1>5. Write(resp) = Sending(headed, 200)
    BY DEF Write, Sending, headed
<1> QED
    BY <1>4, <1>5

\* An answer written to a fresh response is sent as it is.
LEMMA FreshAnswer ==
    ASSUME NEW status \in 200 .. 599
    PROVE  Write(WriteHeader(Fresh, status)) =
                [wroteHeader |-> TRUE, statusCode |-> status, sent |-> status]
<1> DEFINE headed ==
        [wroteHeader |-> TRUE, statusCode |-> status, sent |-> status]
<1>1. status >= 200 /\ status # 0
    OBVIOUS
<1>2. SendStatus(0, status) = status /\ SendStatus(status, 200) = status
    BY <1>1 DEF SendStatus
<1>3. WriteHeader(Fresh, status) = headed
    BY <1>2 DEF WriteHeader, Fresh
<1>4. Write(headed) = [headed EXCEPT !.sent = SendStatus(status, 200)]
    BY DEF Write
<1>5. Write(headed) =
        [wroteHeader |-> TRUE, statusCode |-> status,
         sent |-> SendStatus(status, 200)]
    BY <1>4
<1> QED
    BY <1>2, <1>3, <1>5

\* Writing the body changes nothing about a header that has been written.
LEMMA WriteKeepsHeader ==
    ASSUME NEW resp \in Responses, resp.wroteHeader
    PROVE  /\ Write(resp).wroteHeader
           /\ Write(resp).statusCode = resp.statusCode
           /\ resp.sent # 0 => Write(resp).sent = resp.sent
           /\ \A status \in 100 .. 599 : WriteHeader(resp, status) = resp
BY DEF Write, WriteHeader, SendStatus, Responses

-----------------------------------------------------------------------------
(* The steps that answer in one go, by the stage they start from.           *)

USE DEF Goto, InRoute, Leave, answerVars, routerVars, vars

RouteAnswers ==
    \E status \in 200 .. 599 :
        /\ stage \in {"handling", "proxying"}
        /\ Answer(status)
        /\ UNCHANGED informed
        /\ InRoute

UnmatchedAnswers ==
    \E status \in {404, 405} :
        /\ Unmatched
        /\ status = IF AllowedMethods(request) = {} THEN 404 ELSE 405
        /\ Answer(status)

LEMMA ConfigurationTypes ==
    ASSUME IInv
    PROVE  /\ routes \in Seq(Routes)
           /\ Len(routes) \in Nat /\ Len(routes) > 0
           /\ scanned \in Nat /\ best \in Nat
           /\ stage \in {"handling", "proxying"} => best \in DOMAIN routes
           /\ response \in Responses
<1>1. /\ routes \in Configurations /\ routes # <<>>
      /\ scanned \in 0 .. Len(routes) /\ best \in 0 .. scanned
      /\ response \in Responses
      /\ stage \in {"handling", "proxying"} => best # 0
    BY DEF IInv, GatewayTypeOK, Accepted, StagesMatch
<1>2. routes \in Seq(Routes)
    BY <1>1, RouterAssumption
<1>3. Len(routes) \in Nat /\ Len(routes) > 0
    BY <1>1, <1>2
<1> QED
    BY <1>1, <1>2, <1>3

LEMMA RoutesAreRoutes ==
    ASSUME IInv
    PROVE  \A i \in DOMAIN routes : routes[i] \in Routes
BY ConfigurationTypes

LEMMA RouteAnswerSteps ==
    ASSUME IInv,
           \/ RejectByRateLimit \/ RejectByBodyLimit \/ FailStripPrefix
           \/ RespondDirectly \/ Redirect
           \/ \E status \in {413, 502, 503, 504} : AnswerProxyError(status)
    PROVE  RouteAnswers
<1>1. CASE RejectByRateLimit
    BY <1>1 DEF RejectByRateLimit, Applies, RouteAnswers
<1>2. CASE RejectByBodyLimit
    BY <1>2 DEF RejectByBodyLimit, Applies, RouteAnswers
<1>3. CASE FailStripPrefix
    BY <1>3 DEF FailStripPrefix, Applies, RouteAnswers
<1>4. CASE RespondDirectly \/ Redirect
    <2>1. stage = "handling"
        BY <1>4 DEF RespondDirectly, Redirect, AnswerStatically
    <2>2. routes[best] \in Routes
        BY <2>1, ConfigurationTypes
    <2>3. routes[best].status \in 200 .. 599
        BY <2>2, GatewayAssumption
    <2> QED
        BY <1>4, <2>3 DEF RespondDirectly, Redirect, AnswerStatically, RouteAnswers
<1>5. CASE \E status \in {413, 502, 503, 504} : AnswerProxyError(status)
    <2>1. PICK status \in {413, 502, 503, 504} : AnswerProxyError(status)
        BY <1>5
    <2>2. status \in 200 .. 599
        OBVIOUS
    <2> QED
        BY <2>1, <2>2 DEF AnswerProxyError, RouteAnswers
<1> QED
    BY <1>1, <1>2, <1>3, <1>4, <1>5

LEMMA UnmatchedAnswerSteps ==
    ASSUME AnswerMethodNotAllowed \/ AnswerNotFound
    PROVE  UnmatchedAnswers
BY DEF AnswerMethodNotAllowed, AnswerNotFound, UnmatchedAnswers

LEMMA AnswerTypes ==
    ASSUME response \in Responses, NEW status \in 200 .. 599, Answer(status)
    PROVE  /\ response' \in Responses
           /\ stage' = "returned"
           /\ decided' \in 0 .. 599
           /\ whole' \in BOOLEAN
<1>1. status \in 100 .. 599 /\ status \in 0 .. 599
    OBVIOUS
<1>2. WriteHeader(response, status) \in Responses
    BY <1>1, HeaderTypes
<1>3. Write(WriteHeader(response, status)) \in Responses
    BY <1>2, BodyTypes
<1>4. /\ response' = Write(WriteHeader(response, status))
      /\ stage' = "returned"
      /\ decided' = status
      /\ whole' = (decided = 0)
    BY DEF Answer
<1> QED
    BY <1>1, <1>3, <1>4

\* The steps of the gateway, with those that answer in one go put together.
LEMMA Steps ==
    ASSUME IInv, [Next]_vars
    PROVE  \/ \E req \in Requests : ServeHTTP(req) \/ FailRequestID(req)
           \/ MatchRoute \/ CallRouteHandler
           \/ UnmatchedAnswers \/ RouteAnswers \/ AnswerPanic
           \/ CallProxy \/ Inform \/ CopyBody
           \/ \E status \in UpstreamStatuses : ForwardHeader(status)
           \/ FailCopy \/ PanicInHandler
           \/ Finish \/ Abort \/ EndRequest
           \/ UNCHANGED vars
BY RouteAnswerSteps, UnmatchedAnswerSteps DEF Next

-----------------------------------------------------------------------------
(* Every step preserves the types.                                          *)

LEMMA RoutesStay ==
    ASSUME IInv, [Next]_vars
    PROVE  routes' = routes
BY Steps
DEF ServeHTTP, FailRequestID, StartMatch, MatchRoute, ScanRoute,
    CallRouteHandler, UnmatchedAnswers, Unmatched, RouteAnswers, AnswerPanic,
    CallProxy, Inform, CopyBody, ForwardHeader, FailCopy, PanicInHandler, Panic,
    Finish, Abort, EndRequest

\* What is left to show of a step that does not match.
LEMMA TypeKept ==
    ASSUME IInv, UNCHANGED routerVars,
           stage' \in Stages, response' \in Responses, allow' \subseteq Methods,
           panicValue' \in {"none", "abort_handler", "error"},
           recorded' \in 0 .. 599, decided' \in 0 .. 599,
           whole' \in BOOLEAN, informed' \in BOOLEAN
    PROVE  GatewayTypeOK'
BY DEF IInv, GatewayTypeOK

LEMMA TypeStep ==
    ASSUME IInv, [Next]_vars
    PROVE  GatewayTypeOK'
<1>0. GatewayTypeOK /\ response \in Responses /\ Len(routes) \in Nat
    BY ConfigurationTypes DEF IInv
<1>1. ASSUME NEW req \in Requests, ServeHTTP(req)
      PROVE  GatewayTypeOK'
    BY <1>0, <1>1 DEF ServeHTTP, StartMatch, GatewayTypeOK, Stages
<1>2. ASSUME NEW req \in Requests, FailRequestID(req)
      PROVE  GatewayTypeOK'
    <2>1. 500 \in 100 .. 599 /\ 500 \in 0 .. 599
        OBVIOUS
    <2>2. response' = Sending(response, 500)
        BY <1>2 DEF FailRequestID, Sending
    <2>3. response' \in Responses
        BY <2>1, <2>2, <1>0, SendTypes
    <2> QED
        BY <2>1, <2>3, <1>0, <1>2
        DEF FailRequestID, StartMatch, GatewayTypeOK, Stages
<1>3. CASE MatchRoute
    <2>1. scanned' \in 0 .. Len(routes) /\ best' \in 0 .. scanned'
        BY <1>0, <1>3 DEF MatchRoute, ScanRoute, GatewayTypeOK
    <2> QED
        BY <2>1, <1>0, <1>3 DEF MatchRoute, ScanRoute, GatewayTypeOK
<1>4. CASE CallRouteHandler \/ CallProxy
    <2>1. stage' \in Stages
        BY <1>4 DEF CallRouteHandler, CallProxy, Stages
    <2>2. UNCHANGED <<routerVars, answerVars, panicValue, recorded, informed>>
        BY <1>4 DEF CallRouteHandler, CallProxy
    <2> QED
        BY <2>1, <2>2, <1>0, TypeKept DEF GatewayTypeOK
<1>5. CASE UnmatchedAnswers
    <2>1. PICK status \in {404, 405} : Unmatched /\ Answer(status)
        BY <1>5 DEF UnmatchedAnswers
    <2>2. status \in 200 .. 599
        OBVIOUS
    <2>3. AllowedMethods(request) \subseteq Methods
        <3>1. \A i \in DOMAIN routes : routes[i].methods \subseteq Methods
            BY ConfigurationTypes, GatewayAssumption
        <3> QED
            BY <3>1 DEF AllowedMethods
    <2>4. /\ response' \in Responses /\ stage' = "returned"
          /\ decided' \in 0 .. 599 /\ whole' \in BOOLEAN
        BY <2>1, <2>2, <1>0, AnswerTypes
    <2>5. /\ UNCHANGED <<routerVars, panicValue, recorded, informed>>
          /\ allow' \subseteq Methods
        BY <2>1, <2>3 DEF Unmatched
    <2> QED
        BY <2>4, <2>5, <1>0, TypeKept DEF GatewayTypeOK, Stages
<1>6. CASE RouteAnswers
    <2>1. PICK status \in 200 .. 599 :
            Answer(status) /\ UNCHANGED informed /\ InRoute
        BY <1>6 DEF RouteAnswers
    <2>2. /\ response' \in Responses /\ stage' = "returned"
          /\ decided' \in 0 .. 599 /\ whole' \in BOOLEAN
        BY <2>1, <1>0, AnswerTypes
    <2> QED
        BY <2>1, <2>2, <1>0, TypeKept DEF GatewayTypeOK, Stages
<1>7. CASE AnswerPanic
    <2>1. 500 \in 200 .. 599
        OBVIOUS
    <2>2. Answer(500) /\ UNCHANGED <<routerVars, allow, panicValue, informed, recorded>>
        BY <1>7 DEF AnswerPanic
    <2>3. /\ response' \in Responses /\ stage' = "returned"
          /\ decided' \in 0 .. 599 /\ whole' \in BOOLEAN
        BY <2>1, <2>2, <1>0, AnswerTypes
    <2> QED
        BY <2>2, <2>3, <1>0, TypeKept DEF GatewayTypeOK, Stages
<1>8. CASE Inform
    <2>1. 103 \in 100 .. 599
        OBVIOUS
    <2>2. /\ response' = WriteHeader(response, 103)
          /\ informed' \in BOOLEAN
          /\ UNCHANGED <<routerVars, allow, panicValue, recorded, stage, decided, whole>>
        BY <1>8 DEF Inform
    <2>3. response' \in Responses
        BY <2>1, <2>2, <1>0, HeaderTypes
    <2> QED
        BY <2>2, <2>3, <1>0, TypeKept DEF GatewayTypeOK
<1>9. ASSUME NEW status \in UpstreamStatuses, ForwardHeader(status)
      PROVE  GatewayTypeOK'
    <2>1. status \in 200 .. 599
        BY GatewayAssumption
    <2>2. status \in 100 .. 599 /\ status \in 0 .. 599
        BY <2>1
    <2>3. /\ response' = WriteHeader(response, status)
          /\ decided' = status
          /\ stage' = "copying"
          /\ UNCHANGED <<routerVars, allow, panicValue, recorded, whole, informed>>
        BY <1>9 DEF ForwardHeader
    <2>4. response' \in Responses
        BY <2>2, <2>3, <1>0, HeaderTypes
    <2> QED
        BY <2>2, <2>3, <2>4, <1>0, TypeKept DEF GatewayTypeOK, Stages
<1>10. CASE CopyBody
    <2>1. /\ response' = Write(response)
          /\ whole' = TRUE
          /\ stage' = "returned"
          /\ UNCHANGED <<routerVars, allow, panicValue, recorded, decided, informed>>
        BY <1>10 DEF CopyBody
    <2>2. response' \in Responses
        BY <2>1, <1>0, BodyTypes
    <2> QED
        BY <2>1, <2>2, <1>0, TypeKept DEF GatewayTypeOK, Stages
<1>11. CASE FailCopy \/ PanicInHandler
    <2>1. /\ panicValue' \in {"none", "abort_handler", "error"}
          /\ stage' = "panicking"
          /\ UNCHANGED <<routerVars, answerVars, recorded, informed>>
        BY <1>11 DEF FailCopy, PanicInHandler, Panic
    <2> QED
        BY <2>1, <1>0, TypeKept DEF GatewayTypeOK, Stages
<1>12. CASE Finish \/ Abort
    <2>1. 200 \in 100 .. 599
        OBVIOUS
    <2>2. /\ response' = Sending(response, 200) \/ response' = response
          /\ recorded' = response.statusCode
        BY <1>12 DEF Finish, Abort, Sending
    <2>3. Sending(response, 200) \in Responses
        BY <2>1, <1>0, SendTypes
    <2>4. response.statusCode \in 0 .. 599
        BY <1>0 DEF Responses
    <2>5. response' \in Responses /\ recorded' \in 0 .. 599
        BY <2>2, <2>3, <2>4, <1>0
    <2>6. /\ stage' \in {"answered", "aborted"}
          /\ UNCHANGED <<routerVars, allow, panicValue, informed, decided, whole>>
        BY <1>12 DEF Finish, Abort
    <2> QED
        BY <2>5, <2>6, <1>0, TypeKept DEF GatewayTypeOK, Stages
<1>13. CASE EndRequest
    <2>1. Fresh \in Responses
        BY DEF Fresh, Responses, Sent
    <2>2. /\ UNCHANGED <<routes, scanned, best>>
          /\ request' = NoRequest /\ stage' = "idle" /\ response' = Fresh
          /\ allow' = {} /\ panicValue' = "none" /\ recorded' = 0
          /\ decided' = 0 /\ whole' = FALSE /\ informed' = FALSE
        BY <1>13 DEF EndRequest
    <2>3. /\ routes' \in Configurations
          /\ scanned' \in 0 .. Len(routes')
          /\ best' \in 0 .. scanned'
        BY <2>2, <1>0 DEF GatewayTypeOK
    <2>4. /\ request' \in Requests \cup {NoRequest}
          /\ stage' \in Stages /\ response' \in Responses
          /\ allow' \subseteq Methods
          /\ panicValue' \in {"none", "abort_handler", "error"}
          /\ whole' \in BOOLEAN /\ informed' \in BOOLEAN
        BY <2>1, <2>2 DEF Stages
    <2>5. recorded' \in 0 .. 599 /\ decided' \in 0 .. 599
        BY <2>2
    <2> QED
        BY <2>3, <2>4, <2>5 DEF GatewayTypeOK
<1>14. CASE UNCHANGED vars
    BY <1>0, <1>14 DEF GatewayTypeOK
<1> QED
    BY <1>1, <1>2, <1>3, <1>4, <1>5, <1>6, <1>7, <1>8, <1>9, <1>10, <1>11,
       <1>12, <1>13, <1>14, Steps

-----------------------------------------------------------------------------
(* Every step keeps the best match the best.                                *)

LEMMA RouterSteps ==
    ASSUME IInv, [Next]_vars
    PROVE  \/ \E req \in Requests : StartMatch(req)
           \/ stage = "matching" /\ ScanRoute
           \/ request' = NoRequest /\ UNCHANGED <<routes, scanned, best>>
           \/ UNCHANGED routerVars
<1> DEFINE Keeps == UNCHANGED routerVars
<1>1. ASSUME NEW req \in Requests, ServeHTTP(req) \/ FailRequestID(req)
      PROVE  StartMatch(req)
    BY <1>1 DEF ServeHTTP, FailRequestID
<1>2. ASSUME MatchRoute
      PROVE  stage = "matching" /\ ScanRoute
    BY <1>2 DEF MatchRoute
<1>3. ASSUME EndRequest
      PROVE  request' = NoRequest /\ UNCHANGED <<routes, scanned, best>>
    BY <1>3 DEF EndRequest
<1>4. UnmatchedAnswers \/ RouteAnswers \/ AnswerPanic => Keeps
    BY DEF UnmatchedAnswers, Unmatched, RouteAnswers, AnswerPanic
<1>5. CallRouteHandler \/ CallProxy \/ Inform \/ CopyBody => Keeps
    BY DEF CallRouteHandler, CallProxy, Inform, CopyBody
<1>6. ASSUME NEW status \in UpstreamStatuses, ForwardHeader(status)
      PROVE  Keeps
    BY <1>6 DEF ForwardHeader
<1>7. FailCopy \/ PanicInHandler \/ Finish \/ Abort => Keeps
    BY DEF FailCopy, PanicInHandler, Panic, Finish, Abort
<1>8. UNCHANGED vars => Keeps
    OBVIOUS
<1> HIDE DEF Keeps
<1>9. \/ \E req \in Requests : StartMatch(req)
      \/ stage = "matching" /\ ScanRoute
      \/ request' = NoRequest /\ UNCHANGED <<routes, scanned, best>>
      \/ Keeps
    BY <1>1, <1>2, <1>3, <1>4, <1>5, <1>6, <1>7, <1>8, Steps, Zenon
<1> QED
    BY <1>9 DEF Keeps

\* One turn of the loop, in the terms of BestSoFar.
LEMMA ScanStep ==
    ASSUME IInv, stage = "matching", ScanRoute
    PROVE  BestSoFar'
<1> DEFINE n == scanned + 1
<1>1. /\ request \in Requests
      /\ routes \in Seq(Routes)
      /\ scanned \in Nat /\ n \in DOMAIN routes
      /\ best \in 0 .. scanned
    BY ConfigurationTypes DEF IInv, GatewayTypeOK, StagesMatch, ScanRoute
<1>2. request' = request /\ routes' = routes /\ scanned' = n
    BY DEF ScanRoute
<1>3. \A i \in 1 .. n : i \in 1 .. scanned \/ i = n
    BY <1>1
<1>4. /\ best = 0 => \A i \in 1 .. scanned : ~Matches(routes[i], request)
      /\ best # 0 =>
            /\ Matches(routes[best], request)
            /\ \A i \in 1 .. scanned :
                i # best /\ Matches(routes[i], request) =>
                    Better(routes[best], routes[i])
    BY <1>1, RouterAssumption DEF IInv, BestSoFar
<1>5. CASE ~Matches(routes[n], request)
    <2>1. best' = best
        BY <1>5 DEF ScanRoute
    <2> QED
        BY <2>1, <1>2, <1>3, <1>4, <1>5 DEF BestSoFar
<1>6. CASE Matches(routes[n], request) /\ best = 0
    <2>1. best' = n /\ n # 0
        BY <1>1, <1>6 DEF ScanRoute
    <2> QED
        BY <2>1, <1>2, <1>3, <1>4, <1>6 DEF BestSoFar
<1>7. CASE Matches(routes[n], request) /\ best # 0
    <2>1. best \in DOMAIN routes /\ best # n /\ n # 0
        BY <1>1, <1>7
    <2>2. CASE Better(routes[n], routes[best])
        <3>1. best' = n
            BY <1>7, <2>2 DEF ScanRoute
        <3>2. ASSUME NEW i \in 1 .. scanned, Matches(routes[i], request)
              PROVE  Better(routes[n], routes[i])
            <4>1. i = best \/ Better(routes[best], routes[i])
                BY <3>2, <1>4, <1>7
            <4>2. /\ routes[i] \in Routes /\ routes[n] \in Routes
                  /\ routes[best] \in Routes
                BY <1>1, <2>1
            <4> QED
                BY <4>1, <4>2, <2>2, BetterTransitive
        <3> QED
            BY <3>1, <3>2, <2>1, <1>2, <1>3, <1>7 DEF BestSoFar
    <2>3. CASE ~Better(routes[n], routes[best])
        <3>1. best' = best
            BY <1>7, <2>3 DEF ScanRoute
        <3>2. Better(routes[best], routes[n])
            BY <1>1, <1>4, <1>7, <2>1, <2>3, OneIsBetter DEF IInv
        <3> QED
            BY <3>1, <3>2, <1>2, <1>3, <1>4, <1>7 DEF BestSoFar
    <2> QED
        BY <2>2, <2>3
<1> QED
    BY <1>5, <1>6, <1>7

LEMMA MatchStep ==
    ASSUME IInv, [Next]_vars
    PROVE  BestSoFar'
<1>1. ASSUME NEW req \in Requests, StartMatch(req)
      PROVE  BestSoFar'
    BY <1>1 DEF StartMatch, BestSoFar
<1>2. CASE stage = "matching" /\ ScanRoute
    BY <1>2, ScanStep
<1>3. CASE request' = NoRequest
    BY <1>3 DEF BestSoFar
<1>4. CASE UNCHANGED routerVars
    BY <1>4 DEF IInv, BestSoFar
<1> QED
    BY <1>1, <1>2, <1>3, <1>4, RouterSteps

LEMMA StageStep ==
    ASSUME IInv, [Next]_vars
    PROVE  StagesMatch'
<1>1. StagesMatch
    BY DEF IInv
<1>2. ASSUME NEW req \in Requests, ServeHTTP(req) \/ FailRequestID(req)
      PROVE  StagesMatch'
    <2>1. request' # NoRequest /\ stage' \in {"matching", "answered"}
        BY <1>2, RouterAssumption DEF ServeHTTP, FailRequestID, StartMatch
    <2> QED
        BY <2>1 DEF StagesMatch
<1>3. CASE MatchRoute
    BY <1>1, <1>3 DEF MatchRoute, ScanRoute, StagesMatch
<1>4. CASE CallRouteHandler
    BY <1>1, <1>4 DEF CallRouteHandler, StagesMatch, Scanned
<1>5. CASE UnmatchedAnswers \/ RouteAnswers \/ AnswerPanic
    BY <1>1, <1>5
    DEF UnmatchedAnswers, Unmatched, RouteAnswers, AnswerPanic, Answer,
        StagesMatch
<1>6. CASE CallProxy \/ Inform \/ CopyBody
    BY <1>1, <1>6 DEF CallProxy, Inform, CopyBody, StagesMatch, Scanned
<1>7. ASSUME NEW status \in UpstreamStatuses, ForwardHeader(status)
      PROVE  StagesMatch'
    BY <1>1, <1>7 DEF ForwardHeader, StagesMatch, Scanned
<1>8. CASE FailCopy \/ PanicInHandler
    BY <1>1, <1>8 DEF FailCopy, PanicInHandler, Panic, StagesMatch, Scanned
<1>9. CASE Finish \/ Abort
    BY <1>1, <1>9 DEF Finish, Abort, StagesMatch
<1>10. CASE EndRequest
    BY <1>10 DEF EndRequest, StagesMatch
<1>11. CASE UNCHANGED vars
    BY <1>1, <1>11 DEF StagesMatch, Scanned
<1> QED
    BY <1>2, <1>3, <1>4, <1>5, <1>6, <1>7, <1>8, <1>9, <1>10, <1>11, Steps

-----------------------------------------------------------------------------
(* Every step keeps the response what the stage says.                       *)

\* What an answer to a request without one so far leaves behind.
LEMMA AnswerOnce ==
    ASSUME IInv, NEW status \in 200 .. 599, Answer(status),
           decided = 0, UNCHANGED informed,
           response = Fresh \/ (response.wroteHeader /\ informed)
    PROVE  /\ stage' = "returned" /\ whole' = TRUE
           /\ response'.wroteHeader
           /\ decided' = status /\ decided' # 0
           /\ ~informed' => response'.sent = decided' /\ response'.statusCode = decided'
<1>1. /\ stage' = "returned" /\ whole' = TRUE /\ decided' = status
      /\ response' = Write(WriteHeader(response, status))
    BY DEF Answer
<1>2. status # 0 /\ status \in 100 .. 599
    OBVIOUS
<1>3. CASE response = Fresh
    <2>1. response' =
            [wroteHeader |-> TRUE, statusCode |-> status, sent |-> status]
        BY <1>1, <1>3, FreshAnswer
    <2> QED
        BY <2>1, <1>1, <1>2
<1>4. CASE response.wroteHeader /\ informed
    <2>1. WriteHeader(response, status) = response /\ Write(response).wroteHeader
        BY <1>2, <1>4, ConfigurationTypes, WriteKeepsHeader
    <2> QED
        BY <2>1, <1>1, <1>2, <1>4
<1> QED
    BY <1>3, <1>4

Response ==
    ResponseMatchesStage /\ StatusIsDecided /\ CutShortIsAborted

LEMMA ResponseStep ==
    ASSUME IInv, [Next]_vars
    PROVE  Response'
<1>0. Response /\ response \in Responses
    BY ConfigurationTypes DEF IInv, Response
<1> USE DEF Response, ResponseMatchesStage, InStep, StatusIsDecided,
            CutShortIsAborted
<1>1. ASSUME NEW req \in Requests, ServeHTTP(req)
      PROVE  Response'
    BY <1>0, <1>1 DEF ServeHTTP
<1>2. ASSUME NEW req \in Requests, FailRequestID(req)
      PROVE  Response'
    <2>1. response = Fresh /\ recorded = 0
        BY <1>0, <1>2 DEF FailRequestID
    <2>2. response'.sent = 500
        BY <2>1, <1>2 DEF FailRequestID, Fresh, SendStatus
    <2> QED
        BY <2>1, <2>2, <1>2 DEF FailRequestID
<1>3. CASE MatchRoute \/ CallRouteHandler \/ CallProxy
    <2>1. /\ UNCHANGED <<answerVars, recorded, informed>>
          /\ stage \in {"matching", "handling"}
          /\ stage' \in {"matching", "handling", "proxying"}
        BY <1>3 DEF MatchRoute, CallRouteHandler, CallProxy
    <2>2. response = Fresh /\ decided = 0 /\ ~informed /\ recorded = 0
        BY <2>1, <1>0
    <2> QED
        BY <2>1, <2>2
<1>4. CASE UnmatchedAnswers \/ RouteAnswers \/ AnswerPanic
    <2>1. PICK status \in 200 .. 599 :
            /\ Answer(status)
            /\ stage \in {"matching", "handling", "proxying", "panicking"}
            /\ stage = "panicking" => ~response.wroteHeader
            /\ UNCHANGED <<informed, recorded>>
        <3>1. /\ 404 \in 200 .. 599 /\ 405 \in 200 .. 599
              /\ 500 \in 200 .. 599
            OBVIOUS
        <3>2. CASE UnmatchedAnswers
            BY <3>1, <3>2 DEF UnmatchedAnswers, Unmatched
        <3>3. CASE RouteAnswers
            BY <3>3 DEF RouteAnswers
        <3>4. CASE AnswerPanic
            <4>1. /\ Answer(500) /\ stage = "panicking" /\ ~response.wroteHeader
                  /\ UNCHANGED <<informed, recorded>>
                BY <3>4 DEF AnswerPanic, MustAbort
            <4> QED
                BY <4>1, <3>1
        <3> QED
            BY <3>2, <3>3, <3>4, <1>4
    <2>2. /\ decided = 0 /\ recorded = 0
          /\ response = Fresh \/ (response.wroteHeader /\ informed)
        BY <2>1, <1>0
    <2>3. /\ stage' = "returned" /\ whole' = TRUE
          /\ response'.wroteHeader
          /\ decided' = status /\ decided' # 0
          /\ ~informed' => response'.sent = decided' /\ response'.statusCode = decided'
        BY <2>1, <2>2, AnswerOnce
    <2> QED
        BY <2>1, <2>2, <2>3
<1>5. CASE Inform
    <2>1. response'.wroteHeader
        BY <1>5 DEF Inform, WriteHeader
    <2> QED
        BY <2>1, <1>0, <1>5 DEF Inform
<1>6. ASSUME NEW status \in UpstreamStatuses, ForwardHeader(status)
      PROVE  Response'
    <2>1. status \in 200 .. 599
        BY GatewayAssumption
    <2>2. status # 0 /\ status >= 200 /\ status \in 100 .. 599
        BY <2>1
    <2>3. /\ response'.wroteHeader
          /\ ~informed => response'.sent = status /\ response'.statusCode = status
        BY <2>2, <1>0, <1>6 DEF ForwardHeader, WriteHeader, Fresh, SendStatus
    <2> QED
        BY <2>2, <2>3, <1>0, <1>6 DEF ForwardHeader
<1>7. CASE CopyBody
    <2>1. /\ Write(response).wroteHeader
          /\ Write(response).statusCode = response.statusCode
          /\ response.sent # 0 => Write(response).sent = response.sent
        BY <1>0, <1>7, WriteKeepsHeader DEF CopyBody
    <2> QED
        BY <2>1, <1>0, <1>7 DEF CopyBody
<1>8. CASE FailCopy \/ PanicInHandler
    <2>1. /\ stage \in {"handling", "proxying", "copying"}
          /\ stage' = "panicking"
          /\ UNCHANGED <<response, decided, recorded, informed>>
        BY <1>8 DEF FailCopy, PanicInHandler, Panic
    <2>2. /\ recorded = 0
          /\ IF response.wroteHeader
             THEN ~informed => response.sent = response.statusCode
             ELSE response = Fresh /\ decided = 0
        BY <2>1, <1>0 DEF Fresh
    <2> QED
        BY <2>1, <2>2
<1>9. CASE Finish
    <2>1. /\ recorded' = response.statusCode
          /\ response' = [response EXCEPT !.sent = SendStatus(@, 200)]
          /\ stage' = "answered"
          /\ UNCHANGED <<decided, whole, informed>>
        BY <1>9 DEF Finish
    <2>2. whole /\ InStep
        BY <1>0, <1>9 DEF Finish
    <2>3. ~informed => response'.sent = decided
        BY <2>1, <2>2, <1>0 DEF SendStatus, Responses
    <2> QED
        BY <2>1, <2>2, <2>3
<1>10. CASE Abort
    <2>1. ~informed /\ response.sent # 0 => response.sent = response.statusCode
        BY <1>0, <1>10 DEF Abort, Fresh
    <2> QED
        BY <2>1, <1>0, <1>10 DEF Abort
<1>11. CASE EndRequest
    BY <1>11 DEF EndRequest
<1>12. CASE UNCHANGED vars
    BY <1>0, <1>12
<1> QED
    BY <1>1, <1>2, <1>3, <1>4, <1>5, <1>6, <1>7, <1>8, <1>9, <1>10, <1>11,
       <1>12, Steps

-----------------------------------------------------------------------------
(* Every step keeps the answer to a request without a route what            *)
(* AllowedMethods says.                                                     *)

LEMMA AllowStep ==
    ASSUME IInv, [Next]_vars
    PROVE  AnswerMatchesAllow'
<1>0. /\ AnswerMatchesAllow /\ StagesMatch
      /\ Len(routes) > 0
      /\ routes' = routes
    BY ConfigurationTypes, RoutesStay DEF IInv
<1>1. CASE UnmatchedAnswers
    <2>1. PICK status \in {404, 405} :
            /\ Unmatched
            /\ status = IF AllowedMethods(request) = {} THEN 404 ELSE 405
            /\ Answer(status)
        BY <1>1 DEF UnmatchedAnswers
    <2>2. /\ allow' = AllowedMethods(request)
          /\ request' = request
          /\ decided' = status
        BY <2>1 DEF Unmatched, Answer
    <2>3. AllowedMethods(request)' = AllowedMethods(request)
        BY <2>2, <1>0 DEF AllowedMethods
    <2> QED
        BY <2>1, <2>2, <2>3 DEF AnswerMatchesAllow
<1>2. CASE RouteAnswers \/ AnswerPanic \/ CopyBody
    <2>1. UNCHANGED routerVars
        BY <1>2 DEF RouteAnswers, AnswerPanic, CopyBody
    <2>2. best # 0
        BY <1>0, <1>2 DEF RouteAnswers, AnswerPanic, CopyBody, StagesMatch
    <2> QED
        BY <2>1, <2>2 DEF AnswerMatchesAllow
<1>3. CASE Finish
    <2>1. UNCHANGED <<routerVars, allow, decided>> /\ stage = "returned"
        BY <1>3 DEF Finish
    <2>2. /\ Scanned' <=> Scanned
          /\ AllowedMethods(request)' = AllowedMethods(request)
        BY <2>1 DEF Scanned, AllowedMethods
    <2> QED
        BY <2>1, <2>2, <1>0 DEF AnswerMatchesAllow
<1>4. ASSUME NEW req \in Requests, ServeHTTP(req) \/ FailRequestID(req)
      PROVE  AnswerMatchesAllow'
    <2>1. scanned' = 0
        BY <1>4 DEF ServeHTTP, FailRequestID, StartMatch
    <2> QED
        BY <2>1, <1>0 DEF AnswerMatchesAllow, Scanned
<1>5. CASE stage' \notin {"returned", "answered"}
    BY <1>5 DEF AnswerMatchesAllow
<1>6. CASE MatchRoute \/ CallRouteHandler \/ CallProxy \/ Inform
    BY <1>5, <1>6 DEF MatchRoute, CallRouteHandler, CallProxy, Inform
<1>7. ASSUME NEW status \in UpstreamStatuses, ForwardHeader(status)
      PROVE  AnswerMatchesAllow'
    BY <1>5, <1>7 DEF ForwardHeader
<1>8. CASE FailCopy \/ PanicInHandler \/ Abort \/ EndRequest
    BY <1>5, <1>8 DEF FailCopy, PanicInHandler, Panic, Abort, EndRequest
<1>9. CASE UNCHANGED vars
    <2>1. /\ Scanned' <=> Scanned
          /\ AllowedMethods(request)' = AllowedMethods(request)
        BY <1>9 DEF Scanned, AllowedMethods
    <2> QED
        BY <2>1, <1>0, <1>9 DEF AnswerMatchesAllow
<1> QED
    BY <1>1, <1>2, <1>3, <1>4, <1>6, <1>7, <1>8, <1>9, Steps

-----------------------------------------------------------------------------
(* The theorems.                                                            *)

LEMMA InitIInv == Init => IInv
<1> SUFFICES ASSUME Init
             PROVE  IInv
    OBVIOUS
<1>1. /\ routes \in Configurations /\ Accepted(routes)
      /\ request = NoRequest /\ scanned = 0 /\ best = 0
      /\ stage = "idle" /\ response = Fresh /\ allow = {}
      /\ panicValue = "none" /\ recorded = 0 /\ decided = 0
      /\ whole = FALSE /\ informed = FALSE
    BY DEF Init, RouterInit
<1>2. routes \in Seq(Routes)
    BY <1>1, RouterAssumption
<1>3. Fresh \in Responses
    BY DEF Fresh, Responses, Sent
<1>4. scanned \in 0 .. Len(routes) /\ best \in 0 .. scanned
    BY <1>1, <1>2
<1>5. recorded \in 0 .. 599 /\ decided \in 0 .. 599
    BY <1>1
<1>6. GatewayTypeOK
    BY <1>1, <1>3, <1>4, <1>5 DEF GatewayTypeOK, Stages
<1>7. BestSoFar /\ StagesMatch /\ ResponseMatchesStage /\ AnswerMatchesAllow
    BY <1>1 DEF BestSoFar, StagesMatch, ResponseMatchesStage, AnswerMatchesAllow
<1>8. StatusIsDecided /\ CutShortIsAborted
    BY <1>1 DEF StatusIsDecided, CutShortIsAborted
<1> QED
    BY <1>1, <1>6, <1>7, <1>8 DEF IInv

LEMMA NextIInv == IInv /\ [Next]_vars => IInv'
<1> SUFFICES ASSUME IInv, [Next]_vars
             PROVE  IInv'
    OBVIOUS
<1>1. Accepted(routes)'
    BY RoutesStay DEF IInv
<1> QED
    BY <1>1, TypeStep, MatchStep, StageStep, ResponseStep, AllowStep
    DEF IInv, Response

THEOREM Invariance == Spec => []IInv
BY InitIInv, NextIInv, PTL DEF Spec

\* The variables keep their types, and Match never looks past its routes.
THEOREM TypeCorrect == Spec => []GatewayTypeOK
<1>1. IInv => GatewayTypeOK
    BY DEF IInv
<1> QED
    BY <1>1, Invariance, PTL

\* Whatever routes New accepts, in whatever order: Match returns a route that
\* takes precedence over every other one that matches.
THEOREM MatchIsAlwaysBest == Spec => []MatchIsBest
<1>1. ASSUME IInv
      PROVE  MatchIsBest
    <2> SUFFICES ASSUME request # NoRequest, Scanned
                 PROVE  /\ best = 0 =>
                            \A i \in DOMAIN routes : ~Matches(routes[i], request)
                        /\ best # 0 =>
                            /\ Matches(routes[best], request)
                            /\ \A i \in DOMAIN routes \ {best} :
                                Matches(routes[i], request) =>
                                    Precedes(routes[best], routes[i])
        BY DEF MatchIsBest
    <2>1. /\ routes \in Seq(Routes) /\ request \in Requests
          /\ best \in 0 .. scanned /\ scanned \in Nat
          /\ DOMAIN routes = 1 .. scanned
        BY <1>1, ConfigurationTypes DEF IInv, GatewayTypeOK, Scanned
    <2>2. /\ best = 0 => \A i \in 1 .. scanned : ~Matches(routes[i], request)
          /\ best # 0 =>
                /\ Matches(routes[best], request)
                /\ \A i \in 1 .. scanned :
                    i # best /\ Matches(routes[i], request) =>
                        Better(routes[best], routes[i])
        BY <1>1 DEF IInv, BestSoFar
    <2>3. ASSUME best # 0, NEW i \in DOMAIN routes \ {best},
                 Matches(routes[i], request)
          PROVE  Precedes(routes[best], routes[i])
        <3>1. best \in DOMAIN routes /\ i \in DOMAIN routes
            BY <2>1, <2>3
        <3>2. \A k \in DOMAIN routes : routes[k] \in Routes /\ ValidPath(routes[k])
            BY <1>1, RoutesAreRoutes DEF IInv, Accepted
        <3>3. /\ routes[best] \in Routes /\ ValidPath(routes[best])
              /\ routes[i] \in Routes /\ ValidPath(routes[i])
            BY <3>1, <3>2
        <3>4. Matches(routes[best], request) /\ Better(routes[best], routes[i])
            BY <2>1, <2>2, <2>3
        <3> QED
            BY <2>1, <2>3, <3>3, <3>4, BetterPrecedes
    <2> QED
        BY <2>1, <2>2, <2>3
<1> QED
    BY <1>1, Invariance, PTL

\* For every configuration and request: 405 names the methods that would have
\* found a route, and 404 says that there are none.
THEOREM AllowIsAlwaysTruthful == Spec => []AllowIsTruthful
<1>1. ASSUME IInv
      PROVE  AllowIsTruthful
    <2> SUFFICES ASSUME stage = "answered", Scanned, best = 0
                 PROVE  allow = {method \in Methods : \E i \in DOMAIN routes :
                            Matches(routes[i], [request EXCEPT !.method = method])}
        BY <1>1 DEF AllowIsTruthful, IInv, AnswerMatchesAllow
    <2> DEFINE With(method) == [request EXCEPT !.method = method]
    <2>1. /\ routes \in Seq(Routes) /\ request \in Requests
          /\ request # NoRequest
          /\ DOMAIN routes = 1 .. scanned
          /\ allow = AllowedMethods(request)
        BY <1>1, ConfigurationTypes
        DEF IInv, GatewayTypeOK, Scanned, StagesMatch, AnswerMatchesAllow
    <2>2. DOMAIN request = {"method", "host", "path", "headers", "escaped"}
        BY <2>1, RouterAssumption
    <2>3. ASSUME NEW i \in DOMAIN routes
          PROVE  ~Matches(routes[i], request)
        BY <1>1, <2>1 DEF IInv, BestSoFar
    <2>4. ASSUME NEW method
          PROVE  /\ With(method).method = method
                 /\ With(method).host = request.host
                 /\ With(method).path = request.path
                 /\ With(method).headers = request.headers
        BY <2>2
    <2>5. ASSUME NEW i \in DOMAIN routes, NEW method
          PROVE  Matches(routes[i], With(method)) <=>
                    /\ MatchesBesidesMethod(routes[i], request)
                    /\ MatchesMethod(routes[i], method)
        BY <2>4 DEF Matches, MatchesBesidesMethod
    <2>6. ASSUME NEW i \in DOMAIN routes,
                 MatchesBesidesMethod(routes[i], request)
          PROVE  routes[i].methods # {}
        BY <2>3, <2>6 DEF Matches, MatchesMethod
    <2>7. \A i \in DOMAIN routes : routes[i].methods \subseteq Methods
        BY <1>1, RoutesAreRoutes, GatewayAssumption
    <2>8. AllowedMethods(request) =
            UNION {routes[i].methods :
                i \in {j \in DOMAIN routes :
                        MatchesBesidesMethod(routes[j], request)}}
        BY <2>6 DEF AllowedMethods
    <2>9. ASSUME NEW method \in Methods
          PROVE  method \in AllowedMethods(request) <=>
                    \E i \in DOMAIN routes : Matches(routes[i], With(method))
        <3>1. ASSUME NEW i \in DOMAIN routes
              PROVE  Matches(routes[i], With(method)) <=>
                        /\ MatchesBesidesMethod(routes[i], request)
                        /\ method \in routes[i].methods
            BY <2>5, <2>6 DEF MatchesMethod
        <3> HIDE DEF With
        <3> QED
            BY <2>8, <3>1
    <2> HIDE DEF With
    <2>10. AllowedMethods(request) \subseteq Methods
        BY <2>7, <2>8
    <2>11. allow = {method \in Methods :
                \E i \in DOMAIN routes : Matches(routes[i], With(method))}
        BY <2>1, <2>9, <2>10
    <2> QED
        BY <2>11 DEF With
<1> QED
    BY <1>1, Invariance, PTL

\* Without a 1xx response, the client gets, and the metrics count, the status
\* that was decided on, whichever way the request ends.
THEOREM StatusIsAlwaysDecided == Spec => []StatusIsDecided
<1>1. IInv => StatusIsDecided
    BY DEF IInv
<1> QED
    BY <1>1, Invariance, PTL

\* What reaches the client as a complete response is one.
THEOREM CutShortIsAlwaysAborted == Spec => []CutShortIsAborted
<1>1. IInv => CutShortIsAborted
    BY DEF IInv
<1> QED
    BY <1>1, Invariance, PTL

=============================================================================
