------------------------------- MODULE Router -------------------------------
(****************************************************************************)
(* The router (internal/router): which configurations New accepts, and how  *)
(* Match goes through the routes of one, in the order they are configured,  *)
(* for the route that is to serve a request.                                *)
(*                                                                          *)
(* A path is what stands between its slashes: "/" is <<"">>, "/a" <<"a">>,  *)
(* "/a/" <<"a", "">>, and a request target without a slash in front <<>>.   *)
(* Of two matchers that accept a path the one with more segments is longer, *)
(* so lengths are compared in segments, "/" being shorter than any other.   *)
(* Header names stand for their lower-case form, and so do host names.      *)
(****************************************************************************)
EXTENDS Integers, Sequences

CONSTANTS
    Routes,           \* what a configuration is made of
    Configurations,   \* what the router may be given
    Requests,
    NoRequest

ASSUME RouterAssumption ==
    /\ Configurations \subseteq Seq(Routes)
    /\ \A route \in Routes :
        /\ route.path \in Seq(STRING)
        /\ route.exact \in BOOLEAN
        /\ route.priority \in Int
    /\ \A req \in Requests :
        /\ DOMAIN req = {"method", "host", "path", "headers", "escaped"}
        /\ req.path \in Seq(STRING)
    /\ NoRequest \notin Requests

VARIABLES
    routes,           \* Router.routes
    request,          \* the request to match
    scanned,          \* how many routes Match has looked at
    best              \* the position of bestMatch, 0 for none

routerVars == <<routes, request, scanned, best>>

-----------------------------------------------------------------------------

Root == <<"">>

\* Route.validate, of what matching and serving depend on: a prefix must not
\* end in a slash, and an action without an upstream has no body to limit and
\* no path to strip.
ValidPath(route) ==
    /\ Len(route.path) > 0
    /\ route.exact \/ route.path = Root \/ route.path[Len(route.path)] # ""

ValidPolicies(route) ==
    /\ "strip_path_prefix" \in route.policies => ~route.exact
    /\ route.action # "upstream" => route.policies \subseteq {"rate_limit"}

PathMatchKey(route) == <<route.path, route.exact>>

SetsOverlap(current, existing) ==
    current = {} \/ existing = {} \/ current \cap existing # {}

\* Mutant: only the same header conditions are taken to overlap.
HeaderMatchSetsOverlapEqual(current, existing) == current = existing

HeaderMatchSetsOverlap(current, existing) ==
    \A name \in DOMAIN current \cap DOMAIN existing :
        current[name] = existing[name]

Conflict(route, existing) ==
    /\ PathMatchKey(route) = PathMatchKey(existing)
    /\ route.priority = existing.priority
    /\ SetsOverlap(route.methods, existing.methods)
    /\ SetsOverlap(route.hosts, existing.hosts)
    /\ HeaderMatchSetsOverlap(route.headers, existing.headers)

\* New returns a router, and no error.
Accepted(config) ==
    /\ config # <<>>
    /\ \A i \in DOMAIN config :
        ValidPath(config[i]) /\ ValidPolicies(config[i])
    /\ \A i, j \in DOMAIN config : j < i =>
        /\ config[i].name # config[j].name
        /\ ~Conflict(config[i], config[j])

-----------------------------------------------------------------------------

HasPathPrefix(path, prefix) ==
    /\ Len(prefix) <= Len(path)
    /\ \A k \in 1 .. Len(prefix) : path[k] = prefix[k]

\* Match and AllowedMethods return early for a path without a slash in front,
\* which is the same as none of the routes matching it.
MatchesPath(route, path) ==
    /\ path # <<>>
    /\ IF route.exact
       THEN path = route.path
       ELSE route.path = Root \/ HasPathPrefix(path, route.path)

MatchesMethod(route, method) == route.methods = {} \/ method \in route.methods

\* normalizeHost takes the port off.
NormalizeHost(host) == host.name

MatchesHost(route, host) == route.hosts = {} \/ NormalizeHost(host) \in route.hosts

HeaderValues(headers, name) ==
    IF name \in DOMAIN headers THEN headers[name] ELSE <<>>

\* Exactly one value, and the right one.
MatchesHeaders(route, headers) ==
    \A name \in DOMAIN route.headers :
        HeaderValues(headers, name) = <<route.headers[name]>>

MatchesBesidesMethod(route, req) ==
    /\ MatchesPath(route, req.path)
    /\ MatchesHost(route, req.host)
    /\ MatchesHeaders(route, req.headers)

Matches(route, req) ==
    MatchesBesidesMethod(route, req) /\ MatchesMethod(route, req.method)

PathLength(route) == IF route.path = Root THEN 0 ELSE Len(route.path)

\* candidateIsBetter: the path's length, then its kind, then the priority.
Better(candidate, current) ==
    \/ PathLength(candidate) > PathLength(current)
    \/ /\ PathLength(candidate) = PathLength(current)
       /\ candidate.exact /\ ~current.exact
    \/ /\ PathLength(candidate) = PathLength(current)
       /\ candidate.exact = current.exact
       /\ candidate.priority > current.priority

RouterInit ==
    /\ routes \in {config \in Configurations : Accepted(config)}
    /\ request = NoRequest
    /\ scanned = 0
    /\ best = 0

\* Mutant: the best match starts as that of another request.
StartMatchUnreset(req) ==
    /\ request' = req
    /\ scanned' = 0
    /\ UNCHANGED <<routes, best>>

StartMatch(req) ==
    /\ request' = req
    /\ scanned' = 0
    /\ best' = 0
    /\ UNCHANGED routes

\* One turn of the loop in Match.
ScanRoute ==
    /\ scanned < Len(routes)
    /\ scanned' = scanned + 1
    /\ LET candidate == routes[scanned + 1] IN
       best' = IF /\ Matches(candidate, request)
                  /\ best = 0 \/ Better(candidate, routes[best])
               THEN scanned + 1
               ELSE best
    /\ UNCHANGED <<routes, request>>

Scanned == scanned = Len(routes)

\* Mutant: the routes' header conditions are not looked at.
AllowedMethodsAnyHeaders(req) ==
    UNION {routes[i].methods : i \in {j \in DOMAIN routes :
        /\ MatchesPath(routes[j], req.path)
        /\ MatchesHost(routes[j], req.host)}}

\* AllowedMethods: none when one of the routes takes every method.
AllowedMethods(req) ==
    LET matching == {i \in DOMAIN routes : MatchesBesidesMethod(routes[i], req)}
    IN  IF \E i \in matching : routes[i].methods = {}
        THEN {}
        ELSE UNION {routes[i].methods : i \in matching}

-----------------------------------------------------------------------------

\* What the documentation promises of two routes that match a request
\* (README.md:40, 69 and 91-94): the longer path wins, an exact path over a
\* prefix of its length, and the priority decides between routes with the same
\* path matcher.
Precedes(route, other) ==
    \/ PathLength(route) > PathLength(other)
    \/ /\ PathLength(route) = PathLength(other)
       /\ route.exact /\ ~other.exact
    \/ /\ PathMatchKey(route) = PathMatchKey(other)
       /\ route.priority > other.priority

\* Match returns a route that matches and that takes precedence over every
\* other route that does, and none only if no route matches.  As precedence is
\* strict, the answer does not depend on the order of the configuration: no
\* two routes that New lets stand next to one another are ever on a par.
MatchIsBest ==
    request # NoRequest /\ Scanned =>
        /\ best = 0 => \A i \in DOMAIN routes : ~Matches(routes[i], request)
        /\ best # 0 =>
            /\ Matches(routes[best], request)
            /\ \A i \in DOMAIN routes \ {best} :
                Matches(routes[i], request) => Precedes(routes[best], routes[i])

=============================================================================
