--------------------------- MODULE OutgoingRequest ---------------------------
(****************************************************************************)
(* What leaves the gateway, and for where: proxy.Handler's ServeHTTP up to  *)
(* its Rewrite function (internal/proxy/proxy.go) over the balancers that   *)
(* have no lock.  A request takes an endpoint, then its headers are changed *)
(* as the route asks, and last of all X-Forwarded-For is written.           *)
(*                                                                          *)
(* (What becomes of the request after that: ProxyHandler, UpstreamCall.)    *)
(****************************************************************************)
EXTENDS Balancers, ForwardedFor, HeaderPolicy, SequencesExt

CONSTANTS
    XForwardedFor,    \* its canonical name
    MaxPath,          \* bound: nodes that a request has passed
    MaxSupplied       \* bound: hops that its sender has written itself

ASSUME OutgoingAssumption ==
    /\ XForwardedFor \in Names
    /\ XForwardedFor \in Reserved
    /\ {MaxPath, MaxSupplied} \subseteq Nat

VARIABLES
    balancing,    \* the route's load balancing policy
    wire          \* the request that is about to leave, if there is one

outgoingVars == <<roundRobinVars, balancing, wire>>

Nothing == [sent |-> FALSE]

OutgoingInit ==
    /\ RoundRobinInit
    /\ balancing \in {"round_robin", "random"}
    /\ wire = Nothing

-----------------------------------------------------------------------------
(* Where a request comes from: from any sender through proxies, each of     *)
(* which adds the address that it was called from.  The last node is the    *)
(* gateway's peer.  A sender that is no proxy of ours may have written      *)
(* anything into the header before.                                         *)

Paths ==
    {path \in BoundedSeq(Addresses \cup {Garbage}, MaxPath) :
        path # <<>> /\ \A i \in 2 .. Len(path) : IsTrustedProxy(path[i])}

Supplied(path) ==
    IF IsTrustedProxy(path[1]) THEN {<<>>}
    ELSE BoundedSeq(Addresses \cup {Garbage}, MaxSupplied)

Arrivals == UNION {[path : {path}, supplied : Supplied(path)] : path \in Paths}

\* A header of hops that are all addresses, and no more than the limit.
Usable(hops) ==
    Len(hops) <= MaxHops /\ \A i \in DOMAIN hops : hops[i] # Garbage

\* The headers of a request, X-Forwarded-For apart.
Received == [Names \ {XForwardedFor} -> Values \cup {Absent}]

-----------------------------------------------------------------------------

\* ReverseProxy has removed X-Forwarded-For when it calls Rewrite.
Stripped(headers) ==
    [n \in Names |-> IF n = XForwardedFor THEN Absent ELSE headers[n]]

\* SetXForwarded writes it again, which setXForwardedFor overwrites or deletes
\* in any case.
Rewritten(policy, headers, remote, hops) ==
    {[changed EXCEPT ![XForwardedFor] = SetXForwardedFor(remote, hops)] :
        changed \in Applied(policy, Stripped(headers))}

\* All that Rewrite may make of a request, beside what it was given.
OutgoingFor(arrival, policy, headers) ==
    LET path == arrival.path
        hops == arrival.supplied \o Front(path)
    IN  [sent : {TRUE}, path : {path}, usable : {Usable(hops)},
         policy : {policy}, received : {headers},
         out : Rewritten(policy, headers, Last(path), hops)]

Outgoing ==
    UNION {OutgoingFor(arrival, policy, headers) :
           arrival \in Arrivals,
           policy \in {p \in Policies : Valid(p)},
           headers \in Received}

\* What Rewrite does to one request depends on no other: they are looked at
\* one by one.
Rewrite ==
    /\ ~wire.sent
    /\ wire' \in Outgoing

\* The transports take the request.
Leave ==
    /\ wire.sent
    /\ wire' = Nothing
    /\ UNCHANGED <<roundRobinVars, balancing>>

Draw(r) ==
    /\ balancing = "round_robin"
    /\ DrawIndex(r)
    /\ UNCHANGED <<balancing, wire>>

SendRoundRobin(r) ==
    /\ balancing = "round_robin"
    /\ UseIndex(r)
    /\ Rewrite
    /\ UNCHANGED balancing

\* Random.Acquire returns any endpoint of the list.
SendRandom ==
    /\ balancing = "random"
    /\ Rewrite
    /\ UNCHANGED <<roundRobinVars, balancing>>

PublishSnapshot(list) ==
    /\ Store(list)
    /\ UNCHANGED <<balancing, wire>>

OutgoingNext ==
    \/ \E r \in Callers : Draw(r) \/ SendRoundRobin(r)
    \/ SendRandom
    \/ Leave
    \/ \E list \in Offered : PublishSnapshot(list)

OutgoingSpec == OutgoingInit /\ [][OutgoingNext]_outgoingVars

-----------------------------------------------------------------------------

\* "walks the chain from right to left, keeps the first untrusted client
\* boundary and the trusted proxy suffix" (README.md:408-410): the upstream is
\* told the nodes that the request has come through, all of them and no other,
\* whatever the sender wrote before them; or, if the header cannot be used, the
\* peer alone.  Nothing is said of a peer without an address.
ForwardsTruePath ==
    wire.sent =>
        wire.out[XForwardedFor] =
            IF Last(wire.path) = Garbage THEN NoHeader
            ELSE IF wire.usable THEN wire.path
            ELSE <<Last(wire.path)>>

\* Everything that an accepted configuration asks of the headers is done, and
\* nothing else, in whatever order Apply comes to it.
HeadersAsConfigured ==
    wire.sent =>
        LET set == wire.policy.set
            remove == wire.policy.remove
        IN  /\ \A s \in DOMAIN set : wire.out[Canonical[s]] = set[s]
            /\ \A s \in remove : wire.out[Canonical[s]] = Absent
            /\ \A n \in Names \ {XForwardedFor} :
                    (\A s \in DOMAIN set \cup remove : Canonical[s] # n)
                        => wire.out[n] = wire.received[n]

=============================================================================
