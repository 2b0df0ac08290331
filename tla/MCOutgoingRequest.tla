-------------------------- MODULE MCOutgoingRequest --------------------------
(****************************************************************************)
(* Three concurrent requests, lists of two and of three endpoints, a        *)
(* counter that starts over after four; a client and two trusted proxies,   *)
(* and a limit of three hops; one header that is spelled in two ways.       *)
(****************************************************************************)
EXTENDS OutgoingRequest, TLC

CONSTANTS a, b, c, r1, r2, r3, client, proxy1, proxy2, v, w

MCCallers == {r1, r2, r3}
MCOffered == {<<>>, <<a, b>>, <<b, c, a>>}
MCAddresses == {client, proxy1, proxy2}
MCTrusted == {proxy1, proxy2}
MCSpellings == {"X-Team", "x-team", "X-Forwarded-For"}
MCCanonical ==
    [s \in MCSpellings |-> IF s = "X-Forwarded-For" THEN XForwardedFor ELSE "x-team"]
MCReserved == {XForwardedFor}
MCValues == {v, w}

Symmetry == Permutations(MCCallers)

=============================================================================
