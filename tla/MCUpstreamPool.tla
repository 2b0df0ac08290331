--------------------------- MODULE MCUpstreamPool ---------------------------
(****************************************************************************)
(* Instances of the pool: one or two addresses, one or two requests, and    *)
(* the health checks its route may have.                                    *)
(****************************************************************************)
EXTENDS UpstreamPool

CONSTANTS e1, e2, r1, r2

MCNone == {}
MCTwoEndpoints == {e1, e2}
MCOneRequest == {r1}
MCTwoRequests == {r1, r2}
\* One more than requests that may hold one.
MCAddresses == 0 .. 2
MCGenerations == 0 .. 2

Route(active, passive, addresses) ==
    [active |-> active, passive |-> passive, addresses |-> addresses]

\* All combinations of health checks.  Two addresses without passive
\* checks, whose steps multiply the interleavings; one with them.
MCRoutes == {Route(TRUE, TRUE, {e1}), Route(TRUE, FALSE, {e1, e2}),
             Route(FALSE, TRUE, {e1}), Route(FALSE, FALSE, {e1, e2})}

MCPassiveRoutes == {Route(FALSE, TRUE, {})}

=============================================================================
