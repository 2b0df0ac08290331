--------------------------- MODULE MCPassiveHealth ---------------------------
(****************************************************************************)
(* One endpoint, since no operation relates the state of two, and three     *)
(* requests, so that those of three periods may be in flight at once, and   *)
(* two late failures meet an ejection.                                      *)
(****************************************************************************)
EXTENDS PassiveHealthTracker, TLC

CONSTANTS e1, r1, r2, r3

MCEndpoints == {e1}
MCRequests == {r1, r2, r3}
\* One more than requests that may hold one.
MCAddresses == 0 .. 3
MCGenerations == 0 .. 3

\* Requests are treated alike, and no property is a liveness one.
MCSymmetry == Permutations(MCRequests)

=============================================================================
