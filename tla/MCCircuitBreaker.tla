-------------------------- MODULE MCCircuitBreaker --------------------------
(****************************************************************************)
(* Three requests: one that trips or probes, one left over from an earlier  *)
(* period and one more, or three of three different periods.                *)
(****************************************************************************)
EXTENDS CircuitBreaker

CONSTANTS r1, r2, r3

MCRequests == {r1, r2, r3}
\* One more than requests that may hold one.
MCGenerations == 0 .. 3

=============================================================================
