--------------------------- MODULE MCUpstreamCall ---------------------------
(****************************************************************************)
(* Two requests to one endpoint: the breaker and the ejection of the        *)
(* endpoint relate them, and no layer relates two endpoints.                *)
(****************************************************************************)
EXTENDS UpstreamCall

CONSTANTS e1, r1, r2

MCEndpoints == {e1}
MCRequests == {r1, r2}
\* One more than requests that may hold one.
MCAddresses == 0 .. 2
MCGenerations == 0 .. 2

=============================================================================
