--------------------------- MODULE MCHealthChecker ---------------------------
(****************************************************************************)
(* A DNS route with three addresses and two workers, so that a job waits    *)
(* while others are probed.  (Thresholds of any size: HealthCheckerProofs   *)
(* and HealthCheckerProofs.)                                                *)
(****************************************************************************)
EXTENDS HealthChecker

CONSTANTS e1, e2, e3

MCEndpoints == {e1, e2, e3}
MCInitialEndpoints == {}

=============================================================================
