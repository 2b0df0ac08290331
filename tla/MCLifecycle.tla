----------------------------- MODULE MCLifecycle -----------------------------
(****************************************************************************)
(* Three requests, so that one is new, one old and one upgraded; a watcher *)
(* and one other runner.                                                    *)
(****************************************************************************)
EXTENDS Lifecycle

CONSTANTS q1, q2, q3, watcher, checker

MCRequests == {q1, q2, q3}
MCWatchers == {watcher}
MCOthers == {checker}

=============================================================================
