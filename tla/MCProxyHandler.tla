--------------------------- MODULE MCProxyHandler ---------------------------
(****************************************************************************)
(* Three requests over two targets, so that loads differ by more than one;  *)
(* lists of one and two entries, one of them naming a target twice.         *)
(****************************************************************************)
EXTENDS ProxyHandler, TLC

CONSTANTS e1, e2, r1, r2, r3

MCTargets == {e1, e2}
MCInitialTargets == <<e1, e2>>
MCLists == {<<e1>>, <<e2>>, <<e1, e2>>, <<e1, e1>>, <<e1, e1, e2>>}
MCRequests == {r1, r2, r3}
MCTwoRequests == {r1, r2}

MCSymmetry == Permutations(MCRequests)

\* For the run with unique targets only.
MCUniqueLists == {<<e1>>, <<e2>>, <<e1, e2>>}

=============================================================================
