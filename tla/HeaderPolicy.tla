---------------------------- MODULE HeaderPolicy ----------------------------
(****************************************************************************)
(* The header changes a route may ask for: HeaderTransformPolicy of         *)
(* internal/router/route.go.  A policy names headers in any spelling; a     *)
(* header map knows them by their canonical name.                           *)
(****************************************************************************)
CONSTANTS
    Spellings,         \* the ways a policy may write a name
    Canonical,         \* [Spellings -> names]: strings.ToLower, Header.Set
    Reserved,          \* names a policy may not change
    Values,            \* header values
    Absent             \* value of a header that is not there

Names == {Canonical[s] : s \in Spellings}

Policies ==
    [set : UNION {[written -> Values] : written \in SUBSET Spellings},
     remove : SUBSET Spellings]

\* Mutant: names are compared as they are written.
ValidAsWritten(policy) ==
    LET written == DOMAIN policy.set
    IN  /\ \A s \in written \cup policy.remove : Canonical[s] \notin Reserved
        /\ written \cap policy.remove = {}

\* validate: no reserved name, and none twice in any spelling.
Valid(policy) ==
    LET written == DOMAIN policy.set \cup policy.remove
    IN  /\ \A s \in written : Canonical[s] \notin Reserved
        /\ \A s, t \in written : Canonical[s] = Canonical[t] => s = t
        /\ DOMAIN policy.set \cap policy.remove = {}

\* What policy may make of a header map.  Apply deletes first and then sets,
\* ranging over a Go map: of two spellings of one name either may come last.
Applied(policy, headers) ==
    LET writers(n) == {s \in DOMAIN policy.set : Canonical[s] = n}
        removed == {Canonical[s] : s \in policy.remove}
    IN  {result \in [Names -> Values \cup {Absent}] :
            \A n \in Names :
                IF writers(n) # {}
                THEN \E s \in writers(n) : result[n] = policy.set[s]
                ELSE result[n] = IF n \in removed THEN Absent ELSE headers[n]}

=============================================================================
