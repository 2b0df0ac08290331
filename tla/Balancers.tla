------------------------------ MODULE Balancers ------------------------------
(****************************************************************************)
(* The load balancers without a lock: RoundRobin and Random of              *)
(* internal/upstream/round_robin.go and random.go.  Both publish a list     *)
(* with one atomic store.  RoundRobin draws an index from an atomic counter *)
(* and then loads the list, which may have been replaced in between.        *)
(****************************************************************************)
EXTENDS Integers, Sequences, FiniteSets

CONSTANTS
    Callers,       \* the goroutines that acquire an endpoint
    Offered,       \* the endpoint lists that Replace may be called with
    IndexLimit,    \* how many values the counter has: 2^64 in the code
    NoIndex,       \* index of a request that holds none
    MaxDraws       \* bound: indices drawn for one list

ASSUME BalancerAssumption ==
    /\ IsFiniteSet(Callers)
    /\ \A list \in Offered : list \in Seq({list[i] : i \in DOMAIN list})
    /\ IndexLimit \in Nat \ {0}
    /\ MaxDraws \in Nat
    /\ NoIndex \notin 0 .. IndexLimit - 1

VARIABLES
    next,         \* RoundRobin.next
    snapshot,     \* the list of endpoints
    index,        \* the index a request has drawn and not used yet
    fresh,        \* the requests that have drawn theirs for this snapshot
    sent,         \* how many such requests each place of it has been given to
    draws,        \* how many indices have been drawn for it
    wraps         \* how often the counter has started over meanwhile

\* History variables: they follow the code and change nothing about it.
shareVars == <<fresh, sent, draws, wraps>>
roundRobinVars == <<next, snapshot, index, shareVars>>

Unsent(list) == [i \in DOMAIN list |-> 0]

RoundRobinInit ==
    /\ next = 0
    /\ snapshot \in Offered \ {<<>>}
    /\ index = [r \in Callers |-> NoIndex]
    /\ fresh = {}
    /\ sent = Unsent(snapshot)
    /\ draws = 0
    /\ wraps = 0

-----------------------------------------------------------------------------

\* Mutant: a load and a store instead of one atomic addition, between which
\* another request may have drawn.
DrawIndexTwice(r) ==
    /\ index[r] = NoIndex
    /\ draws < MaxDraws
    /\ index' = [index EXCEPT ![r] = next]
    /\ next' \in {next, (next + 1) % IndexLimit}
    /\ fresh' = fresh \cup {r}
    /\ draws' = draws + 1
    /\ wraps' = IF next' = 0 THEN wraps + 1 ELSE wraps
    /\ UNCHANGED <<snapshot, sent>>

\* r.next.Add(1) - 1
DrawIndex(r) ==
    /\ index[r] = NoIndex
    /\ draws < MaxDraws
    /\ index' = [index EXCEPT ![r] = next]
    /\ next' = (next + 1) % IndexLimit
    /\ fresh' = fresh \cup {r}
    /\ draws' = draws + 1
    /\ wraps' = IF next' = 0 THEN wraps + 1 ELSE wraps
    /\ UNCHANGED <<snapshot, sent>>

\* idx % uint64(len(snapshot.endpoints)), counted from one
PlaceOf(i) == (i % Len(snapshot)) + 1

\* The snapshot is loaded: r is given PlaceOf(index[r]).
UseIndex(r) ==
    /\ index[r] # NoIndex
    /\ sent' = IF r \in fresh THEN [sent EXCEPT ![PlaceOf(index[r])] = @ + 1] ELSE sent
    /\ index' = [index EXCEPT ![r] = NoIndex]
    /\ fresh' = fresh \ {r}
    /\ UNCHANGED <<next, snapshot, draws, wraps>>

\* An empty list is rejected, and the current one stays.  The counter goes on.
Store(list) ==
    /\ list # <<>>
    /\ snapshot' = list
    /\ fresh' = {}
    /\ sent' = Unsent(list)
    /\ draws' = 0
    /\ wraps' = 0
    /\ UNCHANGED <<next, index>>

-----------------------------------------------------------------------------

\* What a place has got of the requests that drew since the list was stored,
\* given to it or about to be.
Share(i) == sent[i] + Cardinality({r \in fresh : PlaceOf(index[r]) = i})

\* "round_robin selects endpoints in cyclic order" (README.md:118): between two
\* replacements no endpoint gets more than one request more than another, and
\* one more each time the counter starts over in the middle of a cycle,
\* whatever the order in which concurrent requests load the list.
SpreadIsEven ==
    \A i, j \in DOMAIN snapshot : Share(i) <= Share(j) + 1 + wraps

=============================================================================
