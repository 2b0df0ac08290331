---------------------------- MODULE LeastRequests ----------------------------
(****************************************************************************)
(* The least_requests load balancer of internal/upstream/least_requests.go. *)
(* Acquire and Replace are critical sections of its mutex, and so is the    *)
(* release function that Acquire returns, which its caller may call at any  *)
(* later time, and more than once.                                          *)
(*                                                                          *)
(* A request refers to the leastRequestsEndpoint it acquired by its place   *)
(* in the list; once the endpoint has left the list, only that request      *)
(* refers to it, and its counter shows nowhere any more.                    *)
(****************************************************************************)
EXTENDS Integers, Sequences, FiniteSets

CONSTANTS
    Targets,          \* the URLs an endpoint list may name
    InitialTargets,   \* the list it is created with
    Requests          \* callers of Acquire

ASSUME LeastRequestsAssumption ==
    /\ InitialTargets \in Seq(Targets) \ {<<>>}
    /\ IsFiniteSet(Requests)

VARIABLES
    endpoints,     \* l.endpoints, each with its activeRequests
    cursor,        \* l.cursor
    ticket         \* what the release function of each request refers to

balancerVars == <<endpoints, cursor, ticket>>

\* The place of an endpoint that has left the list.
Detached == 0

NoTicket == [place |-> Detached, released |-> TRUE]

Fresh(target) == [target |-> target, activeRequests |-> 0]

BalancerInit ==
    /\ endpoints = [i \in DOMAIN InitialTargets |-> Fresh(InitialTargets[i])]
    /\ cursor = 0
    /\ ticket = [r \in Requests |-> NoTicket]

-----------------------------------------------------------------------------

\* The place at some offset from where the search starts, and its load.
Place(offset) == ((cursor + offset) % Len(endpoints)) + 1

Load(offset) == endpoints[Place(offset)].activeRequests

First(offsets) ==
    CHOOSE o \in offsets : \A p \in offsets :
        Load(o) < Load(p) \/ (Load(o) = Load(p) /\ o <= p)

\* Mutant: the search stops one endpoint early.
SelectedOffsetEarly ==
    First({0} \cup 0 .. Len(endpoints) - 2)

\* The first of the least loaded endpoints, in cyclic order from the cursor.
SelectedOffset == First(0 .. Len(endpoints) - 1)

Acquire(r) ==
    LET place == Place(SelectedOffset) IN
    /\ endpoints' = [endpoints EXCEPT ![place].activeRequests = @ + 1]
    /\ cursor' = place % Len(endpoints)
    /\ ticket' = [ticket EXCEPT ![r] = [place |-> place, released |-> FALSE]]

\* Mutant: the release function does not remember that it was called.
DecrementAgain(r) ==
    endpoints' = IF ticket[r].place = Detached THEN endpoints
                 ELSE [endpoints EXCEPT ![ticket[r].place].activeRequests = @ - 1]

\* The release function: only its first call counts.
Decrement(r) ==
    endpoints' = IF ticket[r].released \/ ticket[r].place = Detached THEN endpoints
                 ELSE [endpoints EXCEPT ![ticket[r].place].activeRequests = @ - 1]

Release(r) ==
    /\ Decrement(r)
    /\ ticket' = [ticket EXCEPT ![r].released = TRUE]
    /\ UNCHANGED cursor

\* The last call of the release function, which nobody refers to any more.
ReleaseAndForget(r) ==
    /\ Decrement(r)
    /\ ticket' = [ticket EXCEPT ![r] = NoTicket]
    /\ UNCHANGED cursor

\* A list may name a target more than once: which time it does at i.
Occurrence(list, i) == Cardinality({j \in 1 .. i : list[j] = list[i]})

Named == [place \in DOMAIN endpoints |-> endpoints[place].target]

\* The place whose endpoint the i-th of a new list takes over: the k-th
\* occurrence of a target gets the k-th endpoint it had; those in excess of
\* them get a new one.
Forebears(list, i) ==
    {place \in DOMAIN endpoints :
        /\ Named[place] = list[i]
        /\ Occurrence(Named, place) = Occurrence(list, i)}

Origin(list, i) ==
    IF Forebears(list, i) = {} THEN Detached
    ELSE CHOOSE place \in Forebears(list, i) : TRUE

Destination(list, place) ==
    IF \E i \in DOMAIN list : place # Detached /\ Origin(list, i) = place
    THEN CHOOSE i \in DOMAIN list : Origin(list, i) = place
    ELSE Detached

\* Replace returns an error for an empty list, and changes nothing.
Replace(list) ==
    /\ list # <<>>
    /\ endpoints' = [i \in DOMAIN list |->
            IF Origin(list, i) = Detached THEN Fresh(list[i])
                                          ELSE endpoints[Origin(list, i)]]
    /\ cursor' = cursor % Len(list)
    /\ ticket' = [r \in Requests |->
            [ticket[r] EXCEPT !.place = Destination(list, @)]]

\* activeRequests is unsigned in the code: it never goes below zero.
BalancerTypeOK ==
    /\ endpoints \in Seq([target : Targets,
                          activeRequests : 0 .. Cardinality(Requests)]) \ {<<>>}
    /\ cursor \in 0 .. Len(endpoints) - 1
    /\ ticket \in [Requests -> [place : 0 .. Len(endpoints), released : BOOLEAN]]

=============================================================================
