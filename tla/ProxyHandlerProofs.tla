------------------------- MODULE ProxyHandlerProofs -------------------------
(****************************************************************************)
(* The load counters of least_requests under proxy.Handler, for any targets,*)
(* any lists and any finite set of requests; then what OutgoingRequest says *)
(* of the same handler: the round of round_robin and the headers of the     *)
(* request that leaves.                                                     *)
(****************************************************************************)
EXTENDS ProxyHandler, OutgoingRequest, FiniteSetTheorems, SequenceTheorems,
        WellFoundedInduction, TLAPS

-----------------------------------------------------------------------------
(* Selection: First finds the least loaded, and of those the first.         *)

LEMMA LeastNatural ==
    ASSUME NEW S \in SUBSET Nat, S # {}
    PROVE  \E m \in S : \A n \in S : m <= n
<1>1. PICK m \in S : \A n \in S : <<n, m>> \notin OpToRel(<, Nat)
    BY WFMin, NatLessThanWellFounded
<1>2. \A n \in S : ~(n < m)
    BY <1>1 DEF OpToRel
<1> QED BY <1>2

LEMMA FirstIsLeast ==
    ASSUME NEW offsets \in SUBSET Nat, offsets # {},
           \A o \in offsets : Load(o) \in Nat
    PROVE  /\ First(offsets) \in offsets
           /\ \A o \in offsets : Load(First(offsets)) <= Load(o)
<1> DEFINE loads == {Load(o) : o \in offsets}
<1>1. PICK m \in loads : \A n \in loads : m <= n
    BY LeastNatural
<1> DEFINE least == {o \in offsets : Load(o) = m}
<1>2. PICK first \in least : \A o \in least : first <= o
    BY <1>1, LeastNatural
<1>3. \A p \in offsets : Load(first) < Load(p) \/ (Load(first) = Load(p) /\ first <= p)
    BY <1>1, <1>2
<1>4. \E o \in offsets : \A p \in offsets :
            Load(o) < Load(p) \/ (Load(o) = Load(p) /\ o <= p)
    BY <1>2, <1>3
<1>5. /\ First(offsets) \in offsets
      /\ \A p \in offsets :
            \/ Load(First(offsets)) < Load(p)
            \/ Load(First(offsets)) = Load(p) /\ First(offsets) <= p
    BY <1>4 DEF First
<1> QED BY <1>5

\* From any cursor, the offsets reach every place of the list.
LEMMA EveryPlaceIsReached ==
    ASSUME NEW n \in Nat \ {0}, NEW c \in 0 .. n - 1
    PROVE  /\ \A o \in 0 .. n - 1 : ((c + o) % n) + 1 \in 1 .. n
           /\ \A p \in 1 .. n : \E o \in 0 .. n - 1 : ((c + o) % n) + 1 = p
<1>1. \A o \in 0 .. n - 1 : ((c + o) % n) + 1 \in 1 .. n
    OBVIOUS
<1>2. ASSUME NEW p \in 1 .. n PROVE \E o \in 0 .. n - 1 : ((c + o) % n) + 1 = p
    <2>1. CASE p - 1 >= c
        <3> DEFINE o == p - 1 - c
        <3>1. o \in 0 .. n - 1 /\ c + o = p - 1
            BY <2>1
        <3>2. (p - 1) % n = p - 1
            OBVIOUS
        <3>3. ((c + o) % n) + 1 = p
            BY <3>1, <3>2
        <3> QED BY <3>1, <3>3
    <2>2. CASE p - 1 < c
        <3> DEFINE o == p - 1 - c + n
        <3>1. o \in 0 .. n - 1 /\ c + o = p - 1 + n
            BY <2>2
        <3>2. (p - 1 + n) % n = p - 1
            OBVIOUS
        <3>3. ((c + o) % n) + 1 = p
            BY <3>1, <3>2
        <3> QED BY <3>1, <3>3
    <2> QED BY <2>1, <2>2
<1> QED BY <1>1, <1>2

-----------------------------------------------------------------------------
(* What each operation of the balancer does to its list.                    *)

\* Lists of endpoints with any load, and such a list with one load changed.
LoadedEndpoints == [target : Targets, activeRequests : Nat]

EndpointLists == Seq(LoadedEndpoints) \ {<<>>}

WithLoad(list, p, load) == [list EXCEPT ![p].activeRequests = load]

LEMMA ListFacts ==
    ASSUME NEW S, NEW list \in Seq(S) \ {<<>>}
    PROVE  /\ Len(list) \in Nat \ {0}
           /\ DOMAIN list = 1 .. Len(list)
           /\ \A i \in 1 .. Len(list) : list[i] \in S
<1>1. list \in Seq(S) /\ list # <<>>
    OBVIOUS
<1>2. Len(list) \in Nat /\ DOMAIN list = 1 .. Len(list)
    BY <1>1
<1>3. Len(list) # 0
    BY <1>1
<1> QED BY <1>1, <1>2, <1>3

LEMMA IsList ==
    ASSUME NEW S, NEW n \in Nat \ {0}, NEW list,
           list = [i \in 1 .. n |-> list[i]], \A i \in 1 .. n : list[i] \in S
    PROVE  list \in Seq(S) \ {<<>>} /\ Len(list) = n /\ DOMAIN list = 1 .. n
<1>1. list \in [1 .. n -> S] /\ DOMAIN list = 1 .. n
    OBVIOUS
<1>2. list \in Seq(S)
    BY <1>1
<1>3. Len(list) = n
    BY <1>1, <1>2
<1>4. list # <<>>
    BY <1>3
<1> QED BY <1>1, <1>2, <1>3, <1>4

LEMMA TypeFacts ==
    ASSUME BalancerTypeOK
    PROVE  /\ endpoints \in EndpointLists
           /\ Len(endpoints) \in Nat \ {0}
           /\ DOMAIN endpoints = 1 .. Len(endpoints)
           /\ cursor \in 0 .. Len(endpoints) - 1
           /\ \A i \in 1 .. Len(endpoints) : endpoints[i].activeRequests \in Nat
<1>1. Cardinality(Requests) \in Nat
    BY LeastRequestsAssumption, FS_CardinalityType
<1> DEFINE n == Len(endpoints)
           Entry == [target : Targets, activeRequests : 0 .. Cardinality(Requests)]
<1>2. /\ n \in Nat \ {0} /\ DOMAIN endpoints = 1 .. n
      /\ \A i \in 1 .. n : endpoints[i] \in Entry
    BY ListFacts DEF BalancerTypeOK
<1>3. \A i \in 1 .. n : endpoints[i] \in LoadedEndpoints
    BY <1>1, <1>2 DEF LoadedEndpoints
<1>4. endpoints = [i \in 1 .. n |-> endpoints[i]]
    BY <1>2 DEF BalancerTypeOK
<1>5. endpoints \in EndpointLists
    BY <1>2, <1>3, <1>4, IsList DEF EndpointLists
<1>6. \A i \in 1 .. n : endpoints[i].activeRequests \in Nat
    BY <1>3 DEF LoadedEndpoints
<1> QED BY <1>2, <1>5, <1>6 DEF BalancerTypeOK

\* Adding to the load of one place, or taking from it.
LEMMA LoadChanges ==
    ASSUME NEW list \in EndpointLists, NEW p \in DOMAIN list, NEW load \in Nat,
           NEW new, new = WithLoad(list, p, load)
    PROVE  /\ new \in EndpointLists
           /\ Len(new) = Len(list)
           /\ DOMAIN new = DOMAIN list
           /\ \A i \in DOMAIN list :
                /\ new[i].target = list[i].target
                /\ new[i].activeRequests =
                        IF i = p THEN load ELSE list[i].activeRequests
<1> DEFINE n == Len(list)
<1>1. /\ n \in Nat \ {0} /\ DOMAIN list = 1 .. n
      /\ \A i \in 1 .. n : list[i] \in LoadedEndpoints
    BY ListFacts DEF EndpointLists
<1>2. new = [i \in 1 .. n |-> IF i = p THEN [list[p] EXCEPT !.activeRequests = load]
                                       ELSE list[i]]
    BY <1>1 DEF EndpointLists, WithLoad
<1>3. [list[p] EXCEPT !.activeRequests = load]
            = [target |-> list[p].target, activeRequests |-> load]
    BY <1>1 DEF LoadedEndpoints
<1>4. \A i \in 1 .. n : /\ new[i] \in LoadedEndpoints
                        /\ new[i].target = list[i].target
                        /\ new[i].activeRequests =
                                IF i = p THEN load ELSE list[i].activeRequests
    BY <1>1, <1>2, <1>3 DEF LoadedEndpoints
<1>5. new = [i \in 1 .. n |-> new[i]]
    BY <1>2
<1>6. new \in EndpointLists /\ Len(new) = n /\ DOMAIN new = 1 .. n
    BY <1>1, <1>4, <1>5, IsList DEF EndpointLists
<1> QED BY <1>1, <1>4, <1>6

LEMMA SelectedIsLeast ==
    ASSUME BalancerTypeOK
    PROVE  /\ Place(SelectedOffset) \in DOMAIN endpoints
           /\ \A i \in DOMAIN endpoints :
                endpoints[Place(SelectedOffset)].activeRequests
                    <= endpoints[i].activeRequests
<1> DEFINE n == Len(endpoints)
           offsets == 0 .. n - 1
<1>1. n \in Nat \ {0} /\ cursor \in 0 .. n - 1 /\ DOMAIN endpoints = 1 .. n
    BY TypeFacts
<1>2. /\ \A o \in offsets : Place(o) \in 1 .. n
      /\ \A p \in 1 .. n : \E o \in offsets : Place(o) = p
    BY <1>1, EveryPlaceIsReached DEF Place
<1>3. \A o \in offsets : Load(o) \in Nat
    BY <1>2, TypeFacts DEF Load
<1>4. offsets \in SUBSET Nat /\ 0 \in offsets
    BY <1>1
<1>5. /\ SelectedOffset \in offsets
      /\ \A o \in offsets : Load(SelectedOffset) <= Load(o)
    BY <1>3, <1>4, FirstIsLeast DEF SelectedOffset
<1> QED BY <1>1, <1>2, <1>5 DEF Load

LEMMA AcquireEffect ==
    ASSUME BalancerTypeOK, NEW r \in Requests, Acquire(r)
    PROVE  LET p == ticket'[r].place IN
           /\ p \in DOMAIN endpoints
           /\ endpoints' \in EndpointLists
           /\ DOMAIN endpoints' = DOMAIN endpoints
           /\ Len(endpoints') = Len(endpoints)
           /\ \A i \in DOMAIN endpoints :
                /\ endpoints'[i].target = endpoints[i].target
                /\ endpoints[p].activeRequests <= endpoints[i].activeRequests
                /\ endpoints'[i].activeRequests =
                        IF i = p THEN endpoints[i].activeRequests + 1
                                 ELSE endpoints[i].activeRequests
           /\ ticket' = [ticket EXCEPT ![r] = [place |-> p, released |-> FALSE]]
           /\ cursor' \in 0 .. Len(endpoints) - 1
<1> DEFINE p == Place(SelectedOffset)
<1>1. p \in DOMAIN endpoints
      /\ \A i \in DOMAIN endpoints :
            endpoints[p].activeRequests <= endpoints[i].activeRequests
    BY SelectedIsLeast
<1>2. ticket' = [ticket EXCEPT ![r] = [place |-> p, released |-> FALSE]]
    BY DEF Acquire
<1>3. ticket'[r].place = p
    BY <1>2 DEF BalancerTypeOK
<1> HIDE DEF p
<1>4. endpoints' = WithLoad(endpoints, p, endpoints[p].activeRequests + 1)
      /\ cursor' = p % Len(endpoints)
    BY DEF Acquire, p, WithLoad
<1>5. endpoints[p].activeRequests + 1 \in Nat /\ cursor' \in 0 .. Len(endpoints) - 1
    BY <1>1, <1>4, TypeFacts
<1>6. /\ endpoints' \in EndpointLists
      /\ Len(endpoints') = Len(endpoints)
      /\ DOMAIN endpoints' = DOMAIN endpoints
      /\ \A i \in DOMAIN endpoints :
            /\ endpoints'[i].target = endpoints[i].target
            /\ endpoints'[i].activeRequests =
                    IF i = p THEN endpoints[p].activeRequests + 1
                             ELSE endpoints[i].activeRequests
    <2>1. endpoints \in EndpointLists
        BY TypeFacts
    <2>2. p \in DOMAIN endpoints /\ endpoints[p].activeRequests + 1 \in Nat
        BY <1>1, <1>5
    <2> QED BY <1>4, <2>1, <2>2, LoadChanges
<1> QED BY <1>1, <1>2, <1>3, <1>5, <1>6

\* Holds(r, i): a release of r would lower the load of place i.
Holds(r, i) == ~ticket[r].released /\ ticket[r].place = i

LEMMA DecrementEffect ==
    ASSUME BalancerTypeOK, NEW r \in Requests, Decrement(r),
           \A i \in DOMAIN endpoints :
                Holds(r, i) => endpoints[i].activeRequests > 0
    PROVE  /\ endpoints' \in EndpointLists
           /\ DOMAIN endpoints' = DOMAIN endpoints
           /\ Len(endpoints') = Len(endpoints)
           /\ \A i \in DOMAIN endpoints :
                /\ endpoints'[i].target = endpoints[i].target
                /\ endpoints'[i].activeRequests =
                        IF Holds(r, i) THEN endpoints[i].activeRequests - 1
                                       ELSE endpoints[i].activeRequests
<1> DEFINE p == ticket[r].place
<1>0. p \in 0 .. Len(endpoints)
    BY DEF BalancerTypeOK
<1>1. CASE ticket[r].released \/ p = Detached
    <2>1. endpoints' = endpoints
        BY <1>1 DEF Decrement
    <2>2. \A i \in DOMAIN endpoints : ~Holds(r, i)
        BY <1>1, TypeFacts DEF Holds, Detached
    <2> QED BY <2>1, <2>2, TypeFacts
<1>2. CASE ~(ticket[r].released \/ p = Detached)
    <2>1. p \in DOMAIN endpoints /\ Holds(r, p)
        BY <1>0, <1>2, TypeFacts DEF Detached, Holds
    <2>2. \A i \in DOMAIN endpoints : Holds(r, i) <=> i = p
        BY <2>1 DEF Holds
    <2>3. endpoints' = WithLoad(endpoints, p, endpoints[p].activeRequests - 1)
        BY <1>2 DEF Decrement, WithLoad
    <2>4. endpoints[p].activeRequests - 1 \in Nat /\ endpoints \in EndpointLists
        BY <2>1, TypeFacts
    <2> HIDE DEF p
    <2>5. /\ endpoints' \in EndpointLists
          /\ Len(endpoints') = Len(endpoints)
          /\ DOMAIN endpoints' = DOMAIN endpoints
          /\ \A i \in DOMAIN endpoints :
                /\ endpoints'[i].target = endpoints[i].target
                /\ endpoints'[i].activeRequests =
                        IF i = p THEN endpoints[p].activeRequests - 1
                                 ELSE endpoints[i].activeRequests
        BY <2>1, <2>3, <2>4, LoadChanges
    <2> QED BY <2>2, <2>5
<1> QED BY <1>1, <1>2

-----------------------------------------------------------------------------
(* Replace: every place hands its endpoint to one place at most.            *)

LEMMA OccurrenceGrows ==
    ASSUME NEW list, NEW i \in Nat, NEW j \in Nat, i < j, list[i] = list[j]
    PROVE  Occurrence(list, i) # Occurrence(list, j)
<1> DEFINE A == {k \in 1 .. i : list[k] = list[i]}
           B == {k \in 1 .. j : list[k] = list[j]}
<1>1. IsFiniteSet(1 .. j)
    BY FS_Interval
<1>2. IsFiniteSet(B)
    BY <1>1, FS_Subset
<1>3. A \in SUBSET B /\ j \in B /\ j \notin A
    OBVIOUS
<1>4. Cardinality(B) # Cardinality(A)
    BY <1>2, <1>3, FS_Subset
<1> QED BY <1>4 DEF Occurrence

LEMMA OriginIsForebear ==
    ASSUME NEW list, NEW i, Origin(list, i) # Detached
    PROVE  Origin(list, i) \in Forebears(list, i)
BY DEF Origin

LEMMA OriginInjective ==
    ASSUME NEW list, DOMAIN list \subseteq Nat,
           NEW i \in DOMAIN list, NEW j \in DOMAIN list,
           Origin(list, i) # Detached, Origin(list, i) = Origin(list, j)
    PROVE  i = j
<1>1. /\ Origin(list, i) \in Forebears(list, i)
      /\ Origin(list, i) \in Forebears(list, j)
    BY OriginIsForebear
<1>2. list[i] = list[j] /\ Occurrence(list, i) = Occurrence(list, j)
    BY <1>1 DEF Forebears
<1>3. ~(i < j) /\ ~(j < i)
    BY <1>2, OccurrenceGrows
<1> QED BY <1>3

LEMMA DestinationOfOrigin ==
    ASSUME NEW list, DOMAIN list \subseteq Nat, NEW place
    PROVE  /\ Destination(list, place) \in DOMAIN list \cup {Detached}
           /\ \A i \in DOMAIN list :
                Destination(list, place) = i /\ i # Detached
                    <=> place # Detached /\ Origin(list, i) = place /\ i # Detached
<1>1. CASE \E i \in DOMAIN list : place # Detached /\ Origin(list, i) = place
    <2>1. /\ Destination(list, place) \in DOMAIN list
          /\ Origin(list, Destination(list, place)) = place
        BY <1>1 DEF Destination
    <2> QED BY <1>1, <2>1, OriginInjective
<1>2. CASE ~\E i \in DOMAIN list : place # Detached /\ Origin(list, i) = place
    BY <1>2 DEF Destination
<1> QED BY <1>1, <1>2

LEMMA ReplaceEffect ==
    ASSUME BalancerTypeOK, NEW list \in Lists, Replace(list)
    PROVE  /\ endpoints' \in EndpointLists
           /\ DOMAIN endpoints' = DOMAIN list
           /\ Len(endpoints') = Len(list)
           /\ cursor' \in 0 .. Len(list) - 1
           /\ ticket' \in [Requests -> [place : 0 .. Len(list), released : BOOLEAN]]
           /\ \A i \in DOMAIN list :
                /\ Origin(list, i) = Detached => endpoints'[i].activeRequests = 0
                /\ Origin(list, i) # Detached =>
                        /\ Origin(list, i) \in DOMAIN endpoints
                        /\ endpoints'[i] = endpoints[Origin(list, i)]
           /\ \A r \in Requests :
                /\ ticket'[r].released = ticket[r].released
                /\ \A i \in DOMAIN list : ticket'[r].place = i
                        <=> Origin(list, i) # Detached /\ Origin(list, i) = ticket[r].place
<1> DEFINE n == Len(list)
<1>1. /\ n \in Nat \ {0} /\ DOMAIN list = 1 .. n
      /\ \A i \in 1 .. n : list[i] \in Targets
    BY ListsAssumption, ListFacts
<1>2. \A i \in 1 .. n : Origin(list, i) # Detached => Origin(list, i) \in DOMAIN endpoints
    BY OriginIsForebear DEF Forebears
<1>3. endpoints' = [i \in 1 .. n |-> IF Origin(list, i) = Detached
                                     THEN Fresh(list[i])
                                     ELSE endpoints[Origin(list, i)]]
    BY <1>1 DEF Replace
<1>4. /\ Len(endpoints) \in Nat \ {0} /\ DOMAIN endpoints = 1 .. Len(endpoints)
      /\ \A i \in DOMAIN endpoints : endpoints[i] \in LoadedEndpoints
    BY TypeFacts, ListFacts DEF EndpointLists
<1>5. \A i \in 1 .. n : Fresh(list[i]) \in LoadedEndpoints /\ Fresh(list[i]).activeRequests = 0
    BY <1>1 DEF Fresh, LoadedEndpoints
<1>6. \A i \in 1 .. n : endpoints'[i] \in LoadedEndpoints
    BY <1>2, <1>3, <1>4, <1>5
<1>7. endpoints' = [i \in 1 .. n |-> endpoints'[i]]
    BY <1>3
<1>8. endpoints' \in EndpointLists /\ Len(endpoints') = n /\ DOMAIN endpoints' = 1 .. n
    BY <1>1, <1>6, <1>7, IsList DEF EndpointLists
<1>9. cursor' \in 0 .. n - 1
    <2>1. cursor \in Int /\ cursor' = cursor % n
        BY TypeFacts DEF Replace
    <2> QED BY <1>1, <2>1
<1>10. \A r \in Requests : ticket'[r] = [place |-> Destination(list, ticket[r].place),
                                         released |-> ticket[r].released]
    BY DEF Replace, BalancerTypeOK
<1>11. \A r \in Requests :
            /\ Destination(list, ticket[r].place) \in 0 .. n
            /\ \A i \in DOMAIN list : Destination(list, ticket[r].place) = i
                    <=> Origin(list, i) # Detached /\ Origin(list, i) = ticket[r].place
    BY <1>1, DestinationOfOrigin DEF Detached
<1>12. ticket' \in [Requests -> [place : 0 .. n, released : BOOLEAN]]
    BY <1>10, <1>11 DEF Replace, BalancerTypeOK
<1> QED BY <1>1, <1>2, <1>3, <1>5, <1>8, <1>9, <1>10, <1>11, <1>12

-----------------------------------------------------------------------------
(* The invariant.                                                           *)

\* All of ProxyTypeOK but the bound of the loads.
ShapeOK ==
    /\ endpoints \in EndpointLists
    /\ cursor \in 0 .. Len(endpoints) - 1
    /\ ticket \in [Requests -> [place : 0 .. Len(endpoints), released : BOOLEAN]]
    /\ phase \in [Requests -> Phases]
    /\ target \in [Requests -> Targets]
    /\ watched \in SUBSET Requests

\* Loads that are numbers of requests have their bound.
LEMMA LoadsAreBounded ==
    ShapeOK /\ LoadIsActive => ProxyTypeOK
<1> SUFFICES ASSUME ShapeOK, LoadIsActive
             PROVE  ProxyTypeOK
    OBVIOUS
<1> DEFINE n == Len(endpoints)
           c == Cardinality(Requests)
<1>1. /\ n \in Nat \ {0} /\ DOMAIN endpoints = 1 .. n
      /\ \A i \in 1 .. n : endpoints[i] \in LoadedEndpoints
    BY ListFacts DEF ShapeOK, EndpointLists
<1>2. \A i \in 1 .. n : ActiveOn(i) \in SUBSET Requests
    BY DEF ActiveOn
<1>3. c \in Nat /\ \A i \in 1 .. n : Cardinality(ActiveOn(i)) <= c
    BY <1>2, LeastRequestsAssumption, FS_Subset, FS_CardinalityType
<1>4. \A i \in 1 .. n : endpoints[i].activeRequests \in 0 .. c
    BY <1>1, <1>3 DEF LoadIsActive, LoadedEndpoints
<1>5. \A i \in 1 .. n : endpoints[i] \in [target : Targets, activeRequests : 0 .. c]
    BY <1>1, <1>4 DEF LoadedEndpoints
<1>6. endpoints = [i \in 1 .. n |-> endpoints[i]]
    BY <1>1 DEF ShapeOK, EndpointLists
<1>7. endpoints \in Seq([target : Targets, activeRequests : 0 .. c]) \ {<<>>}
    BY <1>1, <1>5, <1>6, IsList
<1> QED BY <1>7 DEF ShapeOK, ProxyTypeOK, BalancerTypeOK

LEMMA TypeHasShape ==
    ASSUME ProxyTypeOK
    PROVE  ShapeOK
BY TypeFacts DEF ProxyTypeOK, BalancerTypeOK, ShapeOK

\* What remains to be shown of a step.
LEMMA InvariantAfter ==
    ASSUME ShapeOK', LoadIsActive', ReleasedWhenInactive'
    PROVE  IInv'
<1>1. (ShapeOK /\ LoadIsActive => ProxyTypeOK)'
    BY LoadsAreBounded, PTL
<1> QED BY <1>1 DEF IInv

LEMMA ActiveIsFinite ==
    ASSUME NEW i
    PROVE  IsFiniteSet(ActiveOn(i)) /\ Cardinality(ActiveOn(i)) \in Nat
<1>1. ActiveOn(i) \in SUBSET Requests
    BY DEF ActiveOn
<1> QED BY <1>1, LeastRequestsAssumption, FS_Subset, FS_CardinalityType

\* A request is active on the place that its release would lower.
LEMMA ActiveHolds ==
    ASSUME IInv, NEW r \in Requests, NEW i
    PROVE  r \in ActiveOn(i) <=> Holds(r, i)
BY DEF IInv, ReleasedWhenInactive, ActiveOn, Holds

LEMMA HeldIsLoaded ==
    ASSUME IInv, NEW r \in Requests, NEW i \in DOMAIN endpoints, Holds(r, i)
    PROVE  endpoints[i].activeRequests > 0
<1>1. r \in ActiveOn(i)
    BY ActiveHolds
<1>2. Cardinality(ActiveOn(i)) # 0
    BY <1>1, ActiveIsFinite, FS_EmptySet
<1> QED BY <1>2, ActiveIsFinite DEF IInv, LoadIsActive

LEMMA ActiveInit ==
    ASSUME Init
    PROVE  IInv
<1> DEFINE n == Len(InitialTargets)
<1>1. /\ n \in Nat \ {0} /\ DOMAIN InitialTargets = 1 .. n
      /\ \A i \in 1 .. n : InitialTargets[i] \in Targets
    BY LeastRequestsAssumption, ListFacts
<1>2. endpoints = [i \in 1 .. n |-> [target |-> InitialTargets[i], activeRequests |-> 0]]
    BY <1>1 DEF Init, BalancerInit, Fresh
<1>3. \A i \in 1 .. n : endpoints[i] \in LoadedEndpoints
    BY <1>1, <1>2 DEF LoadedEndpoints
<1>4. endpoints = [i \in 1 .. n |-> endpoints[i]]
    BY <1>2
<1>5. endpoints \in EndpointLists /\ Len(endpoints) = n /\ DOMAIN endpoints = 1 .. n
    BY <1>1, <1>3, <1>4, IsList DEF EndpointLists
<1>6. ShapeOK
    BY <1>1, <1>5 DEF ShapeOK, Init, BalancerInit, NoTicket, Detached, Phases
<1>7. \A r \in Requests : ~Active(r)
    BY DEF Init, Active
<1>8. LoadIsActive
    <2>1. \A i \in 1 .. n : ActiveOn(i) = {}
        BY <1>7 DEF ActiveOn
    <2> QED BY <1>2, <1>5, <2>1, FS_EmptySet DEF LoadIsActive
<1>9. ReleasedWhenInactive
    BY <1>7 DEF ReleasedWhenInactive, Init, BalancerInit, NoTicket
<1> QED BY <1>6, <1>8, <1>9, LoadsAreBounded DEF IInv

-----------------------------------------------------------------------------
(* Steps.                                                                   *)

LEMMA PublishKeeps ==
    ASSUME IInv, NEW list \in Lists, Publish(list)
    PROVE  IInv'
<1> DEFINE n == Len(list)
<1>1. BalancerTypeOK /\ ShapeOK /\ Replace(list)
    BY TypeHasShape DEF IInv, ProxyTypeOK, Publish
<1>2. n \in Nat \ {0} /\ DOMAIN list = 1 .. n
    BY ListsAssumption, ListFacts
<1>3. ShapeOK'
    BY <1>1, ReplaceEffect DEF ShapeOK, Publish
<1>4. \A r \in Requests : Active(r)' <=> Active(r)
    BY DEF Active, Publish
<1>5. ASSUME NEW i \in DOMAIN list
      PROVE  ActiveOn(i)' = IF Origin(list, i) = Detached THEN {}
                            ELSE ActiveOn(Origin(list, i))
    <2>1. \A r \in Requests : ticket'[r].place = i
                <=> Origin(list, i) # Detached /\ Origin(list, i) = ticket[r].place
        BY <1>1, ReplaceEffect
    <2> QED BY <1>4, <2>1 DEF ActiveOn
<1>6. ASSUME NEW i \in DOMAIN list
      PROVE  endpoints'[i].activeRequests = Cardinality(ActiveOn(i)')
    <2>1. CASE Origin(list, i) = Detached
        BY <1>1, <1>5, <2>1, ReplaceEffect, FS_EmptySet
    <2>2. CASE Origin(list, i) # Detached
        <3>1. /\ Origin(list, i) \in DOMAIN endpoints
              /\ endpoints'[i] = endpoints[Origin(list, i)]
            BY <1>1, <2>2, ReplaceEffect
        <3> QED BY <1>5, <2>2, <3>1 DEF IInv, LoadIsActive
    <2> QED BY <2>1, <2>2
<1>7. LoadIsActive'
    BY <1>1, <1>6, ReplaceEffect DEF LoadIsActive
<1>8. ReleasedWhenInactive'
    <2>1. \A r \in Requests : ticket'[r].released = ticket[r].released
        BY <1>1, ReplaceEffect
    <2> QED BY <1>4, <2>1 DEF IInv, ReleasedWhenInactive, Publish
<1> QED BY <1>3, <1>7, <1>8, InvariantAfter

LEMMA SelectKeeps ==
    ASSUME IInv, NEW r \in Requests, Select(r)
    PROVE  IInv'
<1> DEFINE p == ticket'[r].place
<1>1. BalancerTypeOK /\ ShapeOK /\ Acquire(r)
    BY TypeHasShape DEF IInv, ProxyTypeOK, Select
<1>2. /\ p \in DOMAIN endpoints
      /\ endpoints' \in EndpointLists
      /\ DOMAIN endpoints' = DOMAIN endpoints
      /\ Len(endpoints') = Len(endpoints)
      /\ \A i \in DOMAIN endpoints :
            endpoints'[i].activeRequests =
                IF i = p THEN endpoints[i].activeRequests + 1
                         ELSE endpoints[i].activeRequests
      /\ ticket' = [ticket EXCEPT ![r] = [place |-> p, released |-> FALSE]]
      /\ cursor' \in 0 .. Len(endpoints) - 1
    BY <1>1, AcquireEffect
<1> HIDE DEF p
<1>3. endpoints[p].target \in Targets /\ p \in 0 .. Len(endpoints)
    <2>1. endpoints[p] \in LoadedEndpoints /\ DOMAIN endpoints = 1 .. Len(endpoints)
        BY <1>1, <1>2, ListFacts DEF ShapeOK, EndpointLists
    <2> QED BY <1>2, <2>1 DEF LoadedEndpoints
<1>4. ShapeOK'
    <2>1. endpoints' \in EndpointLists /\ cursor' \in 0 .. Len(endpoints') - 1
        BY <1>2
    <2>2. ticket' \in [Requests -> [place : 0 .. Len(endpoints'), released : BOOLEAN]]
        BY <1>1, <1>2, <1>3 DEF ShapeOK
    <2>3. target' = [target EXCEPT ![r] = endpoints[p].target]
          /\ phase' = [phase EXCEPT ![r] = "calling"] /\ watched' = watched
        BY DEF Select, p
    <2>4. /\ phase' \in [Requests -> Phases]
          /\ target' \in [Requests -> Targets]
          /\ watched' \in SUBSET Requests
        BY <1>1, <1>3, <2>3 DEF ShapeOK, Phases
    <2> QED BY <2>1, <2>2, <2>4 DEF ShapeOK
<1>5. r \notin watched /\ ~Active(r) /\ Active(r)' /\ watched' = watched
    BY <1>1 DEF IInv, ReleasedWhenInactive, Select, Active, ShapeOK
<1>6. \A q \in Requests \ {r} :
        (Active(q)' <=> Active(q)) /\ ticket'[q] = ticket[q] /\ phase'[q] = phase[q]
    BY <1>1, <1>2 DEF Select, Active, ShapeOK
<1>7. ticket'[r] = [place |-> p, released |-> FALSE]
    BY <1>1, <1>2 DEF ShapeOK
<1>8. \A i : /\ r \notin ActiveOn(i)
             /\ ActiveOn(i)' = IF i = p THEN ActiveOn(i) \cup {r} ELSE ActiveOn(i)
    BY <1>5, <1>6, <1>7 DEF ActiveOn
<1>9. LoadIsActive'
    <2>1. ASSUME NEW i \in DOMAIN endpoints
          PROVE  endpoints'[i].activeRequests = Cardinality(ActiveOn(i)')
        <3>1. endpoints[i].activeRequests = Cardinality(ActiveOn(i))
            BY DEF IInv, LoadIsActive
        <3>2. Cardinality(ActiveOn(i) \cup {r}) = Cardinality(ActiveOn(i)) + 1
            BY <1>8, ActiveIsFinite, FS_AddElement
        <3> QED BY <1>2, <1>8, <3>1, <3>2
    <2> QED BY <1>2, <2>1 DEF LoadIsActive
<1>10. ReleasedWhenInactive'
    <2>1. \A q \in Requests : ticket'[q].released <=> ~Active(q)'
        BY <1>5, <1>6, <1>7 DEF IInv, ReleasedWhenInactive
    <2>2. \A q \in watched' : phase'[q] \in {"upgraded", "lingering"}
        BY <1>1, <1>5, <1>6 DEF IInv, ReleasedWhenInactive, ShapeOK
    <2> QED BY <2>1, <2>2 DEF ReleasedWhenInactive
<1> QED BY <1>4, <1>9, <1>10, InvariantAfter

\* Every step at which a request calls its release function.
LEMMA ReleaseKeeps ==
    ASSUME IInv, NEW r \in Requests, Release(r) \/ ReleaseAndForget(r),
           phase' \in [Requests -> Phases], target' = target,
           watched' \in SUBSET Requests,
           \A q \in watched' : phase'[q] \in {"upgraded", "lingering"},
           ~Active(r)',
           \A q \in Requests \ {r} : Active(q)' <=> Active(q)
    PROVE  IInv'
<1>1. BalancerTypeOK /\ ShapeOK
    BY TypeHasShape DEF IInv, ProxyTypeOK
<1>0. Decrement(r) /\ cursor' = cursor
    BY DEF Release, ReleaseAndForget
<1>2. /\ endpoints' \in EndpointLists
      /\ DOMAIN endpoints' = DOMAIN endpoints
      /\ Len(endpoints') = Len(endpoints)
      /\ \A i \in DOMAIN endpoints :
            endpoints'[i].activeRequests =
                IF Holds(r, i) THEN endpoints[i].activeRequests - 1
                               ELSE endpoints[i].activeRequests
    BY <1>0, <1>1, HeldIsLoaded, DecrementEffect
<1>3. /\ ticket' \in [Requests -> [place : 0 .. Len(endpoints), released : BOOLEAN]]
      /\ ticket'[r].released
      /\ \A q \in Requests \ {r} : ticket'[q] = ticket[q]
    <2>1. CASE Release(r)
        BY <1>1, <2>1 DEF Release, ShapeOK
    <2>2. CASE ReleaseAndForget(r)
        <3>1. NoTicket \in [place : 0 .. Len(endpoints), released : BOOLEAN]
            BY <1>1, TypeFacts DEF NoTicket, Detached
        <3> QED BY <1>1, <2>2, <3>1 DEF ReleaseAndForget, NoTicket, ShapeOK
    <2> QED BY <2>1, <2>2
<1>4. ShapeOK'
    BY <1>0, <1>1, <1>2, <1>3 DEF ShapeOK
<1>5. \A i : /\ r \in ActiveOn(i) <=> Holds(r, i)
             /\ ActiveOn(i)' = ActiveOn(i) \ {r}
    BY <1>3, ActiveHolds DEF ActiveOn
<1>6. LoadIsActive'
    <2>1. ASSUME NEW i \in DOMAIN endpoints
          PROVE  endpoints'[i].activeRequests = Cardinality(ActiveOn(i)')
        <3>1. endpoints[i].activeRequests = Cardinality(ActiveOn(i))
            BY DEF IInv, LoadIsActive
        <3>2. Cardinality(ActiveOn(i) \ {r}) =
                IF r \in ActiveOn(i) THEN Cardinality(ActiveOn(i)) - 1
                                     ELSE Cardinality(ActiveOn(i))
            BY ActiveIsFinite, FS_RemoveElement
        <3> QED BY <1>2, <1>5, <3>1, <3>2
    <2> QED BY <1>2, <2>1 DEF LoadIsActive
<1>7. ReleasedWhenInactive'
    BY <1>3 DEF IInv, ReleasedWhenInactive
<1> QED BY <1>4, <1>6, <1>7, InvariantAfter

\* Every other step of a request.
LEMMA CallKeeps ==
    ASSUME IInv, UNCHANGED <<balancerVars, target>>,
           phase' \in [Requests -> Phases], watched' \in SUBSET Requests,
           \A q \in watched' : phase'[q] \in {"upgraded", "lingering"},
           \A q \in Requests : Active(q)' <=> Active(q)
    PROVE  IInv'
<1>1. ShapeOK'
    BY TypeHasShape DEF IInv, ShapeOK, balancerVars
<1>2. \A i : ActiveOn(i)' = ActiveOn(i)
    BY DEF ActiveOn, balancerVars
<1>3. LoadIsActive'
    BY <1>2 DEF IInv, LoadIsActive, balancerVars
<1>4. ReleasedWhenInactive'
    BY DEF IInv, ReleasedWhenInactive, balancerVars
<1> QED BY <1>1, <1>3, <1>4, InvariantAfter

LEMMA NextKeeps ==
    ASSUME IInv, [Next]_vars
    PROVE  IInv'
<1> USE DEF Phases
<1>0. /\ ticket \in [Requests -> [place : 0 .. Len(endpoints), released : BOOLEAN]]
      /\ phase \in [Requests -> Phases]
      /\ target \in [Requests -> Targets]
      /\ watched \in SUBSET Requests
      /\ \A r \in watched : phase[r] \in {"upgraded", "lingering"}
    BY TypeHasShape DEF IInv, ShapeOK, ReleasedWhenInactive
<1>1. ASSUME NEW r \in Requests, Select(r) PROVE IInv'
    BY <1>1, SelectKeeps
<1>2. ASSUME NEW r \in Requests, CallFails(r) PROVE IInv'
    BY <1>0, <1>2, ReleaseKeeps DEF CallFails, Goto, Active
<1>3. ASSUME NEW r \in Requests, CallAnswers(r) PROVE IInv'
    BY <1>0, <1>3, CallKeeps DEF CallAnswers, Goto, Active
<1>4. ASSUME NEW r \in Requests, CallSwitchesProtocols(r) PROVE IInv'
    BY <1>0, <1>4, CallKeeps DEF CallSwitchesProtocols, Goto, Active
<1>5. ASSUME NEW r \in Requests, CloseBody(r) PROVE IInv'
    BY <1>0, <1>5, ReleaseKeeps DEF CloseBody, Goto, Active
<1>6. ASSUME NEW r \in Requests, CloseUpgraded(r) PROVE IInv'
    BY <1>0, <1>6, ReleaseKeeps DEF CloseUpgraded, Goto, Active
<1>7. ASSUME NEW r \in Requests, Return(r) PROVE IInv'
    BY <1>0, <1>7, ReleaseKeeps DEF Return, Goto, Active
<1>8. ASSUME NEW list \in Lists, Publish(list) PROVE IInv'
    BY <1>8, PublishKeeps
<1>9. CASE UNCHANGED vars
    BY <1>0, <1>9, CallKeeps DEF vars, balancerVars, Active
<1> QED BY <1>1, <1>2, <1>3, <1>4, <1>5, <1>6, <1>7, <1>8, <1>9 DEF Next

LEMMA OnlySelectSelects ==
    ASSUME IInv, Next, NEW r \in Requests, Selects(r)
    PROVE  Acquire(r)
<1>0. phase \in [Requests -> Phases] /\ phase[r] = "idle" /\ phase'[r] = "calling"
    BY DEF IInv, ProxyTypeOK, Selects
<1>1. ASSUME NEW q \in Requests, phase' = [phase EXCEPT ![q] = "calling"], Acquire(q)
      PROVE  Acquire(r)
    BY <1>0, <1>1
<1>2. ASSUME NEW q \in Requests, NEW p, phase' = [phase EXCEPT ![q] = p], p # "calling"
      PROVE  FALSE
    BY <1>0, <1>2
<1>3. phase' # phase
    BY <1>0
<1>4. ASSUME NEW q \in Requests,
             \/ CallFails(q) \/ CallAnswers(q) \/ CallSwitchesProtocols(q)
             \/ CloseBody(q) \/ CloseUpgraded(q) \/ Return(q)
      PROVE  FALSE
    BY <1>2, <1>3, <1>4 DEF CallFails, CallAnswers, CallSwitchesProtocols,
                            CloseBody, CloseUpgraded, Return, Goto
<1> QED BY <1>1, <1>3, <1>4 DEF Next, Select, Publish

LEMMA SelectsLeastActive ==
    ASSUME IInv, [Next]_vars, NEW r \in Requests, Selects(r),
           NEW i \in DOMAIN endpoints
    PROVE  Cardinality(ActiveOn(ticket'[r].place)) <= Cardinality(ActiveOn(i))
<1>1. Next
    BY DEF Selects, vars
<1>2. Acquire(r) /\ BalancerTypeOK
    BY <1>1, OnlySelectSelects DEF IInv, ProxyTypeOK
<1>3. /\ ticket'[r].place \in DOMAIN endpoints
      /\ endpoints[ticket'[r].place].activeRequests <= endpoints[i].activeRequests
    BY <1>2, AcquireEffect
<1> QED BY <1>3 DEF IInv, LoadIsActive

-----------------------------------------------------------------------------

LEMMA Invariance == Spec => []IInv
<1>1. Init => IInv
    BY ActiveInit
<1>2. IInv /\ [Next]_vars => IInv'
    BY NextKeeps
<1> QED BY <1>1, <1>2, PTL DEF Spec

\* The state of balancer and handler has its type: no counter goes below zero
\* or above the number of requests, and the cursor stays within the list.
THEOREM TypeCorrect == Spec => []ProxyTypeOK
<1>1. IInv => ProxyTypeOK
    BY DEF IInv
<1> QED BY <1>1, Invariance, PTL

\* Every load counter is the number of requests active on its endpoint: the
\* release functions of least_requests.go, called by transport, body and
\* handler, and the lists it is given meanwhile, never leave it off by one.
THEOREM LoadsAreAlwaysActive == Spec => []LoadIsActive
<1>1. IInv => LoadIsActive
    BY DEF IInv
<1> QED BY <1>1, Invariance, PTL

\* LeastRequests.Acquire gives a request an endpoint with no more active
\* requests than any other of the list.
THEOREM AlwaysSentWhereLeastActive == Spec => SentWhereLeastActive
<1>1. IInv /\ [Next]_vars =>
        [\A r \in Requests : Selects(r) =>
            \A i \in DOMAIN endpoints :
                Cardinality(ActiveOn(ticket'[r].place)) <= Cardinality(ActiveOn(i))]_vars
    BY SelectsLeastActive
<1> QED BY <1>1, Invariance, PTL DEF Spec, SentWhereLeastActive

-----------------------------------------------------------------------------
(* The round of round_robin.                                                *)

\* Counting on by one takes a remainder on by one, or back to zero.
LEMMA NextRemainder ==
    ASSUME NEW n \in Nat \ {0}, NEW x \in Nat
    PROVE  (x + 1) % n = IF x % n = n - 1 THEN 0 ELSE (x % n) + 1
<1> DEFINE q == x \div n
           r == x % n
<1>1. q \in Nat /\ r \in 0 .. n - 1 /\ x = n * q + r
    OBVIOUS
<1> HIDE DEF q, r
<1>2. \A p \in Nat : \A s \in 0 .. n - 1 : (n * p + s) % n = s
    OBVIOUS
<1>3. CASE r = n - 1
    <2>1. n * q + n = n * (q + 1)
        BY <1>1
    <2>2. x + 1 = n * (q + 1) + 0
        BY <1>1, <1>3, <2>1
    <2>3. q + 1 \in Nat /\ 0 \in 0 .. n - 1
        BY <1>1
    <2>4. (n * (q + 1) + 0) % n = 0
        BY <1>2, <2>3
    <2> QED BY <1>3, <2>2, <2>4 DEF r
<1>4. CASE r # n - 1
    <2>1. r + 1 \in 0 .. n - 1 /\ x + 1 = n * q + (r + 1)
        BY <1>1, <1>4
    <2>2. (n * q + (r + 1)) % n = r + 1
        BY <1>1, <1>2, <2>1
    <2> QED BY <1>4, <2>1, <2>2 DEF r
<1> QED BY <1>3, <1>4

\* The types of the round robin; whoever is in fresh has an index.
RoundRobinTypeOK ==
    /\ next \in 0 .. IndexLimit - 1
    /\ snapshot \in Offered \ {<<>>}
    /\ index \in [Callers -> (0 .. IndexLimit - 1) \cup {NoIndex}]
    /\ fresh \subseteq {r \in Callers : index[r] # NoIndex}
    /\ sent \in [DOMAIN snapshot -> Nat]
    /\ wraps \in Nat

\* 1 if the round has come past place i in its present cycle, else 0.
Passed(i) == IF i - 1 < next % Len(snapshot) THEN 1 ELSE 0

\* SpreadIsEven with the place at which the round is: of two places, the one
\* that comes first in a cycle is ahead by the cycles that were broken off,
\* the other one by the cycle that was under way when the list was stored.
RoundIsEven ==
    \A i, j \in DOMAIN snapshot :
        Share(i) + Passed(j) <= Share(j) + Passed(i) + (IF i < j THEN wraps ELSE 1)

\* Those who have drawn place i and not loaded the list yet.
DrawnFor(i) == {r \in fresh : PlaceOf(index[r]) = i}

LEMMA ListLength ==
    ASSUME NEW list \in Offered, list # <<>>
    PROVE  Len(list) \in Nat \ {0} /\ DOMAIN list = 1 .. Len(list)
BY BalancerAssumption, LenProperties, EmptySeq

\* What the types say of places and shares.
LEMMA RoundFacts ==
    ASSUME RoundRobinTypeOK
    PROVE  /\ Len(snapshot) \in Nat \ {0}
           /\ DOMAIN snapshot = 1 .. Len(snapshot)
           /\ \A x \in 0 .. IndexLimit - 1 : PlaceOf(x) \in DOMAIN snapshot
           /\ \A i \in DOMAIN snapshot :
                /\ IsFiniteSet(DrawnFor(i)) /\ Cardinality(DrawnFor(i)) \in Nat
                /\ Share(i) = sent[i] + Cardinality(DrawnFor(i))
                /\ Share(i) \in Nat
<1>1. Len(snapshot) \in Nat \ {0} /\ DOMAIN snapshot = 1 .. Len(snapshot)
    BY ListLength DEF RoundRobinTypeOK
<1>2. ASSUME NEW x \in 0 .. IndexLimit - 1 PROVE PlaceOf(x) \in 1 .. Len(snapshot)
    <2>1. x \in Nat
        BY BalancerAssumption
    <2>2. x % Len(snapshot) \in 0 .. Len(snapshot) - 1
        BY <1>1, <2>1
    <2> QED BY <1>1, <2>2 DEF PlaceOf
<1>3. ASSUME NEW i \in DOMAIN snapshot
      PROVE  /\ IsFiniteSet(DrawnFor(i)) /\ Cardinality(DrawnFor(i)) \in Nat
             /\ Share(i) = sent[i] + Cardinality(DrawnFor(i))
             /\ Share(i) \in Nat
    <2>1. DrawnFor(i) \subseteq Callers
        BY DEF DrawnFor, RoundRobinTypeOK
    <2>2. IsFiniteSet(DrawnFor(i)) /\ Cardinality(DrawnFor(i)) \in Nat
        BY <2>1, FS_Subset, FS_CardinalityType, BalancerAssumption
    <2>3. Share(i) = sent[i] + Cardinality(DrawnFor(i))
        BY DEF Share, DrawnFor
    <2>4. sent[i] \in Nat
        BY DEF RoundRobinTypeOK
    <2> QED BY <2>2, <2>3, <2>4
<1> QED BY <1>1, <1>2, <1>3

LEMMA RoundTypeInit == RoundRobinInit => RoundRobinTypeOK
<1> SUFFICES ASSUME RoundRobinInit PROVE RoundRobinTypeOK
    OBVIOUS
<1>1. 0 \in 0 .. IndexLimit - 1
    BY BalancerAssumption
<1> QED BY <1>1 DEF RoundRobinInit, RoundRobinTypeOK, Unsent

LEMMA RoundTypeStep ==
    ASSUME RoundRobinTypeOK
    PROVE  /\ \A r \in Callers : DrawIndex(r) \/ UseIndex(r) => RoundRobinTypeOK'
           /\ \A list \in Offered : Store(list) => RoundRobinTypeOK'
<1>1. ASSUME NEW r \in Callers, DrawIndex(r) PROVE RoundRobinTypeOK'
    <2>1. (next + 1) % IndexLimit \in 0 .. IndexLimit - 1
        <3>1. next + 1 \in Nat /\ IndexLimit \in Nat \ {0}
            BY BalancerAssumption DEF RoundRobinTypeOK
        <3> QED BY <3>1
    <2>2. next # NoIndex
        BY BalancerAssumption DEF RoundRobinTypeOK
    <2>3. wraps' \in Nat
        BY <1>1 DEF DrawIndex, RoundRobinTypeOK
    <2> QED BY <1>1, <2>1, <2>2, <2>3 DEF DrawIndex, RoundRobinTypeOK
<1>2. ASSUME NEW r \in Callers, UseIndex(r) PROVE RoundRobinTypeOK'
    <2>1. index[r] \in 0 .. IndexLimit - 1
        BY <1>2 DEF UseIndex, RoundRobinTypeOK
    <2> DEFINE p == PlaceOf(index[r])
    <2>2. p \in DOMAIN snapshot
        BY <2>1, RoundFacts
    <2> HIDE DEF p
    <2>3. sent' = (IF r \in fresh THEN [sent EXCEPT ![p] = sent[p] + 1] ELSE sent)
        BY <1>2 DEF UseIndex, p
    <2>4. sent' \in [DOMAIN snapshot -> Nat]
        BY <2>2, <2>3 DEF RoundRobinTypeOK
    <2> QED BY <1>2, <2>4 DEF UseIndex, RoundRobinTypeOK
<1>3. ASSUME NEW list \in Offered, Store(list) PROVE RoundRobinTypeOK'
    BY <1>3 DEF Store, RoundRobinTypeOK, Unsent
<1> QED BY <1>1, <1>2, <1>3

\* A draw is a share of the place the round is at, whoever loads the list when.
LEMMA DrawAddsShare ==
    ASSUME RoundRobinTypeOK, NEW r \in Callers, DrawIndex(r), NEW i \in DOMAIN snapshot
    PROVE  Share(i)' = Share(i) + IF i = PlaceOf(next) THEN 1 ELSE 0
<1>1. r \notin fresh /\ fresh' = fresh \cup {r} /\ index[r] = NoIndex
    BY DEF DrawIndex, RoundRobinTypeOK
<1>2. /\ index'[r] = next
      /\ \A q \in fresh : index'[q] = index[q]
    BY <1>1 DEF DrawIndex, RoundRobinTypeOK
<1>3. snapshot' = snapshot /\ sent' = sent
    BY DEF DrawIndex
<1>4. \A x : PlaceOf(x)' = PlaceOf(x)
    BY <1>3 DEF PlaceOf
<1>5. DrawnFor(i)' = IF i = PlaceOf(next) THEN DrawnFor(i) \cup {r} ELSE DrawnFor(i)
    <2>1. DrawnFor(i)' = {q \in fresh' : (index'[q] % Len(snapshot)) + 1 = i}
        BY <1>3 DEF DrawnFor, PlaceOf
    <2>2. PlaceOf(next) = (next % Len(snapshot)) + 1
        BY DEF PlaceOf
    <2> QED BY <1>1, <1>2, <2>1, <2>2 DEF DrawnFor, PlaceOf
<1>6. r \notin DrawnFor(i)
    BY <1>1 DEF DrawnFor
<1>7. Cardinality(DrawnFor(i) \cup {r}) = Cardinality(DrawnFor(i)) + 1
    BY <1>6, RoundFacts, FS_AddElement
<1>8. Share(i)' = sent[i] + Cardinality(DrawnFor(i)')
    BY <1>3 DEF Share, DrawnFor
<1>9. /\ Share(i) = sent[i] + Cardinality(DrawnFor(i))
      /\ sent[i] \in Nat /\ Cardinality(DrawnFor(i)) \in Nat
    BY RoundFacts DEF RoundRobinTypeOK
<1> QED BY <1>5, <1>7, <1>8, <1>9

\* A request that loads the list takes what it had drawn.
LEMMA UseKeepsShares ==
    ASSUME RoundRobinTypeOK, NEW r \in Callers, UseIndex(r), NEW i \in DOMAIN snapshot
    PROVE  Share(i)' = Share(i)
<1> DEFINE p == PlaceOf(index[r])
<1>1. index[r] \in 0 .. IndexLimit - 1
    BY DEF UseIndex, RoundRobinTypeOK
<1>2. p \in DOMAIN snapshot
    BY <1>1, RoundFacts
<1>3. /\ snapshot' = snapshot /\ fresh' = fresh \ {r}
      /\ \A q \in fresh' : index'[q] = index[q]
      /\ sent' = IF r \in fresh THEN [sent EXCEPT ![p] = sent[p] + 1] ELSE sent
    BY DEF UseIndex, RoundRobinTypeOK
<1>4. DrawnFor(i)' = DrawnFor(i) \ {r}
    <2>1. DrawnFor(i)' = {q \in fresh' : (index'[q] % Len(snapshot)) + 1 = i}
        BY <1>3 DEF DrawnFor, PlaceOf
    <2> QED BY <1>3, <2>1 DEF DrawnFor, PlaceOf
<1>5. r \in DrawnFor(i) <=> r \in fresh /\ p = i
    BY DEF DrawnFor
<1>6. /\ Share(i)' = sent'[i] + Cardinality(DrawnFor(i) \ {r})
      /\ Share(i) = sent[i] + Cardinality(DrawnFor(i))
      /\ sent[i] \in Nat /\ Cardinality(DrawnFor(i)) \in Nat
      /\ sent \in [DOMAIN snapshot -> Nat] /\ IsFiniteSet(DrawnFor(i))
    <2>1. Share(i)' = sent'[i] + Cardinality(DrawnFor(i)')
        BY DEF Share, DrawnFor
    <2> QED BY <1>4, <2>1, RoundFacts DEF RoundRobinTypeOK
<1> HIDE DEF p
<1>7. CASE r \in DrawnFor(i)
    <2>1. Cardinality(DrawnFor(i) \ {r}) = Cardinality(DrawnFor(i)) - 1
        BY <1>6, <1>7, FS_RemoveElement
    <2>2. sent'[i] = sent[i] + 1
        BY <1>2, <1>3, <1>5, <1>6, <1>7
    <2> QED BY <1>6, <2>1, <2>2
<1>8. CASE r \notin DrawnFor(i)
    <2>1. DrawnFor(i) \ {r} = DrawnFor(i)
        BY <1>8
    <2>2. sent'[i] = sent[i]
        BY <1>2, <1>3, <1>5, <1>6, <1>8
    <2> QED BY <1>6, <2>1, <2>2
<1> QED BY <1>7, <1>8

\* A list that has just been stored: nobody has a share in it.
LEMMA NoShares ==
    ASSUME fresh = {}, sent = Unsent(snapshot), NEW i \in DOMAIN snapshot
    PROVE  Share(i) = 0
<1>1. DrawnFor(i) = {} /\ sent[i] = 0
    BY DEF DrawnFor, Unsent
<1>2. Share(i) = sent[i] + Cardinality(DrawnFor(i))
    BY DEF Share, DrawnFor
<1> QED BY <1>1, <1>2, FS_EmptySet

LEMMA EvenWithoutShares ==
    RoundRobinTypeOK /\ fresh = {} /\ sent = Unsent(snapshot) => RoundIsEven
<1> SUFFICES ASSUME RoundRobinTypeOK, fresh = {}, sent = Unsent(snapshot)
             PROVE  RoundIsEven
    OBVIOUS
<1>1. \A i \in DOMAIN snapshot : Share(i) = 0
    BY NoShares
<1>2. wraps \in Nat /\ DOMAIN snapshot \subseteq Nat
    BY RoundFacts DEF RoundRobinTypeOK
<1> DEFINE x == next % Len(snapshot)
<1>3. x \in Nat
    <2>1. next \in Nat
        BY BalancerAssumption DEF RoundRobinTypeOK
    <2> QED BY <2>1, RoundFacts
<1>4. \A i : Passed(i) = IF i - 1 < x THEN 1 ELSE 0
    BY DEF Passed
<1> HIDE DEF x
<1> QED BY <1>1, <1>2, <1>3, <1>4 DEF RoundIsEven

\* Where the round is after a draw.
LEMMA DrawMovesRound ==
    ASSUME RoundRobinTypeOK, NEW r \in Callers, DrawIndex(r)
    PROVE  LET n == Len(snapshot)
               x == next % n
           IN  /\ n \in Nat \ {0} /\ x \in 0 .. n - 1
               /\ snapshot' = snapshot
               /\ PlaceOf(next) = x + 1
               /\ \/ next' % n = 0 /\ wraps' = wraps + 1
                  \/ next' % n = (IF x = n - 1 THEN 0 ELSE x + 1) /\ wraps' = wraps
<1> DEFINE n == Len(snapshot)
           x == next % n
<1>1. n \in Nat \ {0} /\ next \in Nat /\ next \in 0 .. IndexLimit - 1
    BY RoundFacts, BalancerAssumption DEF RoundRobinTypeOK
<1>2. x \in 0 .. n - 1
    BY <1>1
<1>3. snapshot' = snapshot /\ PlaceOf(next) = x + 1
    BY DEF DrawIndex, PlaceOf
<1>4. CASE next = IndexLimit - 1
    <2>1. next' = 0
        BY <1>1, <1>4, BalancerAssumption DEF DrawIndex
    <2>2. wraps' = wraps + 1
        BY <2>1 DEF DrawIndex
    <2>3. 0 % n = 0
        BY <1>1
    <2> QED BY <1>1, <1>2, <1>3, <2>1, <2>2, <2>3
<1>5. CASE next # IndexLimit - 1
    <2>1. next + 1 \in 0 .. IndexLimit - 1
        BY <1>1, <1>5, BalancerAssumption
    <2>2. next' = next + 1
        BY <2>1, BalancerAssumption DEF DrawIndex
    <2>3. wraps' = wraps
        BY <1>1, <2>2 DEF DrawIndex
    <2>4. next' % n = IF x = n - 1 THEN 0 ELSE x + 1
        BY <1>1, <2>2, NextRemainder
    <2> QED BY <1>1, <1>2, <1>3, <2>3, <2>4
<1> QED BY <1>4, <1>5

\* A draw shifts a share and the round together; where the counter starts over,
\* the round begins anew and wraps pays for it.
LEMMA DrawKeepsEven ==
    ASSUME RoundRobinTypeOK, RoundIsEven, NEW r \in Callers, DrawIndex(r)
    PROVE  RoundIsEven'
<1> DEFINE n == Len(snapshot)
           x == next % n
           y == next' % n
           Before(i) == IF i - 1 < x THEN 1 ELSE 0
           After(i) == IF i - 1 < y THEN 1 ELSE 0
           Slack(i, j) == IF i < j THEN wraps ELSE 1
<1>1. /\ n \in Nat \ {0} /\ x \in 0 .. n - 1
      /\ snapshot' = snapshot /\ PlaceOf(next) = x + 1
      /\ \/ y = 0 /\ wraps' = wraps + 1
         \/ y = (IF x = n - 1 THEN 0 ELSE x + 1) /\ wraps' = wraps
    BY DrawMovesRound
<1>2. \A i \in DOMAIN snapshot :
        /\ Share(i) \in Nat
        /\ Share(i)' = Share(i) + IF i = x + 1 THEN 1 ELSE 0
    BY <1>1, DrawAddsShare, RoundFacts
<1>3. \A i : Passed(i) = Before(i) /\ Passed(i)' = After(i)
    BY <1>1 DEF Passed
<1>4. DOMAIN snapshot = 1 .. n /\ wraps \in Nat
    BY RoundFacts DEF RoundRobinTypeOK
<1>5. \A i, j \in DOMAIN snapshot : Share(i) + Before(j) <= Share(j) + Before(i) + Slack(i, j)
    BY <1>3 DEF RoundIsEven
<1> HIDE DEF n, x, y
<1>6. ASSUME NEW i \in 1 .. n, NEW j \in 1 .. n
      PROVE  Share(i)' + After(j) <= Share(j)' + After(i) + (IF i < j THEN wraps' ELSE 1)
    <2> DEFINE s == Share(i)
               t == Share(j)
    <2>1. /\ s \in Nat /\ t \in Nat
          /\ s + Before(j) <= t + Before(i) + Slack(i, j)
          /\ Share(i)' = s + IF i = x + 1 THEN 1 ELSE 0
          /\ Share(j)' = t + IF j = x + 1 THEN 1 ELSE 0
        BY <1>2, <1>4, <1>5
    <2> HIDE DEF s, t
    <2>2. CASE y = 0 /\ wraps' = wraps + 1
        BY <1>1, <1>4, <2>1, <2>2
    <2>3. CASE y = (IF x = n - 1 THEN 0 ELSE x + 1) /\ wraps' = wraps
        BY <1>1, <1>4, <2>1, <2>3
    <2> QED BY <1>1, <2>2, <2>3
<1> QED BY <1>1, <1>3, <1>4, <1>6 DEF RoundIsEven

RoundInv == RoundRobinTypeOK /\ RoundIsEven

LEMMA RoundInvariance == OutgoingSpec => []RoundInv
<1>1. OutgoingInit => RoundInv
    <2> SUFFICES ASSUME OutgoingInit PROVE RoundInv
        OBVIOUS
    <2>1. RoundRobinTypeOK
        BY RoundTypeInit DEF OutgoingInit
    <2> QED BY <2>1, EvenWithoutShares DEF OutgoingInit, RoundRobinInit, RoundInv
<1>2. RoundInv /\ [OutgoingNext]_outgoingVars => RoundInv'
    <2> SUFFICES ASSUME RoundInv, [OutgoingNext]_outgoingVars PROVE RoundInv'
        OBVIOUS
    <2> USE DEF RoundInv
    <2>1. CASE UNCHANGED roundRobinVars
        <3>1. RoundRobinTypeOK'
            BY <2>1 DEF roundRobinVars, shareVars, RoundRobinTypeOK
        <3>2. RoundIsEven'
            <4>1. \A i : Share(i)' = Share(i) /\ Passed(i)' = Passed(i)
                BY <2>1 DEF roundRobinVars, shareVars, Share, PlaceOf, Passed
            <4>2. snapshot' = snapshot /\ wraps' = wraps
                BY <2>1 DEF roundRobinVars, shareVars
            <4> QED BY <4>1, <4>2 DEF RoundIsEven
        <3> QED BY <3>1, <3>2
    <2>2. ASSUME NEW r \in Callers, DrawIndex(r) PROVE RoundInv'
        BY <2>2, RoundTypeStep, DrawKeepsEven
    <2>3. ASSUME NEW r \in Callers, UseIndex(r) PROVE RoundInv'
        <3>1. RoundRobinTypeOK'
            BY <2>3, RoundTypeStep
        <3>2. snapshot' = snapshot /\ next' = next /\ wraps' = wraps
            BY <2>3 DEF UseIndex
        <3>3. \A i \in DOMAIN snapshot : Share(i)' = Share(i)
            BY <2>3, UseKeepsShares
        <3>4. \A i : Passed(i)' = Passed(i)
            BY <3>2 DEF Passed
        <3> QED BY <3>1, <3>2, <3>3, <3>4 DEF RoundIsEven
    <2>4. ASSUME NEW list \in Offered, Store(list) PROVE RoundInv'
        <3>1. RoundRobinTypeOK'
            BY <2>4, RoundTypeStep
        <3>2. fresh' = {} /\ sent' = Unsent(snapshot)'
            BY <2>4 DEF Store, Unsent
        <3>3. (RoundRobinTypeOK /\ fresh = {} /\ sent = Unsent(snapshot) => RoundIsEven)'
            BY EvenWithoutShares, PTL
        <3> QED BY <3>1, <3>2, <3>3
    <2> QED BY <2>1, <2>2, <2>3, <2>4
            DEF OutgoingNext, outgoingVars, Draw, SendRoundRobin, SendRandom, Leave,
                PublishSnapshot
<1> QED BY <1>1, <1>2, PTL DEF OutgoingSpec

\* However draws, loads and replacements interleave, no place of a list gets
\* more than one request more than another, and one more each time the counter
\* starts over.
THEOREM SpreadIsAlwaysEven == OutgoingSpec => []SpreadIsEven
<1>1. RoundInv => SpreadIsEven
    <2> SUFFICES ASSUME RoundInv, NEW i \in DOMAIN snapshot, NEW j \in DOMAIN snapshot
                 PROVE  Share(i) <= Share(j) + 1 + wraps
        BY DEF SpreadIsEven
    <2> DEFINE n == Len(snapshot)
               x == next % n
    <2>1. /\ n \in Nat \ {0} /\ DOMAIN snapshot = 1 .. n /\ wraps \in Nat
          /\ Share(i) \in Nat /\ Share(j) \in Nat
        BY RoundFacts DEF RoundInv, RoundRobinTypeOK
    <2>2. x \in 0 .. n - 1
        <3>1. next \in Nat
            BY BalancerAssumption DEF RoundInv, RoundRobinTypeOK
        <3> QED BY <2>1, <3>1
    <2>3. /\ Passed(i) = IF i - 1 < x THEN 1 ELSE 0
          /\ Passed(j) = IF j - 1 < x THEN 1 ELSE 0
        BY DEF Passed
    <2>4. Share(i) + Passed(j) <= Share(j) + Passed(i) + (IF i < j THEN wraps ELSE 1)
        BY DEF RoundInv, RoundIsEven
    <2> DEFINE s == Share(i)
               t == Share(j)
    <2> HIDE DEF n, x, s, t
    <2>5. s <= t + 1 + wraps
        BY <2>1, <2>2, <2>3, <2>4 DEF s, t
    <2> QED BY <2>5 DEF s, t
<1> QED BY <1>1, RoundInvariance, PTL

-----------------------------------------------------------------------------
(* X-Forwarded-For and the other headers of the request that leaves.        *)

\* What a hop of a path or of a header may be.
Nodes == Addresses \cup {Garbage}

\* A path is a sequence of nodes; behind an untrusted peer there is nothing
\* but the peer.
LEMMA PathFacts ==
    ASSUME NEW path \in Paths
    PROVE  /\ path \in Seq(Nodes) /\ Len(path) \in Nat \ {0}
           /\ DOMAIN path = 1 .. Len(path)
           /\ \A i \in 1 .. Len(path) : path[i] \in Nodes
           /\ \A i \in 2 .. Len(path) : path[i] \in Trusted
           /\ Last(path) = path[Len(path)]
           /\ Front(path) \in Seq(Nodes)
           /\ Len(Front(path)) = Len(path) - 1
           /\ \A i \in 1 .. Len(path) - 1 : Front(path)[i] = path[i]
<1>1. PICK m \in 0 .. MaxPath : path \in [1 .. m -> Nodes]
    BY DEF Paths, BoundedSeq, SeqOf, Nodes
<1>2. path \in Seq(Nodes) /\ path # <<>>
    BY <1>1, OutgoingAssumption DEF Paths
<1>3. Len(path) \in Nat \ {0}
    BY <1>2
<1>4. \A i \in 2 .. Len(path) : path[i] \in Trusted
    BY DEF Paths, IsTrustedProxy
<1>5. DOMAIN path = 1 .. Len(path) /\ \A i \in 1 .. Len(path) : path[i] \in Nodes
    BY <1>2, LenProperties
<1> DEFINE n == Len(path) - 1
<1>6. n \in Int /\ \A i \in 1 .. n : path[i] \in Nodes
    BY <1>3, <1>5
<1>7. /\ SubSeq(path, 1, n) \in Seq(Nodes)
      /\ Len(SubSeq(path, 1, n)) = n
      /\ \A i \in 1 .. n : SubSeq(path, 1, n)[i] = path[i]
    <2> HIDE DEF n
    <2>1. /\ SubSeq(path, 1, n) \in Seq(Nodes)
          /\ Len(SubSeq(path, 1, n)) = IF 1 <= n THEN n - 1 + 1 ELSE 0
          /\ \A i \in 1 .. n - 1 + 1 : SubSeq(path, 1, n)[i] = path[1 + i - 1]
        BY <1>6, SubSeqProperties
    <2>2. n \in Nat
        BY <1>3 DEF n
    <2>3. ASSUME NEW i \in 1 .. n PROVE SubSeq(path, 1, n)[i] = path[i]
        <3>1. i \in 1 .. n - 1 + 1 /\ 1 + i - 1 = i
            BY <2>2
        <3> QED BY <2>1, <3>1
    <2> QED BY <2>1, <2>2, <2>3
<1> QED BY <1>2, <1>3, <1>4, <1>5, <1>7 DEF Front, Last

\* A sender that is a proxy of ours writes nothing of its own.
LEMMA SuppliedFacts ==
    ASSUME NEW path \in Paths, NEW supplied \in Supplied(path)
    PROVE  /\ supplied \in Seq(Nodes)
           /\ path[1] \in Trusted => supplied = <<>>
<1>1. supplied = <<>> \/ \E m \in 0 .. MaxSupplied : supplied \in [1 .. m -> Nodes]
    BY DEF Supplied, BoundedSeq, SeqOf, Nodes
<1>2. supplied \in Seq(Nodes)
    <2>1. CASE supplied = <<>>
        BY <2>1, EmptySeq
    <2>2. ASSUME NEW m \in 0 .. MaxSupplied, supplied \in [1 .. m -> Nodes]
          PROVE  supplied \in Seq(Nodes)
        <3>1. m \in Nat
            BY OutgoingAssumption
        <3> QED BY <2>2, <3>1, SeqDef
    <2> QED BY <1>1, <2>1, <2>2
<1> QED BY <1>2 DEF Supplied, IsTrustedProxy

\* The greatest element of a set of numbers that has one.
LEMMA MaxIs ==
    ASSUME NEW S \in SUBSET Nat, NEW m \in S, \A n \in S : n <= m
    PROVE  Max(S) = m
<1>1. \E x \in S : \A y \in S : x >= y
    OBVIOUS
<1>2. Max(S) \in S /\ \A n \in S : Max(S) >= n
    BY <1>1 DEF Max
<1> DEFINE x == Max(S)
<1> HIDE DEF x
<1>3. x \in Nat /\ x <= m /\ x >= m
    BY <1>2 DEF x
<1> QED BY <1>3 DEF x

\* Of the hops of a usable header, the walk back keeps those that the request
\* has come through.
LEMMA WalkBackKeepsPath ==
    ASSUME NEW path \in Paths, NEW supplied \in Supplied(path),
           Last(path) \in Trusted
    PROVE  LET hops == supplied \o Front(path)
           IN  SubSeq(hops, WalkBack(hops), Len(hops)) \o <<Last(path)>> = path
<1> DEFINE hops == supplied \o Front(path)
           n == Len(path)
           k == Len(supplied)
<1>1. /\ n \in Nat \ {0} /\ k \in Nat
      /\ hops \in Seq(Nodes) /\ Len(hops) = k + n - 1
      /\ \A i \in 1 .. n - 1 : hops[k + i] = path[i]
    <2>1. /\ n \in Nat \ {0} /\ k \in Nat
          /\ Front(path) \in Seq(Nodes) /\ Len(Front(path)) = n - 1
          /\ \A i \in 1 .. n - 1 : Front(path)[i] = path[i]
        BY PathFacts, SuppliedFacts, LenProperties
    <2>2. /\ hops \in Seq(Nodes)
          /\ Len(hops) = k + (n - 1)
          /\ \A i \in 1 .. k + (n - 1) : hops[i] =
                    IF i <= k THEN supplied[i] ELSE Front(path)[i - k]
        <3>1. /\ hops \in Seq(Nodes)
              /\ Len(hops) = k + Len(Front(path))
              /\ \A i \in 1 .. k + Len(Front(path)) : hops[i] =
                        IF i <= k THEN supplied[i] ELSE Front(path)[i - k]
            BY <2>1, SuppliedFacts, ConcatProperties, Zenon
        <3> QED BY <2>1, <3>1
    <2>3. ASSUME NEW i \in 1 .. n - 1 PROVE hops[k + i] = path[i]
        <3>1. k + i \in 1 .. k + (n - 1) /\ ~(k + i <= k) /\ (k + i) - k = i
            BY <2>1
        <3> QED BY <3>1, <2>1, <2>2
    <2> QED BY <2>1, <2>2, <2>3
<1>dom. DOMAIN hops = 1 .. k + n - 1
    BY <1>1, LenProperties
<1> HIDE DEF hops, n, k
<1>2. WalkBack(hops) = k + 1
    <2>1. CASE path[1] \in Trusted
        <3>1. k = 0
            BY <2>1, SuppliedFacts DEF k
        <3>2. \A i \in 1 .. n - 1 : path[i] \in Trusted
            BY <2>1, PathFacts DEF n
        <3>3. Untrusted(hops) = {}
            BY <1>1, <1>dom, <3>1, <3>2 DEF Untrusted, IsTrustedProxy
        <3> QED BY <3>1, <3>3 DEF WalkBack
    <2>2. CASE path[1] \notin Trusted
        <3>1. n > 1
            BY <1>1, <2>2, PathFacts DEF n
        <3>2. hops[k + 1] = path[1]
            BY <1>1, <3>1
        <3>3. ASSUME NEW i \in DOMAIN hops, i > k + 1 PROVE hops[i] \in Trusted
            <4>1. i - k \in 2 .. n - 1 /\ k + (i - k) = i
                BY <1>1, <1>dom, <3>3
            <4>2. hops[i] = path[i - k]
                BY <1>1, <4>1
            <4> QED BY <1>1, <4>1, <4>2, PathFacts DEF n
        <3>4. k + 1 \in Untrusted(hops) /\ Untrusted(hops) \in SUBSET Nat
            BY <1>1, <1>dom, <2>2, <3>1, <3>2 DEF Untrusted, IsTrustedProxy
        <3>5. \A i \in Untrusted(hops) : i <= k + 1
            BY <1>1, <1>dom, <3>3 DEF Untrusted, IsTrustedProxy
        <3>6. Max(Untrusted(hops)) = k + 1
            BY <3>4, <3>5, MaxIs
        <3> QED BY <3>4, <3>6 DEF WalkBack
    <2> QED BY <2>1, <2>2
<1> DEFINE kept == SubSeq(hops, k + 1, Len(hops))
           peer == Last(path)
           told == kept \o <<peer>>
<1>3. kept \in Seq(Nodes) /\ Len(kept) = n - 1 /\ \A i \in 1 .. n - 1 : kept[i] = path[i]
    <2>1. \A i \in k + 1 .. k + n - 1 : hops[i] \in Nodes
        BY <1>1, ElementOfSeq
    <2> DEFINE m == k + n - 1
    <2>2. m \in Int /\ k + 1 \in Int
        BY <1>1
    <2> HIDE DEF m
    <2>3. /\ SubSeq(hops, k + 1, m) \in Seq(Nodes)
          /\ Len(SubSeq(hops, k + 1, m)) = IF k + 1 <= m THEN m - (k + 1) + 1 ELSE 0
          /\ \A i \in 1 .. m - (k + 1) + 1 :
                SubSeq(hops, k + 1, m)[i] = hops[(k + 1) + i - 1]
        BY <2>1, <2>2, SubSeqProperties DEF m
    <2>4. \A i \in 1 .. n - 1 : (k + 1) + i - 1 = k + i
        BY <1>1
    <2> QED BY <1>1, <2>3, <2>4 DEF m
<1>4. /\ peer \in Nodes /\ peer = path[n]
      /\ <<peer>> \in Seq(Nodes) /\ Len(<<peer>>) = 1 /\ <<peer>>[1] = peer
    BY PathFacts, <1>1 DEF n
<1> HIDE DEF kept, peer
<1>5. told \in Seq(Nodes) /\ Len(told) = n /\ \A i \in 1 .. n : told[i] = path[i]
    <2>1. /\ told \in Seq(Nodes) /\ Len(told) = (n - 1) + 1
          /\ \A i \in 1 .. (n - 1) + 1 : told[i] =
                    IF i <= n - 1 THEN kept[i] ELSE <<peer>>[i - (n - 1)]
        BY <1>3, <1>4, ConcatProperties
    <2> QED BY <1>1, <1>3, <1>4, <2>1
<1>6. told = path
    BY <1>5, PathFacts, SeqEqual DEF n
<1> QED BY <1>1, <1>2, <1>6 DEF hops, kept, peer

\* setXForwardedFor, peer by peer: without an address, untrusted, or trusted with
\* a header that can be used or not.
LEMMA ToldTruePath ==
    ASSUME NEW path \in Paths, NEW supplied \in Supplied(path)
    PROVE  LET hops == supplied \o Front(path)
           IN  SetXForwardedFor(Last(path), hops) =
                    IF Last(path) = Garbage THEN NoHeader
                    ELSE IF Usable(hops) THEN path
                    ELSE <<Last(path)>>
<1> DEFINE hops == supplied \o Front(path)
           peer == Last(path)
<1>1. /\ peer \in Nodes /\ Len(path) \in Nat \ {0}
      /\ hops \in Seq(Nodes) /\ Len(hops) = Len(supplied) + Len(path) - 1
    BY PathFacts, SuppliedFacts
<1> HIDE DEF hops, peer
<1>2. CASE peer = Garbage
    <2>1. SetXForwardedFor(peer, hops) = NoHeader
        BY <1>2, ForwardedForAssumption DEF SetXForwardedFor
    <2> QED BY <1>2, <2>1 DEF hops, peer
<1>3. CASE peer \in Addresses \ Trusted
    <2>1. Len(path) = 1
        <3> DEFINE n == Len(path)
        <3>1. n \in Nat \ {0}
            BY <1>1
        <3>2. n \notin 2 .. n
            BY <1>3, PathFacts, Zenon DEF peer
        <3> HIDE DEF n
        <3>3. n = 1
            BY <3>1, <3>2
        <3> QED BY <3>3 DEF n
    <2>2. path = <<peer>>
        BY <2>1, PathFacts DEF peer
    <2>3. SetXForwardedFor(peer, hops) = <<peer>>
        BY <1>3, ForwardedForAssumption
        DEF SetXForwardedFor, SanitizeXForwardedFor, FormatXForwardedFor, IsTrustedProxy
    <2>4. peer # Garbage
        BY <1>3, ForwardedForAssumption
    <2> QED BY <2>2, <2>3, <2>4 DEF hops, peer
<1>4. CASE peer \in Trusted
    <2>1. peer \in Addresses /\ peer # Garbage
        BY <1>4, ForwardedForAssumption
    <2>2. CASE Usable(hops)
        <3>1. ParseXForwardedFor(hops) = hops /\ Len(hops) <= MaxHops
            BY <1>1, <2>2 DEF Usable, ParseXForwardedFor, Nodes
        <3>2. SubSeq(hops, WalkBack(hops), Len(hops)) \o <<peer>> = path
            BY <1>4, WalkBackKeepsPath DEF hops, peer
        <3>short. ~(Len(hops) > MaxHops)
            BY <1>1, <3>1, LenProperties, ForwardedForAssumption
        <3>3. SanitizeXForwardedFor(peer, hops) = path
            BY <1>4, <3>short, <3>2, Zenon DEF SanitizeXForwardedFor, IsTrustedProxy
        <3>4. Len(path) <= MaxHops + 1
            BY <1>1, <3>1, SuppliedFacts, LenProperties, ForwardedForAssumption
        <3>5. SetXForwardedFor(peer, hops) = path
            BY <1>1, <1>4, <2>1, <3>1, <3>3, <3>4, ForwardedForAssumption
            DEF SetXForwardedFor, FormatXForwardedFor, IsTrustedProxy
        <3> QED BY <2>1, <2>2, <3>5 DEF hops, peer
    <2>3. CASE ~Usable(hops)
        <3>1. ParseXForwardedFor(hops) = <<>>
            <4>1. ~(Len(hops) <= MaxHops /\ \A i \in DOMAIN hops : hops[i] \in Addresses)
                BY <1>1, <2>3, ForwardedForAssumption DEF Usable
            <4> QED BY <4>1 DEF ParseXForwardedFor
        <3>2. WalkBack(<<>>) = 1
            BY DEF Untrusted, WalkBack
        <3>3. SubSeq(<<>>, 1, 0) = <<>> /\ <<>> \o <<peer>> = <<peer>>
            OBVIOUS
        <3>4. SanitizeXForwardedFor(peer, <<>>) = <<peer>>
            BY <1>4, <3>2, <3>3, ForwardedForAssumption
            DEF SanitizeXForwardedFor, IsTrustedProxy
        <3>5. FormatXForwardedFor(<<peer>>) = <<peer>>
            BY ForwardedForAssumption DEF FormatXForwardedFor
        <3>6. SetXForwardedFor(peer, hops) = <<peer>>
            BY <1>4, <2>1, <3>1, <3>4, <3>5 DEF SetXForwardedFor, IsTrustedProxy
        <3> QED BY <2>1, <2>3, <3>6 DEF hops, peer
    <2> QED BY <2>2, <2>3
<1>5. peer = Garbage \/ peer \in Addresses \ Trusted \/ peer \in Trusted
    BY <1>1 DEF Nodes
<1> QED BY <1>2, <1>3, <1>4, <1>5

\* What a request looks like when it leaves.
LEMMA OutgoingFacts ==
    ASSUME NEW w \in Outgoing
    PROVE  \E path \in Paths : \E supplied \in Supplied(path) :
           \E policy \in Policies : \E headers \in Received :
                LET hops == supplied \o Front(path)
                IN  /\ w.sent = TRUE /\ w.path = path /\ w.usable = Usable(hops)
                    /\ w.policy = policy /\ Valid(policy) /\ w.received = headers
                    /\ w.out \in Rewritten(policy, headers, Last(path), hops)
<1>1. PICK arrival \in Arrivals, policy \in {p \in Policies : Valid(p)},
           headers \in Received :
        w \in OutgoingFor(arrival, policy, headers)
    BY DEF Outgoing
<1>2. PICK path \in Paths : arrival \in [path : {path}, supplied : Supplied(path)]
    BY DEF Arrivals
<1>3. arrival.path = path /\ arrival.supplied \in Supplied(path)
    BY <1>2
<1> DEFINE supplied == arrival.supplied
           hops == supplied \o Front(path)
           rewritten == Rewritten(policy, headers, Last(path), hops)
<1>4. w \in [sent : {TRUE}, path : {path}, usable : {Usable(hops)},
             policy : {policy}, received : {headers}, out : rewritten]
    BY <1>1, <1>3 DEF OutgoingFor
<1> HIDE DEF supplied, hops, rewritten
<1>5. /\ w.sent = TRUE /\ w.path = path /\ w.usable = Usable(hops)
      /\ w.policy = policy /\ w.received = headers /\ w.out \in rewritten
    BY <1>4
<1> QED BY <1>3, <1>5 DEF supplied, hops, rewritten

\* X-Forwarded-For is written last, and nothing else is.
LEMMA RewrittenFacts ==
    ASSUME NEW policy \in Policies, NEW headers \in Received,
           NEW remote, NEW hops, NEW out \in Rewritten(policy, headers, remote, hops)
    PROVE  /\ out[XForwardedFor] = SetXForwardedFor(remote, hops)
           /\ \E changed \in Applied(policy, Stripped(headers)) :
                \A n \in Names \ {XForwardedFor} : out[n] = changed[n]
<1>1. PICK changed \in Applied(policy, Stripped(headers)) :
        out = [changed EXCEPT ![XForwardedFor] = SetXForwardedFor(remote, hops)]
    BY DEF Rewritten
<1>2. DOMAIN changed = Names /\ changed = [n \in Names |-> changed[n]]
    BY DEF Applied
<1> QED BY <1>1, <1>2, OutgoingAssumption

\* A valid policy writes no header twice, so the order of Apply cannot matter.
LEMMA PolicyOnHeaders ==
    ASSUME NEW policy \in Policies, Valid(policy), NEW headers \in Received,
           NEW changed \in Applied(policy, Stripped(headers))
    PROVE  /\ \A s \in DOMAIN policy.set : changed[Canonical[s]] = policy.set[s]
           /\ \A s \in policy.remove : changed[Canonical[s]] = Absent
           /\ \A n \in Names \ {XForwardedFor} :
                (\A s \in DOMAIN policy.set \cup policy.remove : Canonical[s] # n)
                    => changed[n] = headers[n]
<1> DEFINE all == Stripped(headers)
           written == DOMAIN policy.set
           writers(n) == {s \in written : Canonical[s] = n}
           removed == {Canonical[s] : s \in policy.remove}
<1>1. \A n \in Names :
        IF writers(n) # {}
        THEN \E s \in writers(n) : changed[n] = policy.set[s]
        ELSE changed[n] = IF n \in removed THEN Absent ELSE all[n]
    BY DEF Applied
<1>2. written \subseteq Spellings /\ policy.remove \subseteq Spellings
    BY DEF Policies
<1>3. \A s \in Spellings : Canonical[s] \in Names
    BY DEF Names
<1>4. \A s, t \in written \cup policy.remove : Canonical[s] = Canonical[t] => s = t
    BY DEF Valid
<1>5. written \cap policy.remove = {}
    BY DEF Valid
<1>6. \A n \in Names \ {XForwardedFor} : all[n] = headers[n]
    BY DEF Stripped
<1> HIDE DEF all
<1>7. \A s \in written : changed[Canonical[s]] = policy.set[s]
    BY <1>1, <1>2, <1>3, <1>4
<1>8. ASSUME NEW s \in policy.remove PROVE changed[Canonical[s]] = Absent
    <2>1. writers(Canonical[s]) = {}
        BY <1>4, <1>5
    <2> QED BY <1>1, <1>2, <1>3, <2>1
<1>9. ASSUME NEW n \in Names \ {XForwardedFor},
             \A s \in written \cup policy.remove : Canonical[s] # n
      PROVE  changed[n] = headers[n]
    BY <1>1, <1>6, <1>9
<1> QED BY <1>7, <1>8, <1>9

\* The request on the wire is none, or one that Rewrite has made.
WireOK == wire \in {Nothing} \cup Outgoing

LEMMA WireInvariance == OutgoingSpec => []WireOK
<1>1. OutgoingInit => WireOK
    BY DEF OutgoingInit, WireOK
<1>2. WireOK /\ [OutgoingNext]_outgoingVars => WireOK'
    <2> SUFFICES ASSUME WireOK, [OutgoingNext]_outgoingVars PROVE WireOK'
        OBVIOUS
    <2>1. CASE UNCHANGED outgoingVars
        BY <2>1 DEF outgoingVars, WireOK
    <2>2. ASSUME NEW r \in Callers, Draw(r) PROVE WireOK'
        BY <2>2 DEF Draw, WireOK
    <2>3. ASSUME NEW r \in Callers, SendRoundRobin(r) PROVE WireOK'
        BY <2>3 DEF SendRoundRobin, Rewrite, WireOK
    <2>4. CASE SendRandom
        BY <2>4 DEF SendRandom, Rewrite, WireOK
    <2>5. CASE Leave
        BY <2>5 DEF Leave, WireOK
    <2>6. ASSUME NEW list \in Offered, PublishSnapshot(list) PROVE WireOK'
        BY <2>6 DEF PublishSnapshot, WireOK
    <2> QED BY <2>1, <2>2, <2>3, <2>4, <2>5, <2>6 DEF OutgoingNext
<1> QED BY <1>1, <1>2, PTL DEF OutgoingSpec

\* The upstream is told the nodes a request has come through, all of them and
\* no other, whatever its sender has written into the header; or the peer.
THEOREM PathIsAlwaysTrue == OutgoingSpec => []ForwardsTruePath
<1>1. WireOK => ForwardsTruePath
    <2> SUFFICES ASSUME WireOK, wire.sent PROVE ForwardsTruePath
        BY DEF ForwardsTruePath
    <2>1. wire \in Outgoing
        BY DEF WireOK, Nothing
    <2>from. PICK path \in Paths :
            \E supplied \in Supplied(path), policy \in Policies, headers \in Received :
                LET hops == supplied \o Front(path)
                IN  /\ wire.path = path /\ wire.usable = Usable(hops)
                    /\ wire.out \in Rewritten(policy, headers, Last(path), hops)
        BY <2>1, OutgoingFacts
    <2>2. PICK supplied \in Supplied(path), policy \in Policies, headers \in Received :
            LET hops == supplied \o Front(path)
            IN  /\ wire.path = path /\ wire.usable = Usable(hops)
                /\ wire.out \in Rewritten(policy, headers, Last(path), hops)
        BY <2>from
    <2> DEFINE hops == supplied \o Front(path)
    <2>3. wire.out[XForwardedFor] = SetXForwardedFor(Last(path), hops)
        BY <2>2, RewrittenFacts
    <2>4. SetXForwardedFor(Last(path), hops) =
                IF Last(path) = Garbage THEN NoHeader
                ELSE IF Usable(hops) THEN path
                ELSE <<Last(path)>>
        BY ToldTruePath
    <2>5. wire.path = path /\ wire.usable = Usable(hops)
        BY <2>2
    <2> HIDE DEF hops
    <2> QED BY <2>3, <2>4, <2>5 DEF ForwardsTruePath
<1> QED BY <1>1, WireInvariance, PTL

\* What an accepted configuration asks of the headers is done, whatever order
\* Apply takes, and no other header changes.
THEOREM HeadersAlwaysAsConfigured == OutgoingSpec => []HeadersAsConfigured
<1>1. WireOK => HeadersAsConfigured
    <2> SUFFICES ASSUME WireOK, wire.sent PROVE HeadersAsConfigured
        BY DEF HeadersAsConfigured
    <2>1. wire \in Outgoing
        BY DEF WireOK, Nothing
    <2>from. PICK path \in Paths :
            \E supplied \in Supplied(path), policy \in Policies, headers \in Received :
                LET hops == supplied \o Front(path)
                IN  /\ wire.policy = policy /\ Valid(policy) /\ wire.received = headers
                    /\ wire.out \in Rewritten(policy, headers, Last(path), hops)
        BY <2>1, OutgoingFacts
    <2>2. PICK supplied \in Supplied(path), policy \in Policies, headers \in Received :
            LET hops == supplied \o Front(path)
            IN  /\ wire.policy = policy /\ Valid(policy) /\ wire.received = headers
                /\ wire.out \in Rewritten(policy, headers, Last(path), hops)
        BY <2>from
    <2>3. PICK changed \in Applied(policy, Stripped(headers)) :
            \A n \in Names \ {XForwardedFor} : wire.out[n] = changed[n]
        BY <2>2, RewrittenFacts
    <2>4. /\ \A s \in DOMAIN policy.set : changed[Canonical[s]] = policy.set[s]
          /\ \A s \in policy.remove : changed[Canonical[s]] = Absent
          /\ \A n \in Names \ {XForwardedFor} :
                (\A s \in DOMAIN policy.set \cup policy.remove : Canonical[s] # n)
                    => changed[n] = headers[n]
        BY <2>2, <2>3, PolicyOnHeaders
    <2>5. \A s \in DOMAIN policy.set \cup policy.remove :
            Canonical[s] \in Names \ {XForwardedFor}
        BY <2>2, OutgoingAssumption DEF Valid, Policies, Names
    <2> QED BY <2>2, <2>3, <2>4, <2>5 DEF HeadersAsConfigured
<1> QED BY <1>1, WireInvariance, PTL

=============================================================================
