-------------------------- MODULE EjectionContract --------------------------
(****************************************************************************)
(* What passive health promises for one endpoint, without time, generations *)
(* or state objects.  Only requests admitted since the endpoint last became *)
(* eligible count; EjectionThreshold consecutive failures among them eject  *)
(* it; an ejected endpoint admits nobody; and one that joins again starts   *)
(* from nothing.                                                            *)
(*                                                                          *)
(* PassiveHealthTracker implements this specification for each endpoint.    *)
(****************************************************************************)
EXTENDS Naturals

CONSTANTS
    Requests,             \* the requests that may be sent to it
    EjectionThreshold,    \* consecutive failures that eject it
    Joined                \* whether it is in the set at first

VARIABLES
    status,     \* "absent", "eligible" or "ejected"
    counted,    \* requests in flight whose outcome will count
    streak      \* failures counted since the last success

contractVars == <<status, counted, streak>>

Init ==
    /\ status = IF Joined THEN "eligible" ELSE "absent"
    /\ counted = {}
    /\ streak = 0

Join ==
    /\ status = "absent"
    /\ status' = "eligible"
    /\ UNCHANGED <<counted, streak>>

Leave ==
    /\ status # "absent"
    /\ status' = "absent"
    /\ counted' = {}
    /\ streak' = 0

Readmit ==
    /\ status = "ejected"
    /\ status' = "eligible"
    /\ UNCHANGED <<counted, streak>>

\* A request is admitted by an eligible endpoint, or is the one that finds
\* the ejection over.
Admit(r) ==
    /\ status # "absent"
    /\ r \notin counted
    /\ status' = "eligible"
    /\ counted' = counted \cup {r}
    /\ UNCHANGED streak

Succeed(r) ==
    /\ r \in counted
    /\ counted' = counted \ {r}
    /\ streak' = 0
    /\ UNCHANGED status

Abandon(r) ==
    /\ r \in counted
    /\ counted' = counted \ {r}
    /\ UNCHANGED <<status, streak>>

Fail(r) ==
    /\ r \in counted
    /\ streak + 1 < EjectionThreshold
    /\ counted' = counted \ {r}
    /\ streak' = streak + 1
    /\ UNCHANGED status

\* The requests still in flight stop counting.
Eject(r) ==
    /\ r \in counted
    /\ streak + 1 >= EjectionThreshold
    /\ status' = "ejected"
    /\ counted' = {}
    /\ streak' = 0

Next ==
    \/ Join \/ Leave \/ Readmit
    \/ \E r \in Requests :
        Admit(r) \/ Succeed(r) \/ Abandon(r) \/ Fail(r) \/ Eject(r)

Spec == Init /\ [][Next]_contractVars

=============================================================================
