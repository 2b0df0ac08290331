------------------------ MODULE PassiveHealthProofs ------------------------
(****************************************************************************)
(* Safety of the passive health tracker for any endpoints and requests, any *)
(* threshold and any duration of ejections.  Two facts carry the proofs: a  *)
(* new generation is one that no permit has, and a new object lies where no *)
(* permit points.  Either way, nobody counts for an endpoint that has just  *)
(* begun another life.                                                      *)
(****************************************************************************)
EXTENDS PassiveHealthTracker, TLAPS

LEMMA NextGenerationIsFree ==
    ASSUME permit \in [Requests -> Permits], NEW e \in Endpoints
    PROVE  /\ NextGeneration(e) \in Generations
           /\ \A r \in Holders(e) : permit[r].generation # NextGeneration(e)
<1> DEFINE held == [r \in Requests |-> permit[r].generation]
<1>1. held \in [Requests -> Generations]
    BY DEF Permits
<1>2. \E g \in Generations : \A r \in Requests : held[r] # g
    BY <1>1, PassiveAssumption DEF Spare
<1>3. \E g \in Generations : \A r \in Holders(e) : permit[r].generation # g
    BY <1>2 DEF Holders
<1> QED BY <1>3 DEF NextGeneration

LEMMA FreshAddressIsFree ==
    ASSUME permit \in [Requests -> Permits], NEW e \in Endpoints
    PROVE  /\ FreshAddress(e) \in Addresses
           /\ \A r \in Holders(e) : permit[r].address # FreshAddress(e)
<1> DEFINE held == [r \in Requests |-> permit[r].address]
<1>1. held \in [Requests -> Addresses]
    BY DEF Permits
<1>2. \E a \in Addresses : \A r \in Requests : held[r] # a
    BY <1>1, PassiveAssumption DEF Spare
<1>3. \E a \in Addresses : \A r \in Holders(e) : permit[r].address # a
    BY <1>2 DEF Holders
<1> QED BY <1>3 DEF FreshAddress

-----------------------------------------------------------------------------
(* Types.                                                                   *)

LEMMA NewStateType ==
    ASSUME NEW a \in Addresses
    PROVE  NewState(a) \in EndpointState
BY PassiveAssumption DEF NewState, EndpointState, NotEjected

\* The fields of a state after one of them, or all but the address, are set.
LEMMA OneFieldSet ==
    ASSUME NEW s \in EndpointState, NEW f
    PROVE  /\ [s EXCEPT !.failures = f]
                = [address |-> s.address, failures |-> f,
                   ejection |-> s.ejection, generation |-> s.generation]
           /\ s = [address |-> s.address, failures |-> s.failures,
                   ejection |-> s.ejection, generation |-> s.generation]
BY DEF EndpointState

LEMMA ThreeFieldsSet ==
    ASSUME NEW s \in EndpointState, NEW d, NEW g
    PROVE  [s EXCEPT !.ejection = d, !.failures = 0, !.generation = g]
                = [address |-> s.address, failures |-> 0,
                   ejection |-> d, generation |-> g]
<1> DEFINE t == [s EXCEPT !.ejection = d]
           u == [t EXCEPT !.failures = 0]
<1>1. t = [address |-> s.address, failures |-> s.failures,
           ejection |-> d, generation |-> s.generation]
    BY DEF EndpointState
<1> HIDE DEF t
<1>2. u = [address |-> s.address, failures |-> 0,
           ejection |-> d, generation |-> s.generation]
    BY <1>1
<1> HIDE DEF u
<1>3. [u EXCEPT !.generation = g]
        = [address |-> s.address, failures |-> 0, ejection |-> d, generation |-> g]
    BY <1>2
<1> QED BY <1>3 DEF t, u

\* What Readmitted and Outcome make of an endpoint's state, field by field.
LEMMA ReadmittedFields ==
    ASSUME NEW e \in Endpoints, state[e] \in EndpointState
    PROVE  /\ state[e].ejection = 0 =>
                Readmitted(e) = [address |-> state[e].address, failures |-> 0,
                                 ejection |-> NotEjected,
                                 generation |-> NextGeneration(e)]
           /\ state[e].ejection # 0 => Readmitted(e) = state[e]
BY ThreeFieldsSet DEF Readmitted

LEMMA OutcomeFields ==
    ASSUME NEW e \in Endpoints, state[e] \in EndpointState,
           NEW outcome \in {"ignored", "failure", "success"}
    PROVE  /\ Ejects(state[e], outcome) =>
                Outcome(e, outcome) = [address |-> state[e].address, failures |-> 0,
                                       ejection |-> EjectionDuration,
                                       generation |-> NextGeneration(e)]
           /\ ~Ejects(state[e], outcome) =>
                Outcome(e, outcome) =
                    [address |-> state[e].address,
                     failures |-> CASE outcome = "failure" -> state[e].failures + 1
                                    [] outcome = "success" -> 0
                                    [] outcome = "ignored" -> state[e].failures,
                     ejection |-> state[e].ejection,
                     generation |-> state[e].generation]
<1>1. CASE Ejects(state[e], outcome)
    BY <1>1, ThreeFieldsSet DEF Outcome, Ejects
<1>2. CASE ~Ejects(state[e], outcome) /\ outcome = "failure"
    <2>1. Outcome(e, outcome) = [state[e] EXCEPT !.failures = state[e].failures + 1]
        BY <1>2 DEF Outcome
    <2> QED BY <1>2, <2>1, OneFieldSet
<1>3. CASE outcome = "success"
    <2>1. Outcome(e, outcome) = [state[e] EXCEPT !.failures = 0]
        BY <1>3 DEF Outcome, Ejects
    <2> QED BY <1>3, <2>1, OneFieldSet DEF Ejects
<1>4. CASE outcome = "ignored"
    <2>1. Outcome(e, outcome) = state[e]
        BY <1>4 DEF Outcome, Ejects
    <2> QED BY <1>4, <2>1, OneFieldSet DEF Ejects
<1> QED BY <1>1, <1>2, <1>3, <1>4

LEMMA ReadmittedType ==
    ASSUME PassiveTypeOK, NEW e \in Endpoints
    PROVE  Readmitted(e) \in EndpointState
<1>1. state[e] \in EndpointState /\ NextGeneration(e) \in Generations
    BY NextGenerationIsFree DEF PassiveTypeOK
<1> QED BY <1>1, ReadmittedFields, PassiveAssumption DEF EndpointState, NotEjected

LEMMA OutcomeType ==
    ASSUME PassiveTypeOK, NEW e \in Endpoints,
           NEW outcome \in {"ignored", "failure", "success"}
    PROVE  Outcome(e, outcome) \in EndpointState
<1>1. state[e] \in EndpointState /\ NextGeneration(e) \in Generations
    BY NextGenerationIsFree DEF PassiveTypeOK
<1>2. CASE Ejects(state[e], outcome)
    BY <1>1, <1>2, OutcomeFields, PassiveAssumption DEF EndpointState, NotEjected
<1>3. CASE ~Ejects(state[e], outcome)
    <2>1. outcome = "failure" => state[e].failures + 1 \in 0 .. EjectionThreshold - 1
        BY <1>1, <1>3, PassiveAssumption DEF Ejects, EndpointState
    <2>2. Outcome(e, outcome).failures \in 0 .. EjectionThreshold - 1
        BY <1>1, <1>3, <2>1, OutcomeFields, PassiveAssumption DEF EndpointState
    <2> QED BY <1>1, <1>3, <2>2, OutcomeFields DEF EndpointState
<1> QED BY <1>2, <1>3

LEMMA ClassifyType ==
    ASSUME NEW contextDone \in BOOLEAN, NEW result \in Results
    PROVE  ClassifyOutcome(contextDone, result) \in {"ignored", "failure", "success"}
BY DEF ClassifyOutcome, Results

LEMMA TypeInit == PassiveInit => PassiveTypeOK
BY PassiveAssumption, NewStateType
   DEF PassiveInit, PassiveTypeOK, Permits, NoPermit

LEMMA TypeStep == PassiveTypeOK /\ [PassiveNext]_passiveVars => PassiveTypeOK'
<1> SUFFICES ASSUME PassiveTypeOK, [PassiveNext]_passiveVars
             PROVE  PassiveTypeOK'
    OBVIOUS
<1>1. CASE ClearExpired
    BY <1>1, ReadmittedType DEF ClearExpired, PassiveTypeOK
<1>2. ASSUME NEW endpoints \in SUBSET Endpoints, Replace(endpoints)
      PROVE  PassiveTypeOK'
    <2>1. \A e \in Endpoints : /\ NewState(FirstAddress) \in EndpointState
                               /\ NewState(FreshAddress(e)) \in EndpointState
        BY PassiveAssumption, FreshAddressIsFree, NewStateType DEF PassiveTypeOK
    <2> QED BY <1>2, <2>1 DEF Replace, PassiveTypeOK
<1>3. ASSUME NEW r \in Requests, NEW e \in Endpoints, AcquirePermit(r, e)
      PROVE  PassiveTypeOK'
    <2>1. Readmitted(e) \in EndpointState /\ state[e] \in EndpointState
        BY ReadmittedType DEF PassiveTypeOK
    <2>2. [target |-> e, address |-> state[e].address,
           generation |-> Readmitted(e).generation] \in Permits
        BY <2>1 DEF Permits, EndpointState
    <2> QED BY <1>3, <2>1, <2>2 DEF AcquirePermit, PassiveTypeOK
<1>4. ASSUME NEW r \in Requests, RoundTripEnds(r)
      PROVE  PassiveTypeOK'
    <2> PICK outcome \in {"ignored", "failure", "success"} : RecordOutcome(r, outcome)
        BY <1>4, ClassifyType DEF RoundTripEnds
    <2>1. NoPermit \in Permits
        BY PassiveAssumption DEF NoPermit, Permits
    <2>2. Heeded(r) => /\ permit[r].target \in Endpoints
                       /\ Outcome(permit[r].target, outcome) \in EndpointState
        BY OutcomeType DEF Heeded, PassiveTypeOK
    <2> QED BY <2>1, <2>2 DEF RecordOutcome, PassiveTypeOK
<1>5. CASE PassiveTick
    <2>1. \A e \in Endpoints :
            state[e].ejection > 0 =>
                [state[e] EXCEPT !.ejection = @ - 1] \in EndpointState
        BY PassiveAssumption DEF PassiveTypeOK, EndpointState, NotEjected
    <2> QED BY <1>5, <2>1 DEF PassiveTick, Elapse, PassiveTypeOK
<1>6. CASE UNCHANGED passiveVars
    BY <1>6 DEF passiveVars, PassiveTypeOK
<1> QED BY <1>1, <1>2, <1>3, <1>4, <1>5, <1>6 DEF PassiveNext

\* The tracker's state keeps its type: in particular a streak never reaches
\* the threshold without ejecting, and no ejection outlasts its duration.
THEOREM TypeCorrect == PassiveSpec => []PassiveTypeOK
BY TypeInit, TypeStep, PTL DEF PassiveSpec

-----------------------------------------------------------------------------
(* What the steps do to one endpoint, and to the requests counted for it.   *)

\* The requests counted for an endpoint stay the same while permits and the
\* identity of its state do.
LEMMA CountedStays ==
    ASSUME NEW e \in Endpoints, permit' = permit,
           e \in members' <=> e \in members,
           state'[e].address = state[e].address,
           state'[e].generation = state[e].generation
    PROVE  Counted(e)' = Counted(e)
BY DEF Counted, Holders, Heeded

LEMMA ClearExpiredEffect ==
    ASSUME IInv, ClearExpired, NEW e \in Endpoints
    PROVE  /\ members' = members
           /\ state'[e].failures = state[e].failures
           /\ Counted(e)' = Counted(e)
           /\ state'[e].ejection =
                IF e \in members /\ state[e].ejection = 0 THEN NotEjected
                                                       ELSE state[e].ejection
<1>1. /\ state[e] \in EndpointState
      /\ permit \in [Requests -> Permits]
      /\ members' = members /\ permit' = permit
      /\ state'[e] = IF e \in members THEN Readmitted(e) ELSE state[e]
    BY DEF IInv, PassiveTypeOK, ClearExpired
<1>2. CASE e \in members /\ state[e].ejection = 0
    <2>1. /\ state'[e].ejection = NotEjected
          /\ state'[e].failures = 0
          /\ state'[e].generation = NextGeneration(e)
        BY <1>1, <1>2, ReadmittedFields
    <2>2. Counted(e) = {} /\ state[e].failures = 0
        BY <1>2 DEF IInv, EjectedHearsNobody, StreakOnlyEligible, NotEjected
    <2>3. Counted(e)' = {}
        BY <1>1, <2>1, NextGenerationIsFree DEF Counted, Holders, Heeded
    <2> QED BY <1>1, <1>2, <2>1, <2>2, <2>3
<1>3. CASE ~(e \in members /\ state[e].ejection = 0)
    <2>1. state'[e] = state[e]
        BY <1>1, <1>3, ReadmittedFields
    <2> QED BY <1>1, <1>3, <2>1, CountedStays
<1> QED BY <1>2, <1>3

LEMMA ReplaceEffect ==
    ASSUME IInv, NEW endpoints \in SUBSET Endpoints, Replace(endpoints),
           NEW e \in Endpoints
    PROVE  /\ members' = endpoints
           /\ (e \in members <=> e \in endpoints) =>
                state'[e] = state[e] /\ Counted(e)' = Counted(e)
           /\ ~(e \in members <=> e \in endpoints) =>
                /\ state'[e].failures = 0
                /\ state'[e].ejection = NotEjected
                /\ Counted(e)' = {}
<1>1. /\ permit \in [Requests -> Permits]
      /\ members' = endpoints /\ permit' = permit
      /\ state'[e] = IF e \in members
                     THEN IF e \in endpoints THEN state[e] ELSE NewState(FirstAddress)
                     ELSE IF e \in endpoints THEN NewState(FreshAddress(e))
                                             ELSE state[e]
    BY DEF IInv, PassiveTypeOK, Replace
<1>2. CASE e \in members <=> e \in endpoints
    BY <1>1, <1>2, CountedStays
<1>3. CASE e \in members /\ e \notin endpoints
    <2>1. Counted(e)' = {}
        BY <1>1, <1>3 DEF Counted, Holders, Heeded
    <2> QED BY <1>1, <1>3, <2>1 DEF NewState
<1>4. CASE e \notin members /\ e \in endpoints
    <2>1. state'[e] = NewState(FreshAddress(e))
        BY <1>1, <1>4
    <2>2. state'[e].address = FreshAddress(e)
        BY <2>1 DEF NewState
    <2>3. Counted(e)' = {}
        BY <1>1, <2>2, FreshAddressIsFree DEF Counted, Holders, Heeded
    <2> QED BY <1>1, <1>4, <2>1, <2>3 DEF NewState
<1> QED BY <1>2, <1>3, <1>4

LEMMA AcquireEffect ==
    ASSUME IInv, NEW r \in Requests, NEW d \in Endpoints, AcquirePermit(r, d),
           NEW e \in Endpoints
    PROVE  /\ members' = members
           /\ e # d => state'[e] = state[e] /\ Counted(e)' = Counted(e)
           /\ e = d => /\ e \in members
                       /\ state[e].ejection \in {0, NotEjected}
                       /\ state'[e].ejection = NotEjected
                       /\ state'[e].failures = state[e].failures
                       /\ r \notin Counted(e)
                       /\ Counted(e)' = Counted(e) \cup {r}
<1>1. /\ state \in [Endpoints -> EndpointState]
      /\ permit \in [Requests -> Permits]
      /\ members' = members
      /\ permit[r] = NoPermit
      /\ d \in members /\ state[d].ejection <= 0
      /\ state' = [state EXCEPT ![d] = Readmitted(d)]
      /\ permit' = [permit EXCEPT
                    ![r] = [target     |-> d,
                            address    |-> state[d].address,
                            generation |-> Readmitted(d).generation]]
    BY DEF IInv, PassiveTypeOK, AcquirePermit, HealthyEndpoints, Available
<1>2. permit[r].target \notin Endpoints
    BY <1>1, PassiveAssumption DEF NoPermit
<1>3. /\ permit'[r].target = d
      /\ permit'[r].address = state[d].address
      /\ permit'[r].generation = Readmitted(d).generation
      /\ \A q \in Requests \ {r} : permit'[q] = permit[q]
    BY <1>1
<1>4. CASE e # d
    <2>1. state'[e] = state[e]
        BY <1>1, <1>4
    <2>2. Counted(e)' = Counted(e)
        BY <1>1, <1>2, <1>3, <1>4, <2>1 DEF Counted, Holders, Heeded
    <2> QED BY <1>1, <1>4, <2>1, <2>2
<1>5. CASE e = d
    <2>1. state'[e] = Readmitted(e)
        BY <1>1, <1>5
    <2>2. state[e].ejection \in {0, NotEjected}
        BY <1>1, <1>5, PassiveAssumption DEF EndpointState, NotEjected
    <2>3. r \notin Counted(e)
        BY <1>2 DEF Counted, Holders
    <2>4. CASE state[e].ejection = 0
        <3>1. /\ Readmitted(e).address = state[e].address
              /\ Readmitted(e).failures = 0
              /\ Readmitted(e).ejection = NotEjected
              /\ Readmitted(e).generation = NextGeneration(e)
            BY <1>1, <2>4, ReadmittedFields
        <3>2. Counted(e) = {} /\ state[e].failures = 0
            BY <1>1, <1>5, <2>4
               DEF IInv, EjectedHearsNobody, StreakOnlyEligible, NotEjected
        <3>3. \A q \in Requests \ {r} : q \notin Counted(e)'
            BY <1>1, <1>3, <2>1, <3>1, NextGenerationIsFree
               DEF Counted, Holders, Heeded
        <3>4. r \in Counted(e)'
            BY <1>1, <1>3, <1>5, <2>1, <3>1 DEF Counted, Holders, Heeded
        <3>5. Counted(e)' = {r}
            BY <3>3, <3>4 DEF Counted, Holders
        <3> QED BY <1>1, <1>5, <2>1, <2>2, <2>3, <3>1, <3>2, <3>5
    <2>5. CASE state[e].ejection = NotEjected
        <3>1. Readmitted(e) = state[e]
            BY <1>1, <2>5, ReadmittedFields DEF NotEjected
        <3>2. Counted(e)' = Counted(e) \cup {r}
            BY <1>1, <1>3, <1>5, <2>1, <3>1 DEF Counted, Holders, Heeded
        <3> QED BY <1>1, <1>5, <2>1, <2>2, <2>3, <2>5, <3>1, <3>2
    <2> QED BY <2>2, <2>4, <2>5
<1> QED BY <1>4, <1>5

\* An outcome that is not heeded changes nothing but the request's permit.
\* One that is heeded makes its request leave the counted ones, or all of them
\* when it ejects.
LEMMA RecordEffect ==
    ASSUME IInv, NEW r \in Requests, NEW outcome \in {"ignored", "failure", "success"},
           RecordOutcome(r, outcome), NEW e \in Endpoints
    PROVE  /\ members' = members
           /\ r \notin Counted(e) => state'[e] = state[e] /\ Counted(e)' = Counted(e)
           /\ r \in Counted(e) =>
                /\ e \in members /\ state[e].ejection = NotEjected
                /\ Ejects(state[e], outcome) =>
                    /\ state'[e].ejection = EjectionDuration
                    /\ state'[e].failures = 0
                    /\ Counted(e)' = {}
                /\ ~Ejects(state[e], outcome) =>
                    /\ state'[e].ejection = NotEjected
                    /\ state'[e].failures =
                        CASE outcome = "failure" -> state[e].failures + 1
                          [] outcome = "success" -> 0
                          [] outcome = "ignored" -> state[e].failures
                    /\ Counted(e)' = Counted(e) \ {r}
<1>1. /\ state \in [Endpoints -> EndpointState]
      /\ permit \in [Requests -> Permits]
      /\ members \subseteq Endpoints
      /\ members' = members
      /\ permit' = [permit EXCEPT ![r] = NoPermit]
      /\ state' = IF Heeded(r)
                  THEN [state EXCEPT ![permit[r].target] =
                                        Outcome(permit[r].target, outcome)]
                  ELSE state
    BY DEF IInv, PassiveTypeOK, RecordOutcome
<1>2. /\ permit'[r].target \notin Endpoints
      /\ \A q \in Requests \ {r} : permit'[q] = permit[q]
    BY <1>1, PassiveAssumption DEF NoPermit
<1>3. CASE r \notin Counted(e)
    <2>1. ~(Heeded(r) /\ permit[r].target = e)
        BY <1>3 DEF Counted, Holders
    <2>2. state'[e] = state[e]
        BY <1>1, <2>1 DEF Heeded
    <2>3. Counted(e)' = Counted(e)
        BY <1>1, <1>2, <1>3, <2>2 DEF Counted, Holders, Heeded
    <2> QED BY <1>1, <1>3, <2>2, <2>3
<1>4. CASE r \in Counted(e)
    <2>1. Heeded(r) /\ permit[r].target = e /\ e \in members
        BY <1>4 DEF Counted, Holders, Heeded
    <2>2. state'[e] = Outcome(e, outcome) /\ state[e] \in EndpointState
        BY <1>1, <2>1
    <2>3. state[e].ejection = NotEjected
        BY <1>4, <2>1 DEF IInv, EjectedHearsNobody
    <2>4. CASE Ejects(state[e], outcome)
        <3>1. /\ state'[e].ejection = EjectionDuration
              /\ state'[e].failures = 0
              /\ state'[e].generation = NextGeneration(e)
            BY <2>2, <2>4, OutcomeFields
        <3>2. Counted(e)' = {}
            BY <1>1, <1>2, <3>1, NextGenerationIsFree DEF Counted, Holders, Heeded
        <3> QED BY <1>1, <1>4, <2>1, <2>3, <2>4, <3>1, <3>2
    <2>5. CASE ~Ejects(state[e], outcome)
        <3>1. /\ state'[e].address = state[e].address
              /\ state'[e].generation = state[e].generation
              /\ state'[e].ejection = state[e].ejection
              /\ state'[e].failures =
                    CASE outcome = "failure" -> state[e].failures + 1
                      [] outcome = "success" -> 0
                      [] outcome = "ignored" -> state[e].failures
            BY <2>2, <2>5, OutcomeFields
        <3>2. Counted(e)' = Counted(e) \ {r}
            BY <1>1, <1>2, <2>1, <3>1 DEF Counted, Holders, Heeded
        <3> QED BY <1>1, <1>4, <2>1, <2>3, <2>5, <3>1, <3>2
    <2> QED BY <2>4, <2>5
<1> QED BY <1>3, <1>4

LEMMA ElapseEffect ==
    ASSUME IInv, Elapse, NEW e \in Endpoints
    PROVE  /\ members' = members
           /\ state'[e].failures = state[e].failures
           /\ state'[e].ejection = IF state[e].ejection > 0 THEN state[e].ejection - 1
                                                         ELSE state[e].ejection
           /\ Counted(e)' = Counted(e)
<1>1. /\ state[e] \in EndpointState
      /\ members' = members /\ permit' = permit
      /\ state'[e] = IF state[e].ejection > 0
                     THEN [state[e] EXCEPT !.ejection = @ - 1] ELSE state[e]
    BY DEF IInv, PassiveTypeOK, Elapse
<1>2. /\ state'[e].address = state[e].address
      /\ state'[e].generation = state[e].generation
      /\ state'[e].failures = state[e].failures
      /\ state'[e].ejection = IF state[e].ejection > 0 THEN state[e].ejection - 1
                                                    ELSE state[e].ejection
    BY <1>1 DEF EndpointState
<1> QED BY <1>1, <1>2, CountedStays

-----------------------------------------------------------------------------

LEMMA InvInit == PassiveInit => IInv
<1> SUFFICES ASSUME PassiveInit PROVE IInv
    OBVIOUS
<1>1. \A e \in Endpoints : state[e].failures = 0 /\ state[e].ejection = NotEjected
    BY DEF PassiveInit, NewState
<1>2. members \subseteq Endpoints
    BY PassiveAssumption DEF PassiveInit
<1> QED BY <1>1, <1>2, TypeInit DEF IInv, EjectedHearsNobody, StreakOnlyEligible

LEMMA InvStep == IInv /\ [PassiveNext]_passiveVars => IInv'
<1> SUFFICES ASSUME IInv, [PassiveNext]_passiveVars, NEW e \in Endpoints
             PROVE  /\ e \in members' /\ state'[e].ejection # NotEjected
                            => Counted(e)' = {}
                    /\ e \notin members' \/ state'[e].ejection # NotEjected
                            => state'[e].failures = 0
    BY TypeStep DEF IInv, EjectedHearsNobody, StreakOnlyEligible, PassiveTypeOK
<1>t. /\ e \in members /\ state[e].ejection # NotEjected => Counted(e) = {}
      /\ e \notin members \/ state[e].ejection # NotEjected => state[e].failures = 0
      /\ state[e].ejection \in NotEjected .. EjectionDuration
    BY DEF IInv, EjectedHearsNobody, StreakOnlyEligible, PassiveTypeOK, EndpointState
<1>1. CASE ClearExpired
    BY <1>1, <1>t, ClearExpiredEffect
<1>2. CASE \E endpoints \in SUBSET Endpoints : Replace(endpoints)
    BY <1>2, <1>t, ReplaceEffect
<1>3. CASE \E r \in Requests, d \in Endpoints : AcquirePermit(r, d)
    BY <1>3, <1>t, AcquireEffect
<1>4. ASSUME NEW r \in Requests, RoundTripEnds(r)
      PROVE  /\ e \in members' /\ state'[e].ejection # NotEjected
                            => Counted(e)' = {}
             /\ e \notin members' \/ state'[e].ejection # NotEjected
                            => state'[e].failures = 0
    <2> PICK outcome \in {"ignored", "failure", "success"} : RecordOutcome(r, outcome)
        BY <1>4, ClassifyType DEF RoundTripEnds
    <2> QED BY <1>t, RecordEffect
<1>5. CASE PassiveTick
    BY <1>5, <1>t, ElapseEffect DEF PassiveTick, NotEjected
<1>6. CASE UNCHANGED passiveVars
    <2>1. members' = members /\ state' = state /\ Counted(e)' = Counted(e)
        BY <1>6 DEF passiveVars, Counted, Holders, Heeded
    <2> QED BY <1>t, <2>1
<1> QED BY <1>1, <1>2, <1>3, <1>4, <1>5, <1>6 DEF PassiveNext

\* While an endpoint is ejected, no request that is still under way to it can
\* count against it again: recordOutcome finds another generation or object.
THEOREM EjectedNeverHears == PassiveSpec => []EjectedHearsNobody
<1>1. IInv => EjectedHearsNobody
    BY DEF IInv
<1> QED BY <1>1, InvInit, InvStep, PTL DEF PassiveSpec

\* An ejection is changed by the clock and by nothing else while it lasts.
THEOREM EjectionsRunTheirCourse == PassiveSpec => EjectionRunsItsCourse
<1> DEFINE Course ==
        \A e \in members \cap members' :
            state[e].ejection > 0 =>
                state'[e].ejection \in {state[e].ejection, state[e].ejection - 1}
<1>1. ASSUME IInv, [PassiveNext]_passiveVars
      PROVE  [Course]_passiveVars
    <2> SUFFICES ASSUME NEW e \in members \cap members', state[e].ejection > 0
                 PROVE  state'[e].ejection \in {state[e].ejection, state[e].ejection - 1}
        OBVIOUS
    <2>t. e \in Endpoints /\ Counted(e) = {} /\ state[e].ejection # NotEjected
        <3>1. e \in Endpoints /\ state[e].ejection # NotEjected
            BY <1>1 DEF IInv, PassiveTypeOK, NotEjected
        <3> QED BY <1>1, <3>1 DEF IInv, EjectedHearsNobody
    <2>1. CASE ClearExpired
        BY <1>1, <2>1, <2>t, ClearExpiredEffect
    <2>2. CASE \E endpoints \in SUBSET Endpoints : Replace(endpoints)
        BY <1>1, <2>2, <2>t, ReplaceEffect
    <2>3. CASE \E r \in Requests, d \in Endpoints : AcquirePermit(r, d)
        BY <1>1, <2>3, <2>t, AcquireEffect
    <2>4. ASSUME NEW r \in Requests, RoundTripEnds(r)
          PROVE  state'[e].ejection = state[e].ejection
        <3> PICK outcome \in {"ignored", "failure", "success"} :
                    RecordOutcome(r, outcome)
            BY <2>4, ClassifyType DEF RoundTripEnds
        <3> QED BY <1>1, <2>t, RecordEffect
    <2>5. CASE PassiveTick
        BY <1>1, <2>5, <2>t, ElapseEffect DEF PassiveTick
    <2>6. CASE UNCHANGED passiveVars
        BY <2>6 DEF passiveVars
    <2> QED BY <1>1, <2>1, <2>2, <2>3, <2>4, <2>5, <2>6 DEF PassiveNext
<1>2. [][Course]_passiveVars => EjectionRunsItsCourse
    BY PTL DEF EjectionRunsItsCourse
<1> QED BY <1>1, <1>2, InvInit, InvStep, PTL DEF PassiveSpec

-----------------------------------------------------------------------------
(* The refinement: each step is, for each endpoint, a step of its contract  *)
(* or a stutter.                                                            *)

LEMMA ContractInitHolds == PassiveInit => ContractInit
<1> SUFFICES ASSUME PassiveInit, NEW e \in Endpoints
             PROVE  Contract(e)!Init
    BY DEF ContractInit
<1>1. state[e].failures = 0 /\ state[e].ejection = NotEjected
    BY DEF PassiveInit, NewState
<1>2. Counted(e) = {}
    BY PassiveAssumption DEF PassiveInit, Counted, Holders, NoPermit
<1> QED BY <1>1, <1>2 DEF PassiveInit, Contract!Init

LEMMA ContractStepHolds ==
    ASSUME IInv, [PassiveNext]_passiveVars, NEW e \in Endpoints
    PROVE  ContractStep(e)
<1>t. /\ e \in members /\ state[e].ejection # NotEjected => Counted(e) = {}
      /\ e \notin members => Counted(e) = {}
      /\ e \notin members \/ state[e].ejection # NotEjected => state[e].failures = 0
      /\ state[e].ejection \in NotEjected .. EjectionDuration
      /\ state[e].failures \in Int
    BY DEF IInv, EjectedHearsNobody, StreakOnlyEligible, PassiveTypeOK, EndpointState,
           Counted, Holders, Heeded
<1>s. ASSUME e \in members' <=> e \in members,
             state'[e].ejection = NotEjected <=> state[e].ejection = NotEjected,
             state'[e].failures = state[e].failures,
             Counted(e)' = Counted(e)
      PROVE  ContractStep(e)
    BY <1>s DEF ContractStep, Contract!contractVars
<1>1. CASE ClearExpired
    <2>1. CASE e \in members /\ state[e].ejection = 0
        <3>1. Contract(e)!Readmit
            BY <1>1, <2>1, ClearExpiredEffect DEF Contract!Readmit, NotEjected
        <3> QED BY <3>1 DEF ContractStep, Contract!Next
    <2>2. CASE ~(e \in members /\ state[e].ejection = 0)
        BY <1>1, <1>s, <2>2, ClearExpiredEffect
    <2> QED BY <2>1, <2>2
<1>2. ASSUME NEW endpoints \in SUBSET Endpoints, Replace(endpoints)
      PROVE  ContractStep(e)
    <2>1. CASE e \in members <=> e \in endpoints
        BY <1>2, <1>s, <2>1, ReplaceEffect
    <2>2. CASE e \in members /\ e \notin endpoints
        <3>1. Contract(e)!Leave
            BY <1>2, <2>2, ReplaceEffect DEF Contract!Leave
        <3> QED BY <3>1 DEF ContractStep, Contract!Next
    <2>3. CASE e \notin members /\ e \in endpoints
        <3>1. Contract(e)!Join
            BY <1>t, <1>2, <2>3, ReplaceEffect DEF Contract!Join
        <3> QED BY <3>1 DEF ContractStep, Contract!Next
    <2> QED BY <2>1, <2>2, <2>3
<1>3. ASSUME NEW r \in Requests, NEW d \in Endpoints, AcquirePermit(r, d)
      PROVE  ContractStep(e)
    <2>1. CASE e # d
        BY <1>3, <1>s, <2>1, AcquireEffect
    <2>2. CASE e = d
        <3>1. Contract(e)!Admit(r)
            BY <1>3, <2>2, AcquireEffect DEF Contract!Admit
        <3> QED BY <3>1 DEF ContractStep, Contract!Next
    <2> QED BY <2>1, <2>2
<1>4. ASSUME NEW r \in Requests, RoundTripEnds(r)
      PROVE  ContractStep(e)
    <2> PICK outcome \in {"ignored", "failure", "success"} : RecordOutcome(r, outcome)
        BY <1>4, ClassifyType DEF RoundTripEnds
    <2>1. CASE r \notin Counted(e)
        BY <1>s, <2>1, RecordEffect
    <2>2. ASSUME r \in Counted(e), Ejects(state[e], outcome)
          PROVE  ContractStep(e)
        <3>1. state[e].failures + 1 >= EjectionThreshold
            BY <2>2 DEF Ejects
        <3>2. EjectionDuration # NotEjected
            BY PassiveAssumption DEF NotEjected
        <3>3. Contract(e)!Eject(r)
            BY <2>2, <3>1, <3>2, RecordEffect DEF Contract!Eject
        <3> QED BY <3>3 DEF ContractStep, Contract!Next
    <2>3. ASSUME r \in Counted(e), ~Ejects(state[e], outcome), outcome = "failure"
          PROVE  ContractStep(e)
        <3>1. state[e].failures + 1 < EjectionThreshold
            BY <1>t, <2>3, PassiveAssumption DEF Ejects
        <3>2. Contract(e)!Fail(r)
            BY <2>3, <3>1, RecordEffect DEF Contract!Fail
        <3> QED BY <3>2 DEF ContractStep, Contract!Next
    <2>4. ASSUME r \in Counted(e), outcome = "success"
          PROVE  ContractStep(e)
        <3>1. ~Ejects(state[e], outcome)
            BY <2>4 DEF Ejects
        <3>2. Contract(e)!Succeed(r)
            BY <2>4, <3>1, RecordEffect DEF Contract!Succeed
        <3> QED BY <3>2 DEF ContractStep, Contract!Next
    <2>5. ASSUME r \in Counted(e), outcome = "ignored"
          PROVE  ContractStep(e)
        <3>1. ~Ejects(state[e], outcome)
            BY <2>5 DEF Ejects
        <3>2. Contract(e)!Abandon(r)
            BY <2>5, <3>1, RecordEffect DEF Contract!Abandon
        <3> QED BY <3>2 DEF ContractStep, Contract!Next
    <2> QED BY <2>1, <2>2, <2>3, <2>4, <2>5
<1>5. CASE PassiveTick
    <2>1. state'[e].ejection = NotEjected <=> state[e].ejection = NotEjected
        BY <1>t, <1>5, ElapseEffect DEF PassiveTick, NotEjected
    <2> QED BY <1>5, <1>s, <2>1, ElapseEffect DEF PassiveTick
<1>6. CASE UNCHANGED passiveVars
    <2>1. members' = members /\ state' = state /\ Counted(e)' = Counted(e)
        BY <1>6 DEF passiveVars, Counted, Holders, Heeded
    <2> QED BY <1>s, <2>1
<1> QED BY <1>1, <1>2, <1>3, <1>4, <1>5, <1>6 DEF PassiveNext

\* The tracker implements EjectionContract for every endpoint: only requests
\* admitted in its present life count, an unbroken streak of their failures
\* ejects it, and one that joins again starts from nothing.
THEOREM TrackerImplementsContract == PassiveSpec => ImplementsContract
<1>1. IInv /\ [PassiveNext]_passiveVars => [ContractNext]_passiveVars
    BY ContractStepHolds DEF ContractNext
<1> QED BY <1>1, ContractInitHolds, InvInit, InvStep, PTL
        DEF PassiveSpec, ImplementsContract

=============================================================================
