------------------------ MODULE CircuitBreakerProofs ------------------------
(* Theorems about CircuitBreaker, for every number of goroutines and every *)
(* configuration.                                                          *)
EXTENDS CircuitBreaker, FiniteSetTheorems, TLAPS

(* The breaker's variables keep their types under every operation.         *)
THEOREM TypeCorrect == Spec => []TypeOK
<1>1. Init => TypeOK
  BY ConfigAssumption DEF Init, TypeOK, States, Locations
<1>2. TypeOK /\ [Next]_vars => TypeOK'
  <2> SUFFICES ASSUME TypeOK, [Next]_vars
               PROVE  TypeOK'
    OBVIOUS
  <2> USE ConfigAssumption DEF TypeOK, States, Locations
  <2>1. ASSUME NEW p \in Procs, Execute(p)
        PROVE  TypeOK'
    <3>1. CASE Admit(p)
      BY <3>1 DEF Admit, breaker
    <3>2. CASE LeaveOpen(p)
      BY <3>2 DEF LeaveOpen, TransitionToHalfOpen
    <3>3. CASE RecordRequest(p)
      BY <3>3 DEF RecordRequest
    <3>4. CASE RecordFailure(p)
      BY <3>4 DEF RecordFailure, TransitionToOpen, UpTo
    <3>5. CASE RecordSuccess(p)
      BY <3>5 DEF RecordSuccess
    <3>6. QED
      BY <2>1, <3>1, <3>2, <3>3, <3>4, <3>5 DEF Execute
  <2>2. CASE Tick
    BY <2>2 DEF Tick
  <2>3. CASE ForceOpen
    BY <2>3 DEF ForceOpen, TransitionToOpen
  <2>4. CASE ForceClose
    BY <2>4 DEF ForceClose, TransitionToClosed
  <2>5. CASE Reset
    BY <2>5 DEF Reset
  <2>6. CASE UNCHANGED vars
    BY <2>6 DEF vars
  <2>7. QED
    BY <2>1, <2>2, <2>3, <2>4, <2>5, <2>6 DEF Next, CallerNext
<1>3. QED
  BY <1>1, <1>2, PTL DEF Spec

(* A closed breaker is below its threshold, whatever order late results,   *)
(* forced transitions and resets come in.                                  *)
THEOREM ClosedIsBelowThreshold == Spec => []ClosedBelowThreshold
<1>1. Init => ClosedBelowThreshold
  BY ConfigAssumption DEF Init, ClosedBelowThreshold
<1>2. TypeOK /\ ClosedBelowThreshold /\ [Next]_vars => ClosedBelowThreshold'
  <2> SUFFICES ASSUME TypeOK, ClosedBelowThreshold, [Next]_vars
               PROVE  ClosedBelowThreshold'
    OBVIOUS
  <2> USE ConfigAssumption DEF TypeOK, ClosedBelowThreshold, States
  <2>1. ASSUME NEW p \in Procs, Execute(p)
        PROVE  ClosedBelowThreshold'
    <3>1. CASE Admit(p)
      BY <3>1 DEF Admit, breaker
    <3>2. CASE LeaveOpen(p)
      BY <3>2 DEF LeaveOpen, TransitionToHalfOpen
    <3>3. CASE RecordRequest(p)
      BY <3>3 DEF RecordRequest
    <3>4. CASE RecordFailure(p)
      BY <3>4 DEF RecordFailure, TransitionToOpen, UpTo
    <3>5. CASE RecordSuccess(p)
      BY <3>5 DEF RecordSuccess
    <3>6. QED
      BY <2>1, <3>1, <3>2, <3>3, <3>4, <3>5 DEF Execute
  <2>2. CASE Tick
    BY <2>2 DEF Tick
  <2>3. CASE ForceOpen
    BY <2>3 DEF ForceOpen, TransitionToOpen
  <2>4. CASE ForceClose
    BY <2>4 DEF ForceClose, TransitionToClosed
  <2>5. CASE Reset
    BY <2>5 DEF Reset
  <2>6. CASE UNCHANGED vars
    BY <2>6 DEF vars
  <2>7. QED
    BY <2>1, <2>2, <2>3, <2>4, <2>5, <2>6 DEF Next, CallerNext
<1>3. QED
  BY <1>1, <1>2, TypeCorrect, PTL DEF Spec

(* The goroutines inside fn are finitely many.                             *)
LEMMA InFlightIsFinite == IsFiniteSet(InFlight) /\ Cardinality(InFlight) \in Nat
<1>1. IsFiniteSet(InFlight)
  BY ProcsAssumption, FS_Subset DEF InFlight
<1>2. QED
  BY <1>1, FS_CardinalityType

(* A goroutine that enters fn makes one more.                              *)
LEMMA OneMoreInFlight ==
  ASSUME NEW p \in Procs, TypeOK, pc[p] # "calling",
         pc' = [pc EXCEPT ![p] = "calling"]
  PROVE  Cardinality(InFlight') = Cardinality(InFlight) + 1
<1>1. InFlight' = InFlight \cup {p}
  BY DEF InFlight, TypeOK
<1>2. p \notin InFlight
  BY DEF InFlight
<1>3. QED
  BY <1>1, <1>2, InFlightIsFinite, FS_AddElement

(* A goroutine that moves outside fn changes nothing.                      *)
LEMMA SameInFlight ==
  ASSUME NEW p \in Procs, NEW where \in Locations, TypeOK,
         pc[p] # "calling", where # "calling",
         pc' = [pc EXCEPT ![p] = where]
  PROVE  InFlight' = InFlight
BY DEF InFlight, TypeOK

(* A half-open breaker's slots are all held by calls that are running.     *)
THEOREM ProbesAreInFlight == Spec => []HalfOpenProbesInFlight
<1>1. Init => HalfOpenProbesInFlight
  BY DEF Init, HalfOpenProbesInFlight
<1>2. TypeOK /\ HalfOpenProbesInFlight /\ [Next]_vars => HalfOpenProbesInFlight'
  <2> SUFFICES ASSUME TypeOK, HalfOpenProbesInFlight, [Next]_vars,
                      state' = "half_open"
               PROVE  halfOpenRequests' <= Cardinality(InFlight')
    BY DEF HalfOpenProbesInFlight
  <2>a. Cardinality(InFlight) \in Nat
    BY InFlightIsFinite
  <2>b. halfOpenRequests \in Nat
    BY DEF TypeOK
  <2>1. ASSUME NEW p \in Procs, Execute(p)
        PROVE  halfOpenRequests' <= Cardinality(InFlight')
    <3>1. CASE Admit(p)
      <4>1. InFlight' = InFlight
        BY <3>1, SameInFlight DEF Admit, Locations
      <4>2. QED
        BY <3>1, <4>1 DEF Admit, breaker, HalfOpenProbesInFlight
    <3>2. CASE LeaveOpen(p)
      <4>1. InFlight' = InFlight
        BY <3>2, SameInFlight DEF LeaveOpen, Locations
      <4>2. CASE state = "open"
        BY <2>a, <3>2, <4>1, <4>2 DEF LeaveOpen, TransitionToHalfOpen
      <4>3. CASE state # "open"
        BY <3>2, <4>1, <4>3 DEF LeaveOpen, HalfOpenProbesInFlight
      <4>4. QED
        BY <4>2, <4>3
    <3>3. CASE RecordRequest(p)
      <4>1. Cardinality(InFlight') = Cardinality(InFlight) + 1
        BY <3>3, OneMoreInFlight DEF RecordRequest
      <4>2. state = "half_open" /\ halfOpenRequests' = halfOpenRequests + 1
        BY <3>3 DEF RecordRequest
      <4>3. QED
        BY <2>a, <2>b, <4>1, <4>2 DEF HalfOpenProbesInFlight
    <3>4. CASE RecordFailure(p)
      BY <3>4 DEF RecordFailure, TransitionToOpen
    <3>5. CASE RecordSuccess(p)
      BY <3>5 DEF RecordSuccess
    <3>6. QED
      BY <2>1, <3>1, <3>2, <3>3, <3>4, <3>5 DEF Execute
  <2>2. CASE Tick
    BY <2>2 DEF Tick, HalfOpenProbesInFlight, InFlight
  <2>3. CASE ForceOpen
    BY <2>3 DEF ForceOpen, TransitionToOpen
  <2>4. CASE ForceClose
    BY <2>4 DEF ForceClose, TransitionToClosed
  <2>5. CASE Reset
    BY <2>5 DEF Reset
  <2>6. CASE UNCHANGED vars
    BY <2>6 DEF vars, HalfOpenProbesInFlight, InFlight
  <2>7. QED
    BY <2>1, <2>2, <2>3, <2>4, <2>5, <2>6 DEF Next, CallerNext
<1>3. QED
  BY <1>1, <1>2, TypeCorrect, PTL DEF Spec
=============================================================================
