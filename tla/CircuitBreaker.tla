--------------------------- MODULE CircuitBreaker ---------------------------
(***************************************************************************)
(* The breaker of internal/circuitbreaker/breaker.go, run by concurrent    *)
(* goroutines.                                                             *)
(*                                                                         *)
(* Execute is not atomic.  It takes and releases the mutex four times:     *)
(* canExecute (read lock), the open -> half_open transition, recordRequest *)
(* and, after the protected call, recordFailure or recordSuccess.  Each    *)
(* critical section is one action here, and pc[p] says which one goroutine *)
(* p has passed.                                                           *)
(*                                                                         *)
(* Two abstractions, both exact for the control of the breaker:            *)
(*   - lastFailureTime is only read as time.Since(lastFailureTime), which  *)
(*     is only compared with RecoveryTime: sinceFailure is that duration,  *)
(*     in ticks, saturated at RecoveryTime;                                *)
(*   - failureCount is only compared with FailureThreshold, and is zeroed  *)
(*     whenever the breaker becomes closed: it saturates there.            *)
(* The counters total*, stateChanges are metrics no condition reads.       *)
(***************************************************************************)
EXTENDS Integers, FiniteSets

CONSTANTS
    Procs,                \* the goroutines that call Execute
    FailureThreshold,     \* Config.FailureThreshold
    RecoveryTime,         \* Config.RecoveryTime, in ticks of the clock
    HalfOpenMaxRequests   \* Config.HalfOpenMaxRequests

ASSUME ProcsAssumption == IsFiniteSet(Procs)
ASSUME ConfigAssumption == /\ FailureThreshold \in Nat \ {0}
                           /\ RecoveryTime \in Nat \ {0}
                           /\ HalfOpenMaxRequests \in Nat \ {0}

VARIABLES
    state,                \* "closed", "open" or "half_open"
    failureCount,
    sinceFailure,         \* time.Since(lastFailureTime)
    halfOpenRequests,
    pc                    \* pc[p]: where p is inside Execute

breaker == <<state, failureCount, sinceFailure, halfOpenRequests>>
vars == <<state, failureCount, sinceFailure, halfOpenRequests, pc>>

States == {"closed", "open", "half_open"}

\* "idle" outside Execute; "admitted" after canExecute; "checked" after the
\* transition block; "calling" after recordRequest, while fn runs.
Locations == {"idle", "admitted", "checked", "calling"}

TypeOK ==
    /\ state \in States
    /\ failureCount \in 0 .. FailureThreshold
    /\ sinceFailure \in 0 .. RecoveryTime
    /\ halfOpenRequests \in Nat
    /\ pc \in [Procs -> Locations]

InFlight == {p \in Procs : pc[p] = "calling"}

UpTo(bound, n) == IF n < bound THEN n ELSE bound
-----------------------------------------------------------------------------
(* NewBreaker sets lastFailureTime to the current time. *)
Init ==
    /\ state = "closed"
    /\ failureCount = 0
    /\ sinceFailure = 0
    /\ halfOpenRequests = 0
    /\ pc = [p \in Procs |-> "idle"]

(* The three state transitions; each is a no-op in its target state. *)
TransitionToOpen == state' = "open"

TransitionToHalfOpenKeepsSlots ==   \* mutant: the slots are not given back
    /\ state' = "half_open"
    /\ UNCHANGED halfOpenRequests

TransitionToHalfOpen ==
    /\ state' = "half_open"
    /\ halfOpenRequests' = IF state = "half_open" THEN halfOpenRequests ELSE 0

TransitionToClosedKeepsCount ==   \* mutant: old failures still count
    /\ state' = "closed"
    /\ UNCHANGED failureCount

TransitionToClosed ==
    /\ state' = "closed"
    /\ failureCount' = IF state = "closed" THEN failureCount ELSE 0

CanExecuteNeverProbes ==   \* mutant: an open breaker rejects for ever
    \/ state = "closed"
    \/ state = "half_open" /\ halfOpenRequests < HalfOpenMaxRequests

(* The decision of canExecute. *)
CanExecute ==
    \/ state = "closed"
    \/ state = "half_open" /\ halfOpenRequests < HalfOpenMaxRequests
    \/ state = "open" /\ sinceFailure >= RecoveryTime

(* canExecute answers true.  When it answers false Execute returns its     *)
(* error with nothing changed, which is a stuttering step.                 *)
Admit(p) ==
    /\ pc[p] = "idle"
    /\ CanExecute
    /\ pc' = [pc EXCEPT ![p] = "admitted"]
    /\ UNCHANGED breaker

(* The critical section after canExecute: it looks at the state again, but *)
(* not at the recovery time nor at the half-open counter.                  *)
LeaveOpen(p) ==
    /\ pc[p] = "admitted"
    /\ pc' = [pc EXCEPT ![p] = "checked"]
    /\ \/ state = "open" /\ TransitionToHalfOpen
       \/ state # "open" /\ UNCHANGED <<state, halfOpenRequests>>
    /\ UNCHANGED <<failureCount, sinceFailure>>

RecordRequest(p) ==
    /\ pc[p] = "checked"
    /\ pc' = [pc EXCEPT ![p] = "calling"]
    /\ halfOpenRequests' =
          IF state = "half_open" THEN halfOpenRequests + 1 ELSE halfOpenRequests
    /\ UNCHANGED <<state, failureCount, sinceFailure>>

RecordFailureIgnoresProbe(p) ==   \* mutant: a failed probe changes nothing
    /\ pc[p] = "calling"
    /\ pc' = [pc EXCEPT ![p] = "idle"]
    /\ failureCount' = UpTo(FailureThreshold, failureCount + 1)
    /\ sinceFailure' = 0
    /\ IF state = "closed" /\ failureCount + 1 >= FailureThreshold
       THEN TransitionToOpen
       ELSE UNCHANGED state
    /\ UNCHANGED halfOpenRequests

(* A failure re-opens a half-open breaker, whichever call it comes from,   *)
(* and restarts the recovery time in every state.                          *)
RecordFailure(p) ==
    /\ pc[p] = "calling"
    /\ pc' = [pc EXCEPT ![p] = "idle"]
    /\ failureCount' = UpTo(FailureThreshold, failureCount + 1)
    /\ sinceFailure' = 0
    /\ IF \/ state = "closed" /\ failureCount + 1 >= FailureThreshold
          \/ state = "half_open"
       THEN TransitionToOpen
       ELSE UNCHANGED state
    /\ UNCHANGED halfOpenRequests

RecordSuccessOneSlot(p) ==   \* mutant: a success gives back its own slot
    /\ pc[p] = "calling"
    /\ pc' = [pc EXCEPT ![p] = "idle"]
    /\ failureCount' = 0
    /\ halfOpenRequests' = halfOpenRequests - 1
    /\ state' = IF state = "half_open" THEN "closed" ELSE state
    /\ UNCHANGED sinceFailure

RecordSuccess(p) ==
    /\ pc[p] = "calling"
    /\ pc' = [pc EXCEPT ![p] = "idle"]
    /\ failureCount' = 0
    /\ halfOpenRequests' = 0
    /\ state' = IF state = "half_open" THEN "closed" ELSE state
    /\ UNCHANGED sinceFailure

(* The operator's entry points. *)
ForceOpen ==
    /\ TransitionToOpen
    /\ UNCHANGED <<failureCount, sinceFailure, halfOpenRequests, pc>>

ForceClose ==
    /\ TransitionToClosed
    /\ UNCHANGED <<sinceFailure, halfOpenRequests, pc>>

(* Reset zeroes lastFailureTime: the last failure is then infinitely old.  *)
Reset ==
    /\ state' = "closed"
    /\ failureCount' = 0
    /\ halfOpenRequests' = 0
    /\ sinceFailure' = RecoveryTime
    /\ UNCHANGED pc

(* The clock. *)
Tick ==
    /\ sinceFailure < RecoveryTime
    /\ sinceFailure' = sinceFailure + 1
    /\ UNCHANGED <<state, failureCount, halfOpenRequests, pc>>

(* fn returns, with or without an error. *)
Return(p) == RecordFailure(p) \/ RecordSuccess(p)

Execute(p) ==
    \/ Admit(p)
    \/ LeaveOpen(p)
    \/ RecordRequest(p)
    \/ RecordFailure(p)
    \/ RecordSuccess(p)

(* What the program does: no code of it calls the operator's entry points. *)
CallerNext == (\E p \in Procs : Execute(p)) \/ Tick

Next ==
    \/ CallerNext
    \/ ForceOpen
    \/ ForceClose
    \/ Reset

Spec == Init /\ [][Next]_vars

CallerSpec == Init /\ [][CallerNext]_vars

(* Time passes, callers keep coming, a goroutine inside Execute runs on,   *)
(* and the protected call returns (it is an HTTP request with a timeout).  *)
Fairness ==
    /\ WF_vars(Tick)
    /\ \A p \in Procs : /\ WF_vars(Admit(p))
                        /\ WF_vars(LeaveOpen(p))
                        /\ WF_vars(RecordRequest(p))
                        /\ WF_vars(Return(p))

FairSpec == Spec /\ Fairness
-----------------------------------------------------------------------------
(* A closed breaker is always one failure count short of tripping: no      *)
(* order of late results, forced transitions and resets leaves it closed   *)
(* with FailureThreshold failures on the books.                            *)
ClosedBelowThreshold == state = "closed" => failureCount < FailureThreshold

(* Every slot a half-open breaker has handed out belongs to a call that is *)
(* still running.  recordFailure never gives a slot back, so a slot whose  *)
(* call is over would be lost and, once HalfOpenMaxRequests were, the      *)
(* breaker would reject every request for ever.                            *)
HalfOpenProbesInFlight ==
    state = "half_open" => halfOpenRequests <= Cardinality(InFlight)

(* The breaker does not stay open while requests keep arriving: once the   *)
(* recovery time is over, one of them takes it to half_open.               *)
OpenIsLeft == state = "open" ~> state # "open"

(* Half-open is a passing state: its probes decide it one way or another.  *)
HalfOpenResolves == state = "half_open" ~> state # "half_open"

(* NewService configures HalfOpenMaxRequests to "Allow 3 requests in       *)
(* half-open state": no more probes than that are in flight.               *)
HalfOpenLimit ==
    state = "half_open" => halfOpenRequests <= HalfOpenMaxRequests
=============================================================================
