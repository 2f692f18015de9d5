---------------------------- MODULE CircuitBreaker ----------------------------
(***************************************************************************)
(* One circuit of kodus-flow's CircuitBreaker and the concurrent calls it  *)
(* protects.  A result is counted in the state the circuit is in when it   *)
(* arrives, whatever the state was when its call was let through.          *)
(*                                                                         *)
(* Every transition and every result is logged.  The observability that    *)
(* circuitBreakerMiddleware and the agents hand to the circuit has no log  *)
(* method: there, each of those calls throws.                              *)
(***************************************************************************)
EXTENDS Integers, FiniteSets

CONSTANTS
  Calls,             \* calls of the protected operation
  FailureThreshold,  \* failures in a row that open a closed circuit
  SuccessThreshold,  \* successes that close a half-open one
  MaxForced          \* bound on forceOpen, forceClose and reset

ASSUME CircuitAssumption ==
  /\ IsFiniteSet(Calls)
  /\ FailureThreshold \in Nat \ {0}
  /\ SuccessThreshold \in Nat \ {0}
  /\ MaxForced \in Nat

VARIABLES
  canLog,   \* the circuit's observability has a log method (never changes)
  circuit,  \* state, failureCount, successCount; nextAttempt has come (due)
  call,     \* what became of each call, as its caller sees it
  metrics,  \* totalCalls, successfulCalls, failedCalls, rejectedCalls
  forced,   \* manual transitions so far
  good      \* history: calls that succeeded since the circuit became half-open

circuitVars == <<canLog, circuit, call, metrics, forced, good>>

States   == {"CLOSED", "OPEN", "HALF_OPEN"}
Counters == {"total", "successful", "failed", "rejected"}

Fresh == [state |-> "CLOSED", failures |-> 0, successes |-> 0, due |-> FALSE]

CircuitInit ==
  /\ canLog \in BOOLEAN
  /\ circuit = Fresh
  /\ call = [c \in Calls |-> "new"]
  /\ metrics = [m \in Counters |-> 0]
  /\ forced = 0
  /\ good = {}

-----------------------------------------------------------------------------
\* Mutant of HalfOpened: the successes of an earlier attempt still count.
HalfOpenedKeeping(b) == [b EXCEPT !.state = "HALF_OPEN"]

(* Transitions.  Opening keeps both counts, closing forgets everything.     *)
Opened(b)     == [b EXCEPT !.state = "OPEN", !.due = FALSE]
Closed(b)     == Fresh
HalfOpened(b) == [b EXCEPT !.state = "HALF_OPEN", !.successes = 0]

(* What a result does to a circuit (handleSuccess, handleFailure).          *)
Succeeded(b) ==
  CASE b.state = "HALF_OPEN" ->
         IF b.successes + 1 >= SuccessThreshold THEN Closed(b)
         ELSE [b EXCEPT !.successes = @ + 1]
    [] b.state = "CLOSED" -> [b EXCEPT !.failures = 0]
    [] b.state = "OPEN" -> b

Failed(b) ==
  CASE b.state = "HALF_OPEN" -> Opened(b)
    [] b.state = "CLOSED" ->
         LET counted == [b EXCEPT !.failures = @ + 1]
         IN  IF counted.failures >= FailureThreshold THEN Opened(counted) ELSE counted
    [] b.state = "OPEN" -> b

-----------------------------------------------------------------------------
Count(which) ==
  metrics' = [m \in Counters |-> IF m \in which THEN metrics[m] + 1 ELSE metrics[m]]

Reject(c) ==
  /\ call[c] = "new"
  /\ circuit.state = "OPEN" /\ ~circuit.due
  /\ call' = [call EXCEPT ![c] = IF canLog THEN "rejected" ELSE "error"]
  /\ Count({"total", "rejected"})
  /\ UNCHANGED <<circuit, forced, good>>

(* The first call after nextAttempt.  Without a log method it fails between *)
(* the transition and the operation.                                        *)
Attempt(c) ==
  /\ call[c] = "new"
  /\ circuit.state = "OPEN" /\ circuit.due
  /\ circuit' = HalfOpened(circuit)
  /\ call' = [call EXCEPT ![c] = IF canLog THEN "running" ELSE "error"]
  /\ good' = {}
  /\ Count({"total"})
  /\ UNCHANGED forced

(* A half-open circuit lets any number of calls through.                    *)
Admit(c) ==
  /\ call[c] = "new"
  /\ circuit.state # "OPEN"
  /\ call' = [call EXCEPT ![c] = "running"]
  /\ Count({"total"})
  /\ UNCHANGED <<circuit, forced, good>>

(* handleSuccess logs when all is counted; what the log throws is caught as *)
(* a failure of the operation, which handleFailure counts as well.          *)
Succeed(c) ==
  /\ call[c] = "running"
  /\ good' = good \cup {c}
  /\ UNCHANGED forced
  /\ \/ /\ canLog
        /\ circuit' = Succeeded(circuit)
        /\ call' = [call EXCEPT ![c] = "ok"]
        /\ Count({"successful"})
     \/ /\ ~canLog
        /\ circuit' = Failed(Succeeded(circuit))
        /\ call' = [call EXCEPT ![c] = "error"]
        /\ Count({"successful", "failed"})

\* Mutant of Fail: a timer that is first is not counted.
FailUncounted(c) ==
  /\ call[c] = "running"
  /\ call' = [call EXCEPT ![c] = "error"]
  /\ UNCHANGED <<circuit, metrics, forced, good>>

(* The operation rejects, or its timer is first.                            *)
Fail(c) ==
  /\ call[c] = "running"
  /\ circuit' = Failed(circuit)
  /\ call' = [call EXCEPT ![c] = "error"]
  /\ Count({"failed"})
  /\ UNCHANGED <<forced, good>>

(* recoveryTimeout passes.                                                  *)
Wait ==
  /\ circuit.state = "OPEN" /\ ~circuit.due
  /\ circuit' = [circuit EXCEPT !.due = TRUE]
  /\ UNCHANGED <<call, metrics, forced, good>>

ForceState ==
  /\ forced < MaxForced
  /\ forced' = forced + 1
  /\ \/ circuit.state # "OPEN" /\ circuit' = Opened(circuit)
     \/ circuit' = Closed(circuit)
  /\ UNCHANGED <<call, metrics, good>>

-----------------------------------------------------------------------------
CircuitNext ==
  /\ \/ \E c \in Calls : Reject(c) \/ Attempt(c) \/ Admit(c) \/ Succeed(c) \/ Fail(c)
     \/ Wait
     \/ ForceState
  /\ UNCHANGED canLog

CircuitSpec == CircuitInit /\ [][CircuitNext]_circuitVars

-----------------------------------------------------------------------------
CircuitTypeOK ==
  /\ canLog \in BOOLEAN
  /\ circuit \in [state : States, failures : 0..FailureThreshold,
                  successes : 0..SuccessThreshold, due : BOOLEAN]
  /\ call \in [Calls -> {"new", "running", "ok", "error", "rejected"}]
  /\ metrics \in [Counters -> Nat]
  /\ forced \in 0..MaxForced
  /\ good \subseteq Calls

(* No circuit stays closed with as many failures as open it, or half-open   *)
(* with as many successes as close it, in whatever order the results of     *)
(* concurrent calls arrive; and none that is closed has a time to wait for  *)
(* (handleSuccess, handleFailure).                                          *)
CountersBelow ==
  /\ circuit.state = "CLOSED" => circuit.failures < FailureThreshold /\ ~circuit.due
  /\ circuit.state = "HALF_OPEN" => circuit.successes < SuccessThreshold

(* Every call is counted once as successful, failed or rejected when it has *)
(* come to its end, and in none of them before (getMetrics).                *)
MetricsAddUp ==
  canLog => metrics.total = metrics.successful + metrics.failed + metrics.rejected
                            + Cardinality({c \in Calls : call[c] = "running"})

(* An open circuit stays so until recoveryTimeout has passed, whatever late *)
(* results come, and closes only after SuccessThreshold calls have          *)
(* succeeded since it became half-open, none of the earlier attempts        *)
(* counted, unless someone forces it (transitionToHalfOpen,                 *)
(* transitionToClosed).                                                     *)
RecoveryEarned ==
  [][ /\ circuit.state = "OPEN" /\ circuit'.state # "OPEN" => circuit.due \/ forced' # forced
      /\ circuit.state = "HALF_OPEN" /\ circuit'.state = "CLOSED" =>
           Cardinality(good') >= SuccessThreshold \/ forced' # forced ]_circuitVars

(* A protected operation that succeeds gives its caller the result: "should *)
(* execute successful operations" (circuit-breaker.test).                   *)
SuccessReturned == \A c \in good : call[c] = "ok"
=============================================================================
