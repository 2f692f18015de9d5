---------------------------- MODULE HandlerStack ----------------------------
(***************************************************************************)
(* A handler wrapped in the withConcurrency, withTimeout and withRetry     *)
(* middlewares of kodus-flow.  The concurrency limit is outermost in both  *)
(* compositions the repository uses.  Inside it,                           *)
(*   - createStandardMiddleware, through composeMiddleware, puts the       *)
(*     timeout around the retries, and the event processor does so with    *)
(*     the list [withRetry, withTimeout, withConcurrency];                 *)
(*   - the event processor, with the list of the runtime's README          *)
(*     [withTimeout, withRetry, withConcurrency], puts the retries around  *)
(*     the timeout.                                                        *)
(* Nothing stops a handler that has timed out: it runs on, and so does the *)
(* retry loop within it.                                                   *)
(***************************************************************************)
EXTENDS Concurrency

CONSTANTS
  RetryInside,  \* calls through a stack with the timeout around the retries
  MaxRetries    \* maxRetries of withRetry

ASSUME StackAssumption ==
  /\ RetryInside \subseteq Calls
  /\ MaxRetries \in Nat

VARIABLES
  attempts,  \* executions of the handler started for each call
  running,   \* <<c, k>>: the k-th of them is under way
  loop,      \* the retry loop of each call
  answer     \* what its caller was told

stackVars == <<attempts, running, loop, answer>>
allVars   == <<slotVars, stackVars>>

StackInit ==
  /\ SlotsInit
  /\ attempts = [c \in Calls |-> 0]
  /\ running = {}
  /\ loop = [c \in Calls |-> "idle"]
  /\ answer = [c \in Calls |-> "none"]

-----------------------------------------------------------------------------
Come(c)   == Acquire(c) /\ UNCHANGED stackVars
GiveUp(c) == Expire(c) /\ UNCHANGED stackVars

Execute(c) ==
  /\ attempts' = [attempts EXCEPT ![c] = @ + 1]
  /\ running' = running \cup {<<c, attempts[c] + 1>>}
  /\ loop' = [loop EXCEPT ![c] = "attempt"]
  /\ UNCHANGED <<slotVars, answer>>

Start(c) ==
  /\ place[c] = "holding"
  /\ loop[c] = "idle"
  /\ Execute(c)

(* The caller is told once, and the slot given back then (finally).         *)
Answer(c, a) ==
  /\ place[c] = "holding"
  /\ answer' = [answer EXCEPT ![c] = a]
  /\ Release(c)

\* Mutant of Return: the loop goes on.
ReturnAndGoOn(c, a) ==
  /\ loop' = [loop EXCEPT ![c] = "delay"]
  /\ UNCHANGED attempts
  /\ \/ Answer(c, a)
     \/ place[c] # "holding" /\ UNCHANGED <<slotVars, answer>>

(* The loop comes to its end; a caller told of a timeout no longer listens. *)
Return(c, a) ==
  /\ loop' = [loop EXCEPT ![c] = "over"]
  /\ UNCHANGED attempts
  /\ \/ Answer(c, a)
     \/ place[c] # "holding" /\ UNCHANGED <<slotVars, answer>>

(* The catch of the retry loop.  Its total time (maxTotalMs) may be over    *)
(* after any attempt.                                                       *)
Catch(c, retryable) ==
  \/ Return(c, "exceeded")
  \/ attempts[c] <= MaxRetries /\ ~retryable /\ Return(c, "error")
  \/ /\ attempts[c] <= MaxRetries
     /\ retryable
     /\ loop' = [loop EXCEPT ![c] = "delay"]
     /\ UNCHANGED <<slotVars, attempts, answer>>

Retry(c) ==
  /\ loop[c] = "delay"
  /\ Execute(c)

Heard(c, k) == loop[c] = "attempt" /\ attempts[c] = k

(* An execution ends: it returns, throws an error withRetry retries, or     *)
(* throws another.  The result of one that timed out by itself is dropped.  *)
HandlerEnds(c, k) ==
  /\ <<c, k>> \in running
  /\ running' = running \ {<<c, k>>}
  /\ \/ Heard(c, k) /\ (Return(c, "ok") \/ \E retryable \in BOOLEAN : Catch(c, retryable))
     \/ ~Heard(c, k) /\ UNCHANGED <<slotVars, attempts, loop, answer>>

\* Mutant of TimerFires: the retry loop takes every timeout for an error.
TimerFiresAsError(c) ==
  /\ UNCHANGED running
  /\ loop[c] = "attempt"
  /\ Catch(c, TRUE)

TimerFires(c) ==
  /\ UNCHANGED running
  /\ \/ /\ c \in RetryInside
        /\ loop[c] # "idle"
        /\ Answer(c, "timeout")
        /\ UNCHANGED <<attempts, loop>>
     \/ /\ c \notin RetryInside
        /\ loop[c] = "attempt"
        /\ Catch(c, TRUE)

StackNext ==
  \E c \in Calls :
    \/ Come(c) \/ GiveUp(c) \/ Start(c) \/ Retry(c) \/ TimerFires(c)
    \/ \E k \in 1..(MaxRetries + 1) : HandlerEnds(c, k)

StackSpec == StackInit /\ [][StackNext]_allVars

(* Timers fire and delays pass; handlers need not end.                      *)
FairStack ==
  /\ StackSpec
  /\ \A c \in Calls : /\ WF_allVars(Start(c))
                      /\ WF_allVars(Retry(c))
                      /\ WF_allVars(TimerFires(c))

-----------------------------------------------------------------------------
StackTypeOK ==
  /\ SlotsTypeOK
  /\ attempts \in [Calls -> 0..(MaxRetries + 1)]
  /\ running \subseteq Calls \X (1..(MaxRetries + 1))
  /\ loop \in [Calls -> {"idle", "attempt", "delay", "over"}]
  /\ answer \in [Calls -> {"none", "ok", "error", "exceeded", "timeout"}]

(* Executions whose result a caller still waits for.                        *)
Awaited == {e \in running : place[e[1]] = "holding" /\ Heard(e[1], e[2])}

(* Executions that run beyond the slots in use are all abandoned ones: a    *)
(* call that holds a slot has one live execution at most.                   *)
LiveWithinSlots == Cardinality(Awaited) <= active

(* A handler is executed twice at once for one call only if the timeout is  *)
(* within the retries, which take a timeout for an error (TIMEOUT_EXCEEDED  *)
(* is among retryableErrorCodes).                                           *)
OverlapExplained ==
  \A e, f \in running : e[1] = f[1] /\ e # f => e[1] \notin RetryInside

(* A handler is started after its caller was answered only by a retry loop  *)
(* whose caller was told of a timeout (withTimeout around withRetry).       *)
LateStartExplained ==
  [][\A c \in Calls :
       attempts'[c] # attempts[c] =>
         \/ place[c] = "holding"
         \/ c \in RetryInside /\ answer[c] = "timeout"]_allVars

(* Every call that came is answered, also when handlers never end           *)
(* (withTimeout; release wakes the next).                                   *)
EveryCallEnds ==
  \A c \in Calls : place[c] \in {"waiting", "holding"} ~> place[c] \in {"released", "expired"}

=============================================================================
