---------------------------- MODULE Concurrency ----------------------------
(***************************************************************************)
(* The slots that kodus-flow's withConcurrency middleware gives to the     *)
(* calls of one key (ConcurrencyManager).  The manager is a singleton, so  *)
(* calls of one key share its slots even when the middlewares they came    *)
(* through were given different limits.                                    *)
(***************************************************************************)
EXTENDS SequencesExt

CONSTANTS
  Calls,    \* calls of handlers wrapped by the middleware, of one key
  Limit,    \* maxConcurrent of the middleware each came through
  Patient   \* calls through a middleware with queueTimeoutMs > 0

ASSUME ConcurrencyAssumption ==
  /\ IsFiniteSet(Calls)
  /\ Limit \in [Calls -> Nat \ {0}]
  /\ Patient \subseteq Calls

VARIABLES
  active,  \* slots in use
  queue,   \* calls waiting for a slot, next one first
  place,   \* where each call is
  before   \* history: <<c, d>>: c was waiting when d came

slotVars == <<active, queue, place, before>>

SlotsInit ==
  /\ active = 0
  /\ queue = <<>>
  /\ place = [c \in Calls |-> "new"]
  /\ before = {}

-----------------------------------------------------------------------------
(* acquire: a free slot is taken at once, whoever waits.                    *)
Acquire(c) ==
  /\ place[c] = "new"
  /\ before' = before \cup {<<b, c>> : b \in ToSet(queue)}
  /\ \/ /\ active < Limit[c]
        /\ active' = active + 1
        /\ place' = [place EXCEPT ![c] = "holding"]
        /\ UNCHANGED queue
     \/ /\ active >= Limit[c]
        /\ c \in Patient
        /\ queue' = Append(queue, c)
        /\ place' = [place EXCEPT ![c] = "waiting"]
        /\ UNCHANGED active
     \/ /\ active >= Limit[c]
        /\ c \notin Patient
        /\ place' = [place EXCEPT ![c] = "dropped"]
        /\ UNCHANGED <<active, queue>>

Expire(c) ==
  /\ place[c] = "waiting"
  /\ \E i \in DOMAIN queue : queue[i] = c /\ queue' = RemoveAt(queue, i)
  /\ place' = [place EXCEPT ![c] = "expired"]
  /\ UNCHANGED <<active, before>>

(* release: the slot is given up, and taken by the call that has waited     *)
(* longest, whatever its own limit.                                         *)
Given == IF active <= 1 THEN 0 ELSE active - 1

\* Mutants of Release: the woken call's slot is not counted; nobody is woken;
\* the call that came last is woken.
ReleaseUncounted(c) ==
  /\ place[c] = "holding"
  /\ active' = Given
  /\ queue' = IF queue = <<>> THEN queue ELSE Tail(queue)
  /\ place' = [d \in Calls |->
       IF d = c THEN "released"
       ELSE IF queue # <<>> /\ d = Head(queue) THEN "holding" ELSE place[d]]
  /\ UNCHANGED before
ReleaseWakesNone(c) ==
  /\ place[c] = "holding"
  /\ active' = Given
  /\ place' = [place EXCEPT ![c] = "released"]
  /\ UNCHANGED <<queue, before>>
ReleaseWakesLast(c) ==
  /\ place[c] = "holding"
  /\ active' = IF queue = <<>> THEN Given ELSE Given + 1
  /\ queue' = IF queue = <<>> THEN queue ELSE Front(queue)
  /\ place' = [d \in Calls |->
       IF d = c THEN "released"
       ELSE IF queue # <<>> /\ d = Last(queue) THEN "holding" ELSE place[d]]
  /\ UNCHANGED before

Release(c) ==
  /\ place[c] = "holding"
  /\ \/ /\ queue = <<>>
        /\ active' = Given
        /\ place' = [place EXCEPT ![c] = "released"]
        /\ UNCHANGED queue
     \/ /\ queue # <<>>
        /\ active' = Given + 1
        /\ place' = [place EXCEPT ![c] = "released", ![Head(queue)] = "holding"]
        /\ queue' = Tail(queue)
  /\ UNCHANGED before

SlotsNext == \E c \in Calls : Acquire(c) \/ Expire(c) \/ Release(c)

SlotsSpec == SlotsInit /\ [][SlotsNext]_slotVars

-----------------------------------------------------------------------------
Places == {"new", "waiting", "holding", "released", "dropped", "expired"}

SlotsTypeOK ==
  /\ active \in Nat
  /\ queue \in Seq(Calls)
  /\ place \in [Calls -> Places]
  /\ before \subseteq Calls \X Calls

Holders == {c \in Calls : place[c] = "holding"}

(* The count is that of the calls that hold a slot: none is lost or used    *)
(* twice as calls are woken, expire or fail (acquire, release).             *)
SlotsAddUp == active = Cardinality(Holders)

(* A call waits only while its limit is reached: no wake-up is lost         *)
(* (release).                                                               *)
NoIdleSlot == \A c \in Calls : place[c] = "waiting" => active >= Limit[c]

(* A waiting call is not overtaken by one that came later with no higher    *)
(* limit (acquire, queue.shift).                                            *)
FirstCome ==
  \A c, d \in Calls :
    /\ <<c, d>> \in before
    /\ Limit[d] <= Limit[c]
    /\ place[c] = "waiting"
    => place[d] \notin {"holding", "released"}
=============================================================================
