--------------------------- MODULE RuntimeProofs ---------------------------
(***************************************************************************)
(* What CircuitBreaker promises for any number of concurrent calls and any *)
(* thresholds, and EventProcessor for any events, handlers and limits.     *)
(***************************************************************************)
EXTENDS CircuitBreaker, EventProcessor, SequenceLemmas

Circuits == [state : States, failures : 0..FailureThreshold,
             successes : 0..SuccessThreshold, due : BOOLEAN]

(* Below its thresholds, as a circuit is between two results.               *)
Below(b) ==
  /\ b.state = "CLOSED" => b.failures < FailureThreshold /\ ~b.due
  /\ b.state = "HALF_OPEN" => b.successes < SuccessThreshold

(* A call that has succeeded is at its end, so that none is counted twice,  *)
(* and a half-open circuit has no more successes than such calls.           *)
GoodEnded   == \A c \in good : call[c] \in {"ok", "error"}
GoodCounted == circuit.state = "HALF_OPEN" => circuit.successes <= Cardinality(good)

CircuitInv == CircuitTypeOK /\ Below(circuit) /\ GoodEnded /\ GoodCounted

LEMMA Thresholds == /\ FailureThreshold \in Nat \ {0}
                    /\ SuccessThreshold \in Nat \ {0}
                    /\ MaxForced \in Nat
                    /\ IsFiniteSet(Calls)
BY CircuitAssumption

(* Every transition leads to a circuit below its thresholds.                *)
LEMMA TransitionsKeepBelow ==
  ASSUME NEW b \in Circuits
  PROVE  /\ Opened(b) \in Circuits /\ Below(Opened(b)) /\ Opened(b).state = "OPEN"
         /\ Closed(b) \in Circuits /\ Below(Closed(b)) /\ Closed(b).state = "CLOSED"
         /\ HalfOpened(b) \in Circuits /\ Below(HalfOpened(b))
         /\ HalfOpened(b).state = "HALF_OPEN" /\ HalfOpened(b).successes = 0
<1>1. Opened(b) \in Circuits /\ Below(Opened(b)) /\ Opened(b).state = "OPEN"
  BY DEF Circuits, States, Below, Opened
<1>2. Closed(b) \in Circuits /\ Below(Closed(b)) /\ Closed(b).state = "CLOSED"
  BY Thresholds DEF Circuits, States, Below, Closed, Fresh
<1>3. /\ HalfOpened(b) \in Circuits /\ Below(HalfOpened(b))
      /\ HalfOpened(b).state = "HALF_OPEN" /\ HalfOpened(b).successes = 0
  <2>1. HalfOpened(b) \in Circuits /\ HalfOpened(b).state = "HALF_OPEN" /\ HalfOpened(b).successes = 0
    <3> DEFINE h == [b EXCEPT !.state = "HALF_OPEN"]
    <3>1. h \in Circuits /\ h.state = "HALF_OPEN" /\ HalfOpened(b) = [h EXCEPT !.successes = 0]
      BY DEF Circuits, States, HalfOpened
    <3> HIDE DEF h
    <3> QED
      BY <3>1, Thresholds DEF Circuits, States
  <2>2. 0 < SuccessThreshold
    BY Thresholds
  <2> QED
    BY <2>1, <2>2 DEF Below
<1> QED
  BY <1>1, <1>2, <1>3

(* A success closes a half-open circuit only as the last of those needed,   *)
(* and no other circuit changes its state by one.                           *)
LEMMA SucceededKeepsBelow ==
  ASSUME NEW b \in Circuits, Below(b)
  PROVE  /\ Succeeded(b) \in Circuits /\ Below(Succeeded(b))
         /\ b.state # "HALF_OPEN" => Succeeded(b).state = b.state
         /\ b.state = "HALF_OPEN" =>
              \/ /\ Succeeded(b).state = "CLOSED"
                 /\ b.successes + 1 >= SuccessThreshold
              \/ /\ Succeeded(b).state = "HALF_OPEN"
                 /\ Succeeded(b).successes = b.successes + 1
<1>1. CASE b.state = "HALF_OPEN" /\ b.successes + 1 >= SuccessThreshold
  <2>1. Succeeded(b) = Closed(b)
    BY <1>1 DEF Succeeded
  <2> QED
    BY <1>1, <2>1, TransitionsKeepBelow
<1>2. CASE b.state = "HALF_OPEN" /\ ~(b.successes + 1 >= SuccessThreshold)
  <2>1. Succeeded(b) = [b EXCEPT !.successes = @ + 1]
    BY <1>2 DEF Succeeded
  <2> QED
    BY <1>2, <2>1, Thresholds DEF Circuits, States, Below
<1>3. CASE b.state = "CLOSED"
  <2>1. Succeeded(b) = [b EXCEPT !.failures = 0]
    BY <1>3 DEF Succeeded
  <2> QED
    BY <1>3, <2>1, Thresholds DEF Circuits, States, Below
<1>4. CASE b.state = "OPEN"
  <2>1. Succeeded(b) = b
    BY <1>4 DEF Succeeded
  <2> QED
    BY <1>4, <2>1
<1> QED
  BY <1>1, <1>2, <1>3, <1>4 DEF Circuits, States

(* A failure never closes a circuit, and an open one stays as it is.        *)
LEMMA FailedKeepsBelow ==
  ASSUME NEW b \in Circuits, Below(b)
  PROVE  /\ Failed(b) \in Circuits /\ Below(Failed(b))
         /\ Failed(b).state # "HALF_OPEN"
         /\ b.state # "CLOSED" => Failed(b).state = "OPEN"
<1>1. CASE b.state = "HALF_OPEN"
  <2>1. Failed(b) = Opened(b)
    BY <1>1 DEF Failed
  <2> QED
    BY <1>1, <2>1, TransitionsKeepBelow
<1>2. CASE b.state = "CLOSED"
  <2> DEFINE counted == [b EXCEPT !.failures = @ + 1]
  <2>1. counted \in Circuits /\ counted.failures = b.failures + 1 /\ counted.state = "CLOSED"
        /\ counted.due = b.due
    BY <1>2, Thresholds DEF Circuits, States, Below
  <2>2. Failed(b) = IF counted.failures >= FailureThreshold THEN Opened(counted) ELSE counted
    BY <1>2 DEF Failed
  <2>3. CASE counted.failures >= FailureThreshold
    BY <1>2, <2>1, <2>2, <2>3, TransitionsKeepBelow
  <2>4. CASE ~(counted.failures >= FailureThreshold)
    <3>1. Failed(b) = counted
      BY <2>2, <2>4
    <3>2. counted.failures < FailureThreshold
      BY <2>1, <2>4, Thresholds DEF Circuits
    <3> HIDE DEF counted
    <3> QED
      BY <1>2, <2>1, <3>1, <3>2 DEF Below
  <2> QED
    BY <2>3, <2>4
<1>3. CASE b.state = "OPEN"
  <2>1. Failed(b) = b
    BY <1>3 DEF Failed
  <2> QED
    BY <1>3, <2>1
<1> QED
  BY <1>1, <1>2, <1>3 DEF Circuits, States

-----------------------------------------------------------------------------
(* A call that succeeds is counted for the first time.                      *)
LEMMA GoodGrows ==
  ASSUME CircuitInv, NEW c \in Calls, call[c] = "running"
  PROVE  /\ IsFiniteSet(good) /\ Cardinality(good) \in Nat
         /\ Cardinality(good \cup {c}) = Cardinality(good) + 1
<1>1. IsFiniteSet(good)
  BY Thresholds, FS_Subset DEF CircuitInv, CircuitTypeOK
<1>2. c \notin good
  BY DEF CircuitInv, GoodEnded
<1> QED
  BY <1>1, <1>2, FS_AddElement, FS_CardinalityType

LEMMA InvHolds == CircuitSpec => []CircuitInv
<1> USE DEF Circuits
<1>1. CircuitInit => CircuitInv
  <2> SUFFICES ASSUME CircuitInit PROVE CircuitInv
    OBVIOUS
  <2>1. circuit \in Circuits /\ circuit.state = "CLOSED" /\ circuit.failures = 0 /\ ~circuit.due
    BY Thresholds DEF CircuitInit, Fresh, States
  <2>2. CircuitTypeOK
    BY <2>1, Thresholds DEF CircuitInit, CircuitTypeOK
  <2> QED
    BY <2>1, <2>2, Thresholds DEF CircuitInit, CircuitInv, Below, GoodEnded, GoodCounted
<1>2. CircuitInv /\ [CircuitNext]_circuitVars => CircuitInv'
  <2> SUFFICES ASSUME CircuitInv, [CircuitNext]_circuitVars PROVE CircuitInv'
    OBVIOUS
  <2>t. /\ circuit \in Circuits /\ Below(circuit) /\ forced \in Nat /\ canLog \in BOOLEAN
        /\ metrics \in [Counters -> Nat]
        /\ call \in [Calls -> {"new", "running", "ok", "error", "rejected"}]
        /\ good \subseteq Calls
    BY DEF CircuitInv, CircuitTypeOK
  <2>1. ASSUME NEW c \in Calls, Reject(c), UNCHANGED canLog PROVE CircuitInv'
    <3>0. /\ call' \in [Calls -> {"new", "running", "ok", "error", "rejected"}]
          /\ metrics' \in [Counters -> Nat]
      BY <2>1, <2>t DEF Reject, Count, Counters
    <3>1. CircuitTypeOK'
      BY <2>1, <3>0 DEF Reject, CircuitInv, CircuitTypeOK
    <3>2. GoodEnded'
      BY <2>1, <2>t DEF Reject, CircuitInv, GoodEnded
    <3> QED
      BY <2>1, <3>1, <3>2 DEF Reject, CircuitInv, GoodCounted, Below
  <2>2. ASSUME NEW c \in Calls, Attempt(c), UNCHANGED canLog PROVE CircuitInv'
    <3>1. circuit' \in Circuits /\ Below(circuit') /\ circuit'.successes = 0
      BY <2>2, <2>t, TransitionsKeepBelow DEF Attempt
    <3>2. CircuitTypeOK'
      BY <2>2, <3>1 DEF Attempt, Count, CircuitInv, CircuitTypeOK
    <3>3. GoodEnded' /\ GoodCounted'
      BY <2>2, <3>1, FS_EmptySet DEF Attempt, GoodEnded, GoodCounted
    <3> QED
      BY <3>1, <3>2, <3>3 DEF CircuitInv
  <2>3. ASSUME NEW c \in Calls, Admit(c), UNCHANGED canLog PROVE CircuitInv'
    <3>1. CircuitTypeOK'
      BY <2>3 DEF Admit, Count, CircuitInv, CircuitTypeOK
    <3>2. GoodEnded'
      BY <2>3, <2>t DEF Admit, CircuitInv, GoodEnded
    <3> QED
      BY <2>3, <3>1, <3>2 DEF Admit, CircuitInv, GoodCounted, Below
  <2>4. ASSUME NEW c \in Calls, Succeed(c), UNCHANGED canLog PROVE CircuitInv'
    <3>c. Cardinality(good') = Cardinality(good) + 1 /\ Cardinality(good) \in Nat
      BY <2>4, GoodGrows DEF Succeed
    <3>s. /\ Succeeded(circuit) \in Circuits /\ Below(Succeeded(circuit))
          /\ Succeeded(circuit).state = "HALF_OPEN" =>
               /\ circuit.state = "HALF_OPEN"
               /\ Succeeded(circuit).successes = circuit.successes + 1
      BY <2>t, SucceededKeepsBelow
    <3>1. circuit' \in Circuits /\ Below(circuit') /\ GoodCounted'
      <4>1. CASE canLog
        BY <2>4, <2>t, <3>c, <3>s, <4>1 DEF Succeed, CircuitInv, GoodCounted
      <4>2. CASE ~canLog
        BY <2>4, <3>s, <4>2, FailedKeepsBelow DEF Succeed, GoodCounted
      <4> QED
        BY <4>1, <4>2
    <3>0. /\ call' \in [Calls -> {"new", "running", "ok", "error", "rejected"}]
          /\ metrics' \in [Counters -> Nat]
      BY <2>4, <2>t DEF Succeed, Count
    <3>2. CircuitTypeOK'
      BY <2>4, <3>0, <3>1 DEF Succeed, CircuitInv, CircuitTypeOK
    <3>3. GoodEnded'
      BY <2>4, <2>t DEF Succeed, CircuitInv, GoodEnded
    <3> QED
      BY <3>1, <3>2, <3>3 DEF CircuitInv
  <2>5. ASSUME NEW c \in Calls, Fail(c), UNCHANGED canLog PROVE CircuitInv'
    <3>1. circuit' \in Circuits /\ Below(circuit') /\ circuit'.state # "HALF_OPEN"
      BY <2>5, <2>t, FailedKeepsBelow DEF Fail
    <3>2. CircuitTypeOK'
      BY <2>5, <3>1 DEF Fail, Count, CircuitInv, CircuitTypeOK
    <3>3. GoodEnded'
      BY <2>5, <2>t DEF Fail, CircuitInv, GoodEnded
    <3> QED
      BY <3>1, <3>2, <3>3 DEF CircuitInv, GoodCounted
  <2>6. ASSUME Wait, UNCHANGED canLog PROVE CircuitInv'
    BY <2>6, <2>t DEF Wait, CircuitInv, CircuitTypeOK, Below, GoodEnded, GoodCounted
  <2>7. ASSUME ForceState, UNCHANGED canLog PROVE CircuitInv'
    <3>0. /\ circuit' = Opened(circuit) \/ circuit' = Closed(circuit)
          /\ forced' \in 0..MaxForced
          /\ UNCHANGED <<call, metrics, good>>
      BY <2>7, <2>t, Thresholds DEF ForceState
    <3>1. circuit' \in Circuits /\ Below(circuit') /\ circuit'.state # "HALF_OPEN"
      <4>1. /\ Opened(circuit) \in Circuits /\ Below(Opened(circuit))
            /\ Opened(circuit).state = "OPEN"
            /\ Closed(circuit) \in Circuits /\ Below(Closed(circuit))
            /\ Closed(circuit).state = "CLOSED"
        BY <2>t, TransitionsKeepBelow
      <4> QED
        BY <3>0, <4>1
    <3>2. CircuitTypeOK'
      BY <2>7, <3>0, <3>1 DEF CircuitInv, CircuitTypeOK
    <3>3. GoodEnded' /\ GoodCounted'
      BY <3>0, <3>1 DEF CircuitInv, GoodEnded, GoodCounted
    <3> QED
      BY <3>1, <3>2, <3>3 DEF CircuitInv
  <2>8. CASE UNCHANGED circuitVars
    BY <2>8 DEF circuitVars, CircuitInv, CircuitTypeOK, Below, GoodEnded, GoodCounted
  <2> QED
    BY <2>1, <2>2, <2>3, <2>4, <2>5, <2>6, <2>7, <2>8 DEF CircuitNext
<1> QED
  BY <1>1, <1>2, PTL DEF CircuitSpec

-----------------------------------------------------------------------------
(* Every variable keeps its type, and the circuit stays below its           *)
(* thresholds, in whatever order results arrive (circuit-breaker.ts).       *)
THEOREM ThresholdsKept == CircuitSpec => [](CircuitTypeOK /\ CountersBelow)
<1>1. CircuitInv => CircuitTypeOK /\ CountersBelow
  BY DEF CircuitInv, Below, CountersBelow
<1> QED
  BY <1>1, InvHolds, PTL

(* An open circuit closes only after its time and as many successes as      *)
(* SuccessThreshold asks for, for every threshold.                          *)
THEOREM RecoveryIsEarned == CircuitSpec => RecoveryEarned
<1> USE DEF Circuits
<1> DEFINE Earned ==
      /\ circuit.state = "OPEN" /\ circuit'.state # "OPEN" => circuit.due \/ forced' # forced
      /\ circuit.state = "HALF_OPEN" /\ circuit'.state = "CLOSED" =>
           Cardinality(good') >= SuccessThreshold \/ forced' # forced
<1>1. CircuitInv /\ [CircuitNext]_circuitVars => [Earned]_circuitVars
  <2> SUFFICES ASSUME CircuitInv, CircuitNext PROVE Earned
    BY DEF circuitVars
  <2>t. circuit \in Circuits /\ Below(circuit) /\ forced \in Nat
    BY DEF CircuitInv, CircuitTypeOK
  <2>1. ASSUME NEW c \in Calls, Reject(c) \/ Attempt(c) \/ Admit(c) PROVE Earned
    BY <2>1 DEF Reject, Attempt, Admit
  <2>2. ASSUME NEW c \in Calls, Succeed(c) PROVE Earned
    <3>c. Cardinality(good') = Cardinality(good) + 1 /\ Cardinality(good) \in Nat
      BY <2>2, GoodGrows DEF Succeed
    <3>s. /\ Succeeded(circuit) \in Circuits /\ Below(Succeeded(circuit))
          /\ circuit.state = "OPEN" => Succeeded(circuit).state = "OPEN"
          /\ circuit.state = "HALF_OPEN" /\ Succeeded(circuit).state = "CLOSED" =>
               circuit.successes + 1 >= SuccessThreshold
      BY <2>t, SucceededKeepsBelow
    <3>f. /\ Succeeded(circuit).state # "CLOSED" => Failed(Succeeded(circuit)).state = "OPEN"
      BY <3>s, FailedKeepsBelow
    <3>g. Succeeded(circuit).state \in States /\ circuit.successes \in Nat
      BY <2>t, <3>s
    <3>1. circuit.state = "OPEN" => circuit'.state = "OPEN"
      BY <2>2, <3>s, <3>f DEF Succeed
    <3>2. circuit.state = "HALF_OPEN" /\ circuit'.state = "CLOSED" =>
            circuit.successes + 1 >= SuccessThreshold
      BY <2>2, <3>s, <3>f DEF Succeed
    <3> QED
      BY <3>1, <3>2, <3>c, <3>g, Thresholds DEF CircuitInv, GoodCounted
  <2>3. ASSUME NEW c \in Calls, Fail(c) PROVE Earned
    BY <2>3, <2>t, FailedKeepsBelow DEF Fail
  <2>4. ASSUME Wait PROVE Earned
    BY <2>4, <2>t DEF Wait
  <2>5. ASSUME ForceState PROVE Earned
    <3>1. forced' # forced
      BY <2>5, <2>t DEF ForceState
    <3> QED
      BY <3>1
  <2> QED
    BY <2>1, <2>2, <2>3, <2>4, <2>5 DEF CircuitNext
<1> QED
  BY <1>1, InvHolds, PTL DEF CircuitSpec, RecoveryEarned

-----------------------------------------------------------------------------
Running == {c \in Calls : call[c] = "running"}

(* A call that starts, ends or never starts moves the number of the running *)
(* by one, minus one or not at all.                                         *)
LEMMA RunningMoves ==
  ASSUME CircuitTypeOK, NEW c \in Calls, NEW to, call' = [call EXCEPT ![c] = to]
  PROVE  /\ IsFiniteSet(Running) /\ Cardinality(Running) \in Nat
         /\ Running' = IF to = "running" THEN Running \cup {c} ELSE Running \ {c}
         /\ call[c] = "running" <=> c \in Running
<1>1. IsFiniteSet(Running)
  BY Thresholds, FS_Subset DEF Running
<1> QED
  BY <1>1, FS_CardinalityType DEF CircuitTypeOK, Running

LEMMA RunningStarts ==
  ASSUME CircuitTypeOK, NEW c \in Calls, call[c] # "running",
         call' = [call EXCEPT ![c] = "running"]
  PROVE  Cardinality(Running) \in Nat /\ Cardinality(Running') = Cardinality(Running) + 1
<1>1. c \notin Running /\ Running' = Running \cup {c} /\ IsFiniteSet(Running)
  BY RunningMoves
<1> QED
  BY <1>1, FS_AddElement, FS_CardinalityType

LEMMA RunningEnds ==
  ASSUME CircuitTypeOK, NEW c \in Calls, call[c] = "running",
         NEW to, to # "running", call' = [call EXCEPT ![c] = to]
  PROVE  Cardinality(Running) \in Nat /\ Cardinality(Running') = Cardinality(Running) - 1
<1>1. c \in Running /\ Running' = Running \ {c} /\ IsFiniteSet(Running)
  BY RunningMoves
<1> QED
  BY <1>1, FS_RemoveElement, FS_CardinalityType

(* Every call is counted once when it has come to its end, for any number   *)
(* of concurrent calls (getMetrics).                                        *)
THEOREM MetricsCorrect == CircuitSpec => []MetricsAddUp
<1> DEFINE Adds == metrics.total = metrics.successful + metrics.failed + metrics.rejected
                                   + Cardinality(Running)
<1>d. MetricsAddUp <=> (canLog => Adds)
  BY DEF MetricsAddUp, Running
<1>1. CircuitInit => MetricsAddUp
  <2> SUFFICES ASSUME CircuitInit PROVE Adds
    BY <1>d
  <2>1. Running = {}
    BY DEF CircuitInit, Running
  <2> QED
    BY <2>1, FS_EmptySet DEF CircuitInit, Counters
<1>2. CircuitInv /\ MetricsAddUp /\ [CircuitNext]_circuitVars => MetricsAddUp'
  <2> SUFFICES ASSUME CircuitInv, MetricsAddUp, [CircuitNext]_circuitVars, canLog'
               PROVE  Adds'
    BY DEF MetricsAddUp, Running
  <2>t. /\ CircuitTypeOK
        /\ metrics \in [Counters -> Nat]
    BY DEF CircuitInv, CircuitTypeOK
  <2>l. canLog
    BY DEF CircuitNext, circuitVars
  <2>a. Adds
    BY <1>d, <2>l
  <2>1. ASSUME NEW c \in Calls, Reject(c) PROVE Adds'
    <3>1. call' = [call EXCEPT ![c] = "rejected"] /\ call[c] # "running"
      BY <2>1, <2>l DEF Reject
    <3>2. Running' = Running /\ Cardinality(Running) \in Nat
      <4>1. c \notin Running /\ Running' = Running \ {c} /\ Cardinality(Running) \in Nat
        BY <2>t, <3>1, RunningMoves
      <4> QED
        BY <4>1
    <3>3. Count({"total", "rejected"})
      BY <2>1 DEF Reject
    <3> QED
      BY <2>t, <2>a, <3>2, <3>3 DEF Count, Counters
  <2>2. ASSUME NEW c \in Calls, Attempt(c) \/ Admit(c) PROVE Adds'
    <3>1. call' = [call EXCEPT ![c] = "running"] /\ call[c] # "running" /\ Count({"total"})
      BY <2>2, <2>l DEF Attempt, Admit
    <3>2. Cardinality(Running') = Cardinality(Running) + 1 /\ Cardinality(Running) \in Nat
      BY <2>t, <3>1, RunningStarts
    <3> QED
      BY <2>t, <2>a, <3>1, <3>2 DEF Count, Counters
  <2>3. ASSUME NEW c \in Calls, Succeed(c) PROVE Adds'
    <3>1. call' = [call EXCEPT ![c] = "ok"] /\ call[c] = "running" /\ Count({"successful"})
      BY <2>3, <2>l DEF Succeed
    <3>2. Cardinality(Running') = Cardinality(Running) - 1 /\ Cardinality(Running) \in Nat
      BY <2>t, <3>1, RunningEnds
    <3> QED
      BY <2>t, <2>a, <3>1, <3>2 DEF Count, Counters
  <2>4. ASSUME NEW c \in Calls, Fail(c) PROVE Adds'
    <3>1. call' = [call EXCEPT ![c] = "error"] /\ call[c] = "running" /\ Count({"failed"})
      BY <2>4 DEF Fail
    <3>2. Cardinality(Running') = Cardinality(Running) - 1 /\ Cardinality(Running) \in Nat
      BY <2>t, <3>1, RunningEnds
    <3> QED
      BY <2>t, <2>a, <3>1, <3>2 DEF Count, Counters
  <2>5. ASSUME Wait \/ ForceState \/ UNCHANGED circuitVars PROVE Adds'
    <3>1. UNCHANGED <<call, metrics>>
      BY <2>5 DEF Wait, ForceState, circuitVars
    <3>2. Running' = Running
      BY <3>1 DEF Running
    <3> HIDE DEF Running
    <3> QED
      BY <2>a, <3>1, <3>2
  <2> QED
    BY <2>1, <2>2, <2>3, <2>4, <2>5 DEF CircuitNext
<1> QED
  BY <1>1, <1>2, InvHolds, PTL DEF CircuitSpec

-----------------------------------------------------------------------------
(* What a sweep keeps: the functions used lately, in typed lists.           *)
LEMMA KeptFacts ==
  ASSUME NEW list \in Seq(Handlers)
  PROVE  /\ Kept(list) \in Seq(Handlers)
         /\ \A h \in ToSet(list) : IsRecent(h) => h \in ToSet(Kept(list))
<1> DEFINE places  == {i \in 1..Len(list) : IsRecent(list[i])}
           upTo(i) == Cardinality({j \in places : j <= i})
           rank    == [i \in places |-> upTo(i)]
           total   == Cardinality(places)
           kept    == [k \in 1..total |-> list[CHOOSE i \in places : upTo(i) = k]]
<1>1. /\ Len(list) \in Nat /\ \A i \in 1..Len(list) : list[i] \in Handlers
      /\ \A x : x \in ToSet(list) <=> \E i \in 1..Len(list) : list[i] = x
  BY SeqFacts
<1>2. /\ IsFiniteSet(places) /\ total \in Nat
      /\ \A i \in places : i \in 1..Len(list) /\ i \in Nat
  <2>1. IsFiniteSet(1..Len(list))
    BY <1>1, FS_Interval
  <2> QED
    BY <1>1, <2>1, FS_Subset, FS_CardinalityType
<1> HIDE DEF places
<1>3. ASSUME NEW i \in places
      PROVE  upTo(i) \in 1..total
  <2> DEFINE low == {j \in places : j <= i}
  <2>1. low \subseteq places /\ i \in low
    BY <1>2
  <2>2. IsFiniteSet(low) /\ Cardinality(low) \in Nat /\ Cardinality(low) <= total
        /\ Cardinality(low) # 0
    BY <1>2, <2>1, FS_Subset, FS_CardinalityType, FS_EmptySet
  <2> QED
    BY <1>2, <2>2
<1>4. ASSUME NEW i \in places, NEW m \in places, i < m
      PROVE  upTo(i) < upTo(m)
  <2> DEFINE low == {j \in places : j <= i}
             high == {j \in places : j <= m}
  <2>1. low \subseteq high /\ m \in high /\ m \notin low /\ high \subseteq places
    BY <1>2, <1>4
  <2>2. IsFiniteSet(high) /\ Cardinality(low) <= Cardinality(high)
        /\ (Cardinality(low) = Cardinality(high) => low = high)
        /\ Cardinality(low) \in Nat /\ Cardinality(high) \in Nat
    <3>1. IsFiniteSet(high)
      BY <1>2, <2>1, FS_Subset
    <3> QED
      BY <2>1, <3>1, FS_Subset, FS_CardinalityType
  <2> QED
    BY <2>1, <2>2
<1>5. \A i, m \in places : upTo(i) = upTo(m) => i = m
  <2> SUFFICES ASSUME NEW i \in places, NEW m \in places, i # m
               PROVE  upTo(i) # upTo(m)
    OBVIOUS
  <2>1. i < m \/ m < i
    BY <1>2
  <2>2. upTo(i) \in Nat /\ upTo(m) \in Nat
    BY <1>2, <1>3
  <2> HIDE DEF upTo
  <2> QED
    BY <1>4, <2>1, <2>2
<1> HIDE DEF upTo
<1>6. \A k \in 1..total : \E i \in places : upTo(i) = k
  <2>1. rank \in Injection(places, 1..total)
    <3>1. rank \in [places -> 1..total]
      BY <1>3
    <3>2. \A i, m \in places : rank[i] = rank[m] => i = m
      BY <1>5
    <3> HIDE DEF rank
    <3>3. DOMAIN rank = places
      BY <3>1
    <3> QED
      BY <3>1, <3>2, <3>3 DEF Injection, IsInjective
  <2>2. IsFiniteSet(1..total) /\ Cardinality(1..total) = total
    BY <1>2, FS_Interval
  <2> HIDE DEF rank
  <2>3. rank \in Surjection(places, 1..total)
    BY <1>2, <2>1, <2>2, FS_Injection
  <2> QED
    BY <2>3 DEF Surjection, rank
<1>7. Kept(list) = kept
  BY DEF Kept, places, upTo
<1>8. kept \in Seq(Handlers)
  <2>1. ASSUME NEW k \in 1..total
        PROVE  (CHOOSE i \in places : upTo(i) = k) \in places
    BY <1>6
  <2>2. kept \in [1..total -> Handlers]
    BY <1>1, <1>2, <2>1
  <2> HIDE DEF kept, total
  <2> QED
    BY <1>2, <2>2
<1>9. ASSUME NEW h \in ToSet(list), IsRecent(h)
      PROVE  h \in ToSet(kept)
  <2>1. PICK i \in 1..Len(list) : list[i] = h
    BY <1>1
  <2>2. i \in places
    BY <1>9, <2>1 DEF places
  <2>3. upTo(i) \in 1..total /\ (CHOOSE m \in places : upTo(m) = upTo(i)) = i
    BY <1>3, <1>5, <2>2 DEF upTo
  <2>4. kept[upTo(i)] = h /\ upTo(i) \in DOMAIN kept
    BY <2>1, <2>3
  <2> HIDE DEF kept
  <2> QED
    BY <2>4 DEF ToSet
<1> QED
  BY <1>7, <1>8, <1>9

-----------------------------------------------------------------------------
(* Handlers are awaited for events under way only; an event that has not    *)
(* started has no plan yet; a registered handler is in its list unless a    *)
(* sweep dropped it, so that the plan of an event has all those expected,   *)
(* and no handler of a plan that is not batched has failed but the last.    *)
WorkInv ==
  \A e \in Events :
    /\ work[e].phase = "new" => work[e] = Idle
    /\ work[e].phase # "running" => work[e].busy = {}
    /\ work[e].phase \in {"running", "handled"} =>
         /\ expected[e] \subseteq ToSet(work[e].plan)
         /\ Batched(work[e].plan) \/ work[e].failed = {}

ListsInv ==
  \A t \in Lists : \A h \in meant[t] : <<t, h>> \in dropped \/ h \in ToSet(lists[t])

ProcessorInv == ProcessorTypeOK /\ DepthCounts /\ WorkInv /\ ListsInv

Works == [phase : Phases, plan : Seq(Handlers), reached : Nat,
          busy : SUBSET Nat, failed : SUBSET Nat]

LEMMA ListsType == ASSUME NEW t \in Types PROVE t \in Lists /\ Wild \in Lists
BY DEF Lists

(* Events under way are counted.                                            *)
LEMMA CountActive ==
  ASSUME ProcessorTypeOK
  PROVE  IsFiniteSet(Active) /\ Cardinality(Active) \in Nat
BY ProcessorAssumption, FS_Subset, FS_CardinalityType DEF Active

LEMMA RegistrationsKeepInv ==
  ASSUME ProcessorInv,
         \/ \E t \in Lists, h \in Handlers : Register(t, h)
         \/ \E h \in Handlers : GrowStale(h)
         \/ Sweep \/ ClearHandlers \/ Cleanup
  PROVE  ProcessorInv'
<1> USE DEF ProcessorInv
<1>1. work' = work /\ expected' = expected /\ Active' = Active
  BY DEF Register, GrowStale, Sweep, ClearHandlers, Cleanup, Active
<1>2. WorkInv'
  BY <1>1 DEF WorkInv, Batched
<1>3. DepthCounts'
  <2>1. Cardinality(Active) \in Nat /\ MaxDepth \in Nat
    BY CountActive, ProcessorAssumption
  <2>2. CASE Cleanup
    BY <1>1, <2>1, <2>2 DEF Cleanup, DepthCounts
  <2>3. CASE UNCHANGED <<depth, cut>>
    BY <1>1, <2>3 DEF DepthCounts
  <2> QED
    BY <2>2, <2>3 DEF Register, GrowStale, Sweep, ClearHandlers
<1>4. CASE \E t \in Lists, h \in Handlers : Register(t, h)
  <2>1. PICK t \in Lists, h \in Handlers : Register(t, h)
    BY <1>4
  <2>2. /\ lists[t] \in Seq(Handlers)
        /\ Append(lists[t], h) \in Seq(Handlers)
        /\ \A x : x \in ToSet(Append(lists[t], h)) <=> x = h \/ x \in ToSet(lists[t])
    BY AppendElements DEF ProcessorTypeOK
  <2>3. ProcessorTypeOK'
    BY <1>1, <2>1, <2>2, ProcessorAssumption DEF ProcessorTypeOK, Register, Change
  <2>4. ListsInv'
    <3> SUFFICES ASSUME NEW l \in Lists, NEW x \in meant'[l]
                 PROVE  <<l, x>> \in dropped' \/ x \in ToSet(lists'[l])
      BY DEF ListsInv
    <3>1. CASE l = t
      BY <2>1, <2>2, <3>1 DEF ListsInv, Register, ProcessorTypeOK
    <3>2. CASE l # t
      BY <2>1, <3>2 DEF ListsInv, Register, ProcessorTypeOK
    <3> QED
      BY <3>1, <3>2
  <2> QED
    BY <1>2, <1>3, <2>3, <2>4
<1>5. CASE \E h \in Handlers : GrowStale(h)
  <2>1. ProcessorTypeOK' /\ ListsInv'
    BY <1>5 DEF ProcessorTypeOK, ListsInv, GrowStale
  <2> QED
    BY <1>2, <1>3, <2>1
<1>6. CASE Sweep
  <2>1. ASSUME NEW t \in Lists
        PROVE  /\ lists'[t] = Kept(lists[t]) /\ Kept(lists[t]) \in Seq(Handlers)
               /\ \A h \in ToSet(lists[t]) : IsRecent(h) => h \in ToSet(lists'[t])
               /\ \A h : Contains(lists[t], h) <=> h \in ToSet(lists[t])
    BY <1>6, KeptFacts, SeqFacts DEF Sweep, ProcessorTypeOK
  <2>2. ProcessorTypeOK'
    BY <1>1, <1>6, <2>1 DEF ProcessorTypeOK, Sweep
  <2>3. ListsInv'
    <3> SUFFICES ASSUME NEW t \in Lists, NEW h \in meant'[t]
                 PROVE  <<t, h>> \in dropped' \/ h \in ToSet(lists'[t])
      BY DEF ListsInv
    <3>1. h \in meant[t] /\ h \in Handlers
      BY <1>6 DEF Sweep, ProcessorTypeOK
    <3>2. <<t, h>> \in dropped \/ h \in ToSet(lists[t])
      BY <3>1 DEF ListsInv
    <3>3. CASE <<t, h>> \in dropped
      BY <1>6, <3>3 DEF Sweep
    <3>4. CASE h \in ToSet(lists[t]) /\ IsRecent(h)
      BY <2>1, <3>4
    <3>5. CASE h \in ToSet(lists[t]) /\ ~IsRecent(h)
      <4>1. <<t, h>> \in Lists \X Handlers /\ <<t, h>>[1] = t /\ <<t, h>>[2] = h
        BY <3>1
      <4> QED
        BY <1>6, <2>1, <3>5, <4>1 DEF Sweep
    <3> QED
      BY <3>2, <3>3, <3>4, <3>5
  <2> QED
    BY <1>2, <1>3, <2>2, <2>3
<1>7. CASE ClearHandlers \/ Cleanup
  <2>1. ClearLists
    BY <1>7 DEF ClearHandlers, Cleanup
  <2>2. ListsInv'
    BY <2>1 DEF ClearLists, ListsInv
  <2>3. cut' \in Nat /\ depth' \in Int
    BY <1>7, CountActive DEF ClearHandlers, Cleanup, ProcessorTypeOK
  <2>4. /\ lists' \in [Lists -> Seq(Handlers)] /\ meant' \in [Lists -> SUBSET Handlers]
        /\ dropped' \subseteq Lists \X Handlers /\ sweeping' \in BOOLEAN
        /\ changes' \in 0..MaxChanges /\ lastUsed' = lastUsed
    <3>1. <<>> \in Seq(Handlers) /\ {} \in SUBSET Handlers
      OBVIOUS
    <3>2. lists' \in [Lists -> Seq(Handlers)] /\ meant' \in [Lists -> SUBSET Handlers]
      BY <2>1, <3>1 DEF ClearLists
    <3>3. dropped' = {} /\ sweeping' = FALSE /\ changes' \in 0..MaxChanges
      BY <2>1, ProcessorAssumption DEF ClearLists, Change, ProcessorTypeOK
    <3> QED
      BY <1>7, <3>2, <3>3 DEF ClearHandlers, Cleanup
  <2>5. ProcessorTypeOK'
    BY <1>1, <2>3, <2>4 DEF ProcessorTypeOK
  <2> QED
    BY <1>2, <1>3, <2>2, <2>5
<1> QED
  BY <1>4, <1>5, <1>6, <1>7

(* The plan of an event has every handler it should meet.                   *)
LEMMA PlanComplete ==
  ASSUME ProcessorInv, NEW e \in Events
  PROVE  /\ HandlersOf(Kind[e]) \in Seq(Handlers)
         /\ Registered(Kind[e]) \subseteq ToSet(HandlersOf(Kind[e]))
<1>1. Kind[e] \in Lists /\ Wild \in Lists
  BY ProcessorAssumption DEF Lists
<1> DEFINE a == lists[Kind[e]]
           b == lists[Wild]
<1>2. a \in Seq(Handlers) /\ b \in Seq(Handlers)
  BY <1>1 DEF ProcessorInv, ProcessorTypeOK
<1>3. Registered(Kind[e]) \subseteq ToSet(a) \cup ToSet(b)
  BY <1>1 DEF ProcessorInv, ListsInv, Registered
<1> HIDE DEF a, b
<1>4. a \o b \in Seq(Handlers) /\ ToSet(a \o b) = ToSet(a) \cup ToSet(b)
  BY <1>2, ConcatElements
<1> QED
  BY <1>3, <1>4 DEF HandlersOf, a, b

LEMMA ChunkEndType ==
  ASSUME NEW plan \in Seq(Handlers), NEW n \in Nat
  PROVE  ChunkEnd(plan, n) \in Nat
BY ProcessorAssumption DEF ChunkEnd

LEMMA StartKeepsInv ==
  ASSUME ProcessorInv, NEW e \in Events, Refuse(e) \/ Start(e)
  PROVE  ProcessorInv'
<1> USE DEF ProcessorInv
<1> DEFINE plan == HandlersOf(Kind[e])
<1>1. /\ work[e] = Idle /\ e \notin Active /\ work \in [Events -> Works]
      /\ IsFiniteSet(Active) /\ Cardinality(Active) \in Nat
      /\ MaxDepth \in Nat /\ depth \in Int /\ cut \in Nat
  BY CountActive, ProcessorAssumption DEF Refuse, Start, WorkInv, Active, ProcessorTypeOK, Works
<1>2. plan \in Seq(Handlers) /\ Registered(Kind[e]) \subseteq ToSet(plan)
  BY PlanComplete
<1>3. Registered(Kind[e]) \subseteq Handlers
  BY DEF Registered
<1> HIDE DEF plan
<1>4. ListsInv'
  BY DEF ListsInv, Refuse, Start
<1>5. CASE Refuse(e)
  <2>1. work' = [work EXCEPT ![e].phase = "refused"] /\ UNCHANGED <<expected, depth, cut>>
    BY <1>5 DEF Refuse
  <2>2. /\ work' \in [Events -> Works]
        /\ work'[e].phase = "refused" /\ work'[e].busy = {}
        /\ \A d \in Events \ {e} : work'[d] = work[d]
    <3>1. [Idle EXCEPT !.phase = "refused"] \in Works
      BY <1>1 DEF Idle, Works, Phases
    <3>2. [Idle EXCEPT !.phase = "refused"].phase = "refused"
          /\ [Idle EXCEPT !.phase = "refused"].busy = {}
      BY DEF Idle
    <3> QED
      BY <1>1, <2>1, <3>1, <3>2
  <2>3. Active' = Active
    BY <1>1, <2>2 DEF Active
  <2>4. ProcessorTypeOK'
    <3>1. UNCHANGED <<lists, lastUsed, sweeping, changes, meant, dropped>>
      BY <1>5 DEF Refuse
    <3> QED
      BY <2>1, <2>2, <3>1 DEF ProcessorTypeOK, Works
  <2>5. WorkInv'
    BY <2>1, <2>2 DEF WorkInv, Batched
  <2> QED
    BY <1>4, <2>1, <2>3, <2>4, <2>5 DEF DepthCounts
<1>6. CASE Start(e)
  <2>1. /\ expected' = [expected EXCEPT ![e] = Registered(Kind[e])]
        /\ lastUsed' \in [Handlers -> {"never", "recent", "stale"}]
        /\ UNCHANGED <<changes, lists, sweeping, meant, dropped, cut>>
    BY <1>6 DEF Start, ProcessorTypeOK
  <2>2. CASE /\ plan = <<>> /\ depth' = depth
             /\ work' = [work EXCEPT ![e].phase = "handled"]
    <3>1. /\ work' \in [Events -> Works]
          /\ work'[e].phase = "handled" /\ work'[e].busy = {} /\ work'[e].failed = {}
          /\ \A d \in Events \ {e} : work'[d] = work[d]
      BY <1>1, <2>2 DEF Idle, Works, Phases
    <3>2. Active' = Active
      BY <1>1, <3>1 DEF Active
    <3>3. ToSet(plan) = {}
      BY <2>2 DEF ToSet
    <3>4. expected'[e] = {} /\ \A d \in Events \ {e} : expected'[d] = expected[d]
      BY <1>2, <2>1, <3>3 DEF ProcessorTypeOK
    <3>5. WorkInv'
      BY <3>1, <3>4 DEF WorkInv, Batched
    <3>6. ProcessorTypeOK'
      BY <1>3, <2>1, <2>2, <3>1 DEF ProcessorTypeOK, Works
    <3> QED
      BY <1>4, <2>1, <2>2, <3>2, <3>5, <3>6 DEF DepthCounts
  <2>3. CASE /\ depth < MaxDepth /\ depth' = depth + 1
             /\ work' = [work EXCEPT ![e] =
                  [phase |-> "running", plan |-> plan, reached |-> ChunkEnd(plan, 0),
                   busy |-> 1..ChunkEnd(plan, 0), failed |-> {}]]
    <3>1. ChunkEnd(plan, 0) \in Nat
      BY <1>2, ChunkEndType
    <3>2. /\ work' \in [Events -> Works]
          /\ work'[e].phase = "running" /\ work'[e].plan = plan /\ work'[e].failed = {}
          /\ \A d \in Events \ {e} : work'[d] = work[d]
      BY <1>1, <1>2, <2>3, <3>1 DEF Works, Phases
    <3>3. Active' = Active \cup {e}
      BY <3>2 DEF Active
    <3>4. Cardinality(Active') = Cardinality(Active) + 1
      BY <1>1, <3>3, FS_AddElement
    <3>5. DepthCounts'
      <4>1. depth = Cardinality(Active) - cut /\ depth < MaxDepth
        BY <2>3 DEF DepthCounts
      <4>2. depth' = depth + 1 /\ cut' = cut
        BY <2>1, <2>3
      <4>3. /\ Cardinality(Active) + 1 = depth + 1 + cut
            /\ Cardinality(Active) + 1 <= MaxDepth + cut
        BY <1>1, <4>1
      <4> QED
        BY <1>1, <3>4, <4>2, <4>3 DEF DepthCounts
    <3>6. expected'[e] \subseteq ToSet(plan) /\ \A d \in Events \ {e} : expected'[d] = expected[d]
      BY <1>2, <2>1 DEF ProcessorTypeOK
    <3>7. WorkInv'
      BY <3>2, <3>6 DEF WorkInv, Batched
    <3>8. ProcessorTypeOK'
      BY <1>1, <1>3, <2>1, <2>3, <3>2 DEF ProcessorTypeOK, Works
    <3> QED
      BY <1>4, <3>5, <3>7, <3>8
  <2> QED
    BY <1>6, <2>2, <2>3 DEF Start, plan
<1> QED
  BY <1>5, <1>6

LEMMA EndKeepsInv ==
  ASSUME ProcessorInv, NEW e \in Events, NEW i \in work[e].busy,
         NEW result \in {"nothing", "event", "error"}, HandlerEnds(e, i, result)
  PROVE  ProcessorInv'
<1> USE DEF ProcessorInv
<1> DEFINE w == work[e]
           fine == result = "nothing"
           failed == IF fine THEN w.failed ELSE w.failed \cup {i}
<1>1. /\ w \in Works /\ work \in [Events -> Works] /\ w.phase = "running"
      /\ expected[e] \subseteq ToSet(w.plan)
      /\ Batched(w.plan) \/ w.failed = {}
      /\ e \in Active /\ IsFiniteSet(Active) /\ Cardinality(Active) \in Nat
      /\ depth \in Int /\ cut \in Nat /\ MaxDepth \in Nat
  BY CountActive, ProcessorAssumption DEF WorkInv, Active, ProcessorTypeOK, Works
<1>2. failed \in SUBSET Nat /\ (fine => failed = w.failed)
  BY <1>1 DEF Works
<1>3. /\ lastUsed' \in [Handlers -> {"never", "recent", "stale"}]
      /\ UNCHANGED <<changes, lists, sweeping, meant, dropped, expected, cut>>
      /\ Proceed(e, i, fine)
  BY DEF HandlerEnds, ProcessorTypeOK
<1>4. ListsInv'
  BY <1>3 DEF ListsInv
<1>5. CASE \E phase \in {"handled", "failed"} :
             /\ Finish(e, phase, failed)
             /\ phase = "handled" => Batched(w.plan) \/ failed = {}
  <2>1. PICK phase \in {"handled", "failed"} :
             /\ Finish(e, phase, failed)
             /\ phase = "handled" => Batched(w.plan) \/ failed = {}
    BY <1>5
  <2> HIDE DEF failed
  <2>2. /\ work' \in [Events -> Works]
        /\ work'[e].phase = phase /\ work'[e].plan = w.plan
        /\ work'[e].busy = {} /\ work'[e].failed = failed
        /\ \A d \in Events \ {e} : work'[d] = work[d]
        /\ depth' = depth - 1
    BY <1>1, <1>2, <2>1 DEF Finish, Works, Phases
  <2>3. Active' = Active \ {e}
    BY <2>2 DEF Active
  <2>4. Cardinality(Active') = Cardinality(Active) - 1
    BY <1>1, <2>3, FS_RemoveElement
  <2>5. DepthCounts'
    BY <1>1, <1>3, <2>2, <2>4 DEF DepthCounts
  <2>6. WorkInv'
    BY <1>1, <1>3, <2>1, <2>2 DEF WorkInv, Batched
  <2>7. ProcessorTypeOK'
    BY <1>1, <1>3, <2>2 DEF ProcessorTypeOK, Works
  <2> QED
    BY <1>4, <2>5, <2>6, <2>7
<1>6. CASE /\ Batched(w.plan) \/ failed = {}
           /\ depth' = depth
           /\ \E end \in Nat, busy \in SUBSET Nat :
                work' = [work EXCEPT ![e].busy = busy, ![e].reached = end, ![e].failed = failed]
  <2>1. PICK end \in Nat, busy \in SUBSET Nat :
               work' = [work EXCEPT ![e].busy = busy, ![e].reached = end, ![e].failed = failed]
    BY <1>6
  <2> HIDE DEF failed
  <2>2. /\ work' \in [Events -> Works]
        /\ work'[e].phase = "running" /\ work'[e].plan = w.plan
        /\ work'[e].failed = failed
        /\ \A d \in Events \ {e} : work'[d] = work[d]
    BY <1>1, <1>2, <2>1 DEF Works
  <2>3. Active' = Active
    BY <1>1, <2>2 DEF Active
  <2>4. WorkInv'
    BY <1>1, <1>3, <1>6, <2>2 DEF WorkInv, Batched
  <2>5. ProcessorTypeOK'
    BY <1>1, <1>3, <1>6, <2>2 DEF ProcessorTypeOK, Works
  <2> QED
    BY <1>3, <1>4, <1>6, <2>3, <2>4, <2>5 DEF DepthCounts
<1>7. ASSUME fine \/ Batched(w.plan)
      PROVE  Batched(w.plan) \/ failed = {}
  BY <1>1, <1>2, <1>7
<1>8. \A end \in Nat : (w.busy \ {i}) \cup (w.reached + 1)..end \in SUBSET Nat
  BY <1>1 DEF Works
<1>9. ChunkEnd(w.plan, w.reached) \in Nat /\ w.reached \in Nat
  BY <1>1, ChunkEndType DEF Works
<1>10. \/ Finish(e, "failed", failed)
       \/ (fine \/ Batched(w.plan)) /\ Finish(e, "handled", failed)
       \/ /\ fine \/ Batched(w.plan)
          /\ depth' = depth
          /\ \E end \in Nat :
               work' = [work EXCEPT ![e].busy = (w.busy \ {i}) \cup (w.reached + 1)..end,
                                    ![e].reached = end, ![e].failed = failed]
  BY <1>3, <1>9 DEF Proceed
<1> QED
  BY <1>5, <1>6, <1>7, <1>8, <1>10

LEMMA ProcessorHolds == ProcessorSpec => []ProcessorInv
<1>1. ProcessorInit => ProcessorInv
  <2> SUFFICES ASSUME ProcessorInit PROVE ProcessorInv
    OBVIOUS
  <2>1. Active = {} /\ Cardinality(Active) = 0 /\ MaxDepth \in Nat
    BY FS_EmptySet, ProcessorAssumption DEF ProcessorInit, Active, Idle
  <2>2. ProcessorTypeOK
    BY ProcessorAssumption DEF ProcessorInit, ProcessorTypeOK, Idle, Phases
  <2> QED
    BY <2>1, <2>2 DEF ProcessorInit, ProcessorInv, DepthCounts, WorkInv, ListsInv, Idle
<1>2. ProcessorInv /\ [ProcessorNext]_processorVars => ProcessorInv'
  <2> SUFFICES ASSUME ProcessorInv, [ProcessorNext]_processorVars PROVE ProcessorInv'
    OBVIOUS
  <2>1. CASE UNCHANGED processorVars
    BY <2>1 DEF processorVars, ProcessorInv, ProcessorTypeOK, DepthCounts, WorkInv, ListsInv,
                Active, Batched
  <2> QED
    BY <2>1, RegistrationsKeepInv, StartKeepsInv, EndKeepsInv DEF ProcessorNext
<1> QED
  BY <1>1, <1>2, PTL DEF ProcessorSpec

(* Every variable keeps its type, whatever the sweep drops from the lists.  *)
THEOREM ProcessorTyped == ProcessorSpec => []ProcessorTypeOK
<1>1. ProcessorInv => ProcessorTypeOK
  BY DEF ProcessorInv
<1> QED
  BY <1>1, ProcessorHolds, PTL

(* The depth counter is exact but for what a cleanup found under way, with  *)
(* any number of events and any limit (processEventInternal, cleanup).      *)
THEOREM DepthIsExact == ProcessorSpec => []DepthCounts
<1>1. ProcessorInv => DepthCounts
  BY DEF ProcessorInv
<1> QED
  BY <1>1, ProcessorHolds, PTL

(* No event counts as handled while a handler registered for it when it     *)
(* started was left out, unless it was swept or its error ignored.          *)
THEOREM HandledHasReasons == ProcessorSpec => []HandledExplained
<1>1. ProcessorInv => HandledExplained
  <2> SUFFICES ASSUME ProcessorInv, NEW e \in Events, work[e].phase = "handled",
                      NEW h \in expected[e]
               PROVE  \E i \in 1..Len(work[e].plan) :
                        /\ work[e].plan[i] = h
                        /\ i \notin work[e].failed \/ Batched(work[e].plan)
    BY DEF HandledExplained
  <2>1. h \in ToSet(work[e].plan) /\ (Batched(work[e].plan) \/ work[e].failed = {})
    BY DEF ProcessorInv, WorkInv
  <2>2. work[e].plan \in Seq(Handlers)
    BY DEF ProcessorInv, ProcessorTypeOK
  <2>3. PICK i \in 1..Len(work[e].plan) : work[e].plan[i] = h
    BY <2>1, <2>2, SeqFacts
  <2> QED
    BY <2>1, <2>3
<1> QED
  BY <1>1, ProcessorHolds, PTL
=============================================================================
