------------------------- MODULE HandlerStackProofs -------------------------
(***************************************************************************)
(* What holds of the slots and of the stack of middlewares for every set   *)
(* of calls, limits, nestings and number of retries.                       *)
(***************************************************************************)
EXTENDS HandlerStack, SequenceLemmas

(* The queue holds the waiting calls, each once.                            *)
QueueInv ==
  /\ IsInjective(queue)
  /\ \A c \in Calls : place[c] = "waiting" <=> c \in ToSet(queue)

(* Nobody stands behind a call that came later.                             *)
OrderInv ==
  /\ \A c, d \in Calls : <<c, d>> \in before => place[c] # "new" /\ place[d] # "new"
  /\ \A i, j \in DOMAIN queue : i < j => <<queue[j], queue[i]>> \notin before

(* The invariant: types, the queue, the count and that nobody waits idly.   *)
SlotsInv == SlotsTypeOK /\ QueueInv /\ SlotsAddUp /\ NoIdleSlot

-----------------------------------------------------------------------------
(* The steps.                                                               *)
Waiters == {c \in Calls : place[c] = "waiting"}

LEMMA HoldersFinite ==
  ASSUME ConcurrencyAssumption
  PROVE  IsFiniteSet(Holders) /\ Cardinality(Holders) \in Nat
BY FS_Subset, FS_CardinalityType DEF Holders, ConcurrencyAssumption

LEMMA InitSlots ==
  ASSUME SlotsInit
  PROVE  SlotsInv
<1>1. Holders = {}
  BY DEF SlotsInit, Holders
<1>2. SlotsAddUp
  BY <1>1, FS_EmptySet DEF SlotsInit, SlotsAddUp
<1>3. SlotsTypeOK /\ QueueInv /\ NoIdleSlot
  BY DEF SlotsInit, SlotsTypeOK, QueueInv, NoIdleSlot, Places, ToSet, IsInjective
<1> QED
  BY <1>2, <1>3 DEF SlotsInv

(* A call comes and takes a slot, waits for one or is dropped.              *)
LEMMA AcquireSlots ==
  ASSUME ConcurrencyAssumption, SlotsInv, NEW c \in Calls, Acquire(c)
  PROVE  SlotsInv'
<1> USE DEF SlotsInv
<1>1. before' \subseteq Calls \X Calls
  BY DEF Acquire, SlotsTypeOK, ToSet
<1>2. c \notin ToSet(queue)
  BY DEF Acquire, QueueInv, SlotsTypeOK
<1>3. CASE active < Limit[c] /\ active' = active + 1
             /\ place' = [place EXCEPT ![c] = "holding"] /\ queue' = queue
  <2>1. Holders' = Holders \cup {c} /\ c \notin Holders
    BY <1>3 DEF Holders, Acquire, SlotsTypeOK
  <2>2. Cardinality(Holders') = Cardinality(Holders) + 1
    BY <2>1, HoldersFinite, FS_AddElement
  <2>3. SlotsAddUp'
    BY <1>3, <2>2 DEF SlotsAddUp
  <2>4. SlotsTypeOK' /\ QueueInv'
    BY <1>1, <1>3 DEF SlotsTypeOK, QueueInv, Places, Acquire
  <2>5. NoIdleSlot'
    BY <1>3 DEF NoIdleSlot, SlotsTypeOK, ConcurrencyAssumption
  <2> QED
    BY <2>3, <2>4, <2>5
<1>4. CASE active >= Limit[c] /\ active' = active
             /\ place' = [place EXCEPT ![c] = "waiting"] /\ queue' = Append(queue, c)
  <2>1. Holders' = Holders
    BY <1>4 DEF Holders, Acquire, SlotsTypeOK
  <2>2. SlotsAddUp' /\ NoIdleSlot'
    BY <1>4, <2>1 DEF SlotsAddUp, NoIdleSlot, SlotsTypeOK
  <2>3. queue \in Seq(Calls) /\ IsInjective(queue)
    BY DEF SlotsTypeOK, QueueInv
  <2>4. /\ queue' \in Seq(Calls)
        /\ IsInjective(queue')
        /\ \A x : x \in ToSet(queue')
                  <=> x = c \/ x \in ToSet(queue)
    <3> DEFINE a == Append(queue, c)
    <3>1. /\ a \in Seq(Calls)
          /\ IsInjective(a)
          /\ \A x : x \in ToSet(a) <=> x = c \/ x \in ToSet(queue)
      BY ONLY c \in Calls, <1>2, <2>3, AppendOnce
    <3> HIDE DEF a
    <3>2. queue' = a
      BY <1>4 DEF a
    <3> QED
      BY ONLY <3>1, <3>2
  <2>5. SlotsTypeOK'
    BY <1>1, <1>4, <2>4 DEF SlotsTypeOK, Places
  <2>6. QueueInv'
    BY <1>4, <2>4 DEF QueueInv, SlotsTypeOK
  <2> QED
    BY <2>2, <2>5, <2>6
<1>5. CASE active' = active /\ place' = [place EXCEPT ![c] = "dropped"] /\ queue' = queue
  <2>1. Holders' = Holders
    BY <1>5 DEF Holders, Acquire, SlotsTypeOK
  <2>2. SlotsAddUp' /\ NoIdleSlot'
    BY <1>5, <2>1 DEF SlotsAddUp, NoIdleSlot, SlotsTypeOK
  <2>3. SlotsTypeOK' /\ QueueInv'
    BY <1>1, <1>5 DEF SlotsTypeOK, QueueInv, Places, Acquire
  <2> QED
    BY <2>2, <2>3
<1> QED
  BY <1>3, <1>4, <1>5 DEF Acquire

(* A waiting call gives up.                                                 *)
LEMMA ExpireSlots ==
  ASSUME ConcurrencyAssumption, SlotsInv, NEW c \in Calls, Expire(c)
  PROVE  SlotsInv'
<1> USE DEF SlotsInv
<1>1. PICK k \in DOMAIN queue : queue[k] = c /\ queue' = RemoveAt(queue, k)
  BY DEF Expire
<1>2. queue \in Seq(Calls) /\ IsInjective(queue)
  BY DEF SlotsTypeOK, QueueInv
<1>3. /\ queue' \in Seq(Calls)
      /\ IsInjective(queue')
      /\ \A x : x \in ToSet(queue')
                <=> x # c /\ x \in ToSet(queue)
  <2> DEFINE a == RemoveAt(queue, k)
  <2>1. /\ a \in Seq(Calls)
        /\ IsInjective(a)
        /\ \A x : x \in ToSet(a) <=> x # queue[k] /\ x \in ToSet(queue)
    BY ONLY k \in DOMAIN queue, <1>2, RemoveOnce
  <2> HIDE DEF a
  <2>2. queue' = a /\ queue[k] = c
    BY <1>1 DEF a
  <2> QED
    BY ONLY <2>1, <2>2
<1>4. place' = [place EXCEPT ![c] = "expired"] /\ active' = active /\ before' = before
  BY DEF Expire
<1>5. Holders' = Holders
  BY <1>4 DEF Holders, Expire, SlotsTypeOK
<1>6. SlotsAddUp' /\ NoIdleSlot'
  BY <1>4, <1>5 DEF SlotsAddUp, NoIdleSlot, SlotsTypeOK
<1>7. SlotsTypeOK'
  BY <1>3, <1>4 DEF SlotsTypeOK, Places
<1>8. QueueInv'
  BY <1>3, <1>4 DEF QueueInv, SlotsTypeOK
<1> QED
  BY <1>6, <1>7, <1>8

(* A slot is given up and perhaps taken by the call that waited longest.    *)
LEMMA ReleaseSlots ==
  ASSUME ConcurrencyAssumption, SlotsInv, NEW c \in Calls, Release(c)
  PROVE  SlotsInv'
<1> USE DEF SlotsInv
<1>1. /\ c \in Holders /\ IsFiniteSet(Holders) /\ Cardinality(Holders) \in Nat
      /\ Cardinality(Holders \ {c}) = Cardinality(Holders) - 1
      /\ IsFiniteSet(Holders \ {c})
  BY HoldersFinite, FS_RemoveElement DEF Holders, Release
<1>2. active \in Nat /\ active >= 1 /\ Given = active - 1
      /\ Cardinality(Holders \ {c}) = active - 1
  <2>1. Cardinality(Holders) >= 1
    BY <1>1, FS_CardinalityType
  <2> QED
    BY <1>1, <2>1 DEF SlotsAddUp, Given
<1>3. CASE queue = <<>> /\ active' = Given /\ queue' = queue
             /\ place' = [place EXCEPT ![c] = "released"]
  <2>1. Holders' = Holders \ {c}
    BY <1>3 DEF Holders, Release, SlotsTypeOK
  <2>2. SlotsAddUp'
    BY <1>2, <1>3, <2>1 DEF SlotsAddUp
  <2>3. SlotsTypeOK' /\ QueueInv'
    BY <1>2, <1>3 DEF SlotsTypeOK, QueueInv, Places, Release
  <2>4. NoIdleSlot'
    BY <1>3, <2>3 DEF NoIdleSlot, QueueInv, ToSet
  <2> QED
    BY <2>2, <2>3, <2>4
<1>4. CASE queue # <<>> /\ active' = Given + 1 /\ queue' = Tail(queue)
             /\ place' = [place EXCEPT ![c] = "released", ![Head(queue)] = "holding"]
  <2> DEFINE d == Head(queue)
  <2>1. queue \in Seq(Calls) /\ IsInjective(queue)
    BY DEF SlotsTypeOK, QueueInv
  <2>2. /\ queue' \in Seq(Calls) /\ d \in Calls
        /\ d \in ToSet(queue)
        /\ IsInjective(queue')
        /\ \A x : x \in ToSet(queue')
                  <=> x # d /\ x \in ToSet(queue)
    <3> DEFINE a == Tail(queue)
    <3>1. /\ a \in Seq(Calls) /\ d \in Calls
          /\ d \in ToSet(queue)
          /\ IsInjective(a)
          /\ \A x : x \in ToSet(a) <=> x # d /\ x \in ToSet(queue)
      <4>1. queue # <<>>
        BY <1>4
      <4> QED
        BY ONLY <2>1, <4>1, TailOnce
    <3> HIDE DEF a, d
    <3>2. queue' = a
      BY <1>4 DEF a
    <3> QED
      BY ONLY <3>1, <3>2
  <2> HIDE DEF d
  <2>3. /\ place[d] = "waiting" /\ d # c
        /\ place' = [place EXCEPT ![c] = "released", ![d] = "holding"]
    BY <1>4, <2>2 DEF QueueInv, Release, d
  <2>4. Holders' = (Holders \ {c}) \cup {d} /\ d \notin Holders \ {c}
    BY <2>2, <2>3 DEF Holders, SlotsTypeOK
  <2>5. SlotsAddUp'
    <3>1. Cardinality(Holders') = Cardinality(Holders \ {c}) + 1
      BY <1>1, <2>4, FS_AddElement
    <3> QED
      BY <1>2, <1>4, <3>1 DEF SlotsAddUp
  <2>6. SlotsTypeOK'
    <3>1. place' \in [Calls -> Places]
      BY <2>2, <2>3 DEF SlotsTypeOK, Places
    <3>2. active' \in Nat /\ before' = before
      BY <1>2, <1>4 DEF Release
    <3> QED
      BY <2>2, <3>1, <3>2 DEF SlotsTypeOK
  <2>7. QueueInv'
    BY <2>2, <2>3 DEF QueueInv, SlotsTypeOK, Release
  <2>8. NoIdleSlot'
    BY <1>2, <1>4, <2>2, <2>3 DEF NoIdleSlot, SlotsTypeOK
  <2> QED
    BY <2>5, <2>6, <2>7, <2>8
<1> QED
  BY <1>3, <1>4 DEF Release

LEMMA NextSlots ==
  ASSUME ConcurrencyAssumption, SlotsInv, [SlotsNext]_slotVars
  PROVE  SlotsInv'
<1>1. CASE UNCHANGED slotVars
  BY <1>1 DEF slotVars, SlotsInv, SlotsTypeOK, QueueInv, SlotsAddUp, Holders, NoIdleSlot
<1>2. CASE SlotsNext
  BY <1>2, AcquireSlots, ExpireSlots, ReleaseSlots DEF SlotsNext
<1> QED
  BY <1>1, <1>2

-----------------------------------------------------------------------------
(* Order.                                                                   *)
FifoInv == SlotsInv /\ OrderInv /\ FirstCome

LEMMA AcquireFifo ==
  ASSUME ConcurrencyAssumption, FifoInv, NEW c \in Calls, Acquire(c)
  PROVE  OrderInv' /\ FirstCome'
<1>0. SlotsTypeOK /\ QueueInv /\ NoIdleSlot /\ OrderInv /\ FirstCome /\ Limit \in [Calls -> Nat \ {0}]
  BY DEF FifoInv, SlotsInv, ConcurrencyAssumption
<1>1. /\ place[c] = "new" /\ before' = before \cup {<<b, c>> : b \in ToSet(queue)}
      /\ queue \in Seq(Calls)
      /\ \A x \in Calls : x \in ToSet(queue) <=> place[x] = "waiting"
  BY <1>0 DEF Acquire, SlotsTypeOK, QueueInv, ToSet
<1>2. PICK p \in {"holding", "waiting", "dropped"} : place' = [place EXCEPT ![c] = p]
  BY DEF Acquire
<1>3. \A x, y \in Calls : <<x, y>> \in before' => place'[x] # "new" /\ place'[y] # "new"
  BY <1>0, <1>1, <1>2 DEF OrderInv, SlotsTypeOK
<1>4. ASSUME NEW x \in Calls, NEW y \in Calls, x # c, <<y, x>> \notin before
      PROVE  <<y, x>> \notin before'
  BY <1>1, <1>4
<1>5. \A x \in Calls : <<c, x>> \notin before
  BY <1>0, <1>1 DEF OrderInv
<1>6. \A i, j \in DOMAIN queue' : i < j => <<queue'[j], queue'[i]>> \notin before'
  <2>1. CASE queue' = queue
    <3>1. \A i \in DOMAIN queue : queue[i] \in Calls /\ queue[i] # c
      BY <1>0, <1>1 DEF QueueInv, ToSet
    <3> QED
      BY <1>0, <1>4, <2>1, <3>1 DEF OrderInv
  <2>2. CASE queue' = Append(queue, c)
    <3> DEFINE a == Append(queue, c)
    <3>1. /\ IsInjective(queue)
          /\ \A i \in DOMAIN queue : queue[i] \in Calls /\ queue[i] # c
      BY <1>0, <1>1 DEF QueueInv, ToSet
    <3>2. /\ a \in Seq(Calls)
          /\ \A i, j \in DOMAIN a : i < j =>
               \/ a[j] = c /\ a[i] # c
               \/ \E m, n \in DOMAIN queue : m < n /\ queue[m] = a[i] /\ queue[n] = a[j]
      <4>1. c \notin ToSet(queue)
        BY <3>1 DEF ToSet
      <4> QED
        BY ONLY c \in Calls, <1>1, <3>1, <4>1, AppendOnce
    <3> HIDE DEF a
    <3>3. ASSUME NEW i \in DOMAIN a, NEW j \in DOMAIN a, i < j
          PROVE  <<a[j], a[i]>> \notin before'
      <4>1. a[i] \in Calls /\ a[j] \in Calls
        BY <3>2
      <4>2. CASE a[j] = c /\ a[i] # c
        BY <1>4, <1>5, <4>1, <4>2
      <4>3. CASE \E m, n \in DOMAIN queue : m < n /\ queue[m] = a[i] /\ queue[n] = a[j]
        <5>1. a[i] # c /\ <<a[j], a[i]>> \notin before
          BY <1>0, <3>1, <4>3 DEF OrderInv
        <5> QED
          BY <1>4, <4>1, <5>1
      <4> QED
        BY <3>2, <3>3, <4>2, <4>3
    <3> QED
      BY <2>2, <3>3 DEF a
  <2> QED
    BY <2>1, <2>2 DEF Acquire
<1>7. FirstCome'
  <2> SUFFICES ASSUME NEW x \in Calls, NEW y \in Calls, <<x, y>> \in before',
                      Limit[y] <= Limit[x], place'[x] = "waiting"
               PROVE  place'[y] \notin {"holding", "released"}
    BY DEF FirstCome
  <2>1. CASE y # c
    <3>1. <<x, y>> \in before /\ place'[y] = place[y] /\ x # c
      BY <1>0, <1>1, <1>2, <1>5, <2>1 DEF SlotsTypeOK
    <3>2. place[x] = "waiting"
      BY <1>0, <1>2, <3>1 DEF SlotsTypeOK
    <3> QED
      BY <1>0, <3>1, <3>2 DEF FirstCome
  <2>2. CASE y = c
    <3>1. x # c /\ place[x] = "waiting"
      BY <1>0, <1>1, <1>2, <2>2 DEF OrderInv, SlotsTypeOK
    <3>2. ~(active < Limit[c])
      BY <1>0, <2>2, <3>1 DEF NoIdleSlot, SlotsTypeOK
    <3> QED
      BY <1>0, <2>2, <3>2 DEF Acquire, SlotsTypeOK
  <2> QED
    BY <2>1, <2>2
<1> QED
  BY <1>3, <1>6, <1>7 DEF OrderInv

(* A step that takes calls out of the queue, and wakes none or the first.   *)
LEMMA LeaveFifo ==
  ASSUME FifoInv, UNCHANGED before,
         \A i, j \in DOMAIN queue' : i < j =>
           \E m, n \in DOMAIN queue : m < n /\ queue[m] = queue'[i] /\ queue[n] = queue'[j],
         \A c \in Calls : place'[c] = "new" => place[c] = "new",
         \A c \in Calls : place'[c] = "waiting" => place[c] = "waiting",
         \A c \in Calls : place'[c] \in {"holding", "released"} =>
           \/ place[c] \in {"holding", "released"}
           \/ queue # <<>> /\ c = Head(queue) /\ place'[c] = "holding"
  PROVE  OrderInv' /\ FirstCome'
<1>0. SlotsTypeOK /\ QueueInv /\ OrderInv /\ FirstCome
  BY DEF FifoInv, SlotsInv
<1>1. OrderInv'
  BY <1>0 DEF OrderInv
<1>2. FirstCome'
  <2> SUFFICES ASSUME NEW x \in Calls, NEW y \in Calls, <<x, y>> \in before,
                      Limit[y] <= Limit[x], place'[x] = "waiting",
                      place'[y] \in {"holding", "released"}
               PROVE  FALSE
    BY DEF FirstCome
  <2>1. place[x] = "waiting"
    OBVIOUS
  <2>2. place[y] \notin {"holding", "released"}
    BY <1>0, <2>1 DEF FirstCome
  <2>3. queue # <<>> /\ y = Head(queue) /\ x # y
    BY <2>2
  <2>4. PICK i \in DOMAIN queue : queue[i] = x
    BY <1>0, <2>1 DEF QueueInv, ToSet
  <2>5. 1 \in DOMAIN queue /\ 1 < i /\ y = queue[1]
    BY <1>0, <2>3, <2>4 DEF SlotsTypeOK
  <2> QED
    BY <1>0, <2>4, <2>5 DEF OrderInv
<1> QED
  BY <1>1, <1>2

LEMMA ExpireFifo ==
  ASSUME FifoInv, NEW c \in Calls, Expire(c)
  PROVE  OrderInv' /\ FirstCome'
<1>1. queue \in Seq(Calls) /\ IsInjective(queue)
  BY DEF FifoInv, SlotsInv, SlotsTypeOK, QueueInv
<1>2. PICK k \in DOMAIN queue : queue' = RemoveAt(queue, k)
  BY DEF Expire
<1>3. \A i, j \in DOMAIN queue' : i < j =>
        \E m, n \in DOMAIN queue : m < n /\ queue[m] = queue'[i] /\ queue[n] = queue'[j]
  <2> DEFINE a == RemoveAt(queue, k)
  <2>1. \A i, j \in DOMAIN a : i < j =>
          \E m, n \in DOMAIN queue : m < n /\ queue[m] = a[i] /\ queue[n] = a[j]
    BY ONLY k \in DOMAIN queue, <1>1, RemoveOnce
  <2> HIDE DEF a
  <2>2. queue' = a
    BY <1>2 DEF a
  <2> QED
    BY ONLY <2>1, <2>2
<1>4. place \in [Calls -> Places] /\ place' = [place EXCEPT ![c] = "expired"] /\ before' = before
  BY DEF Expire, FifoInv, SlotsInv, SlotsTypeOK
<1> QED
  BY <1>3, <1>4, LeaveFifo

LEMMA ReleaseFifo ==
  ASSUME FifoInv, NEW c \in Calls, Release(c)
  PROVE  OrderInv' /\ FirstCome'
<1>1. queue \in Seq(Calls) /\ IsInjective(queue)
  BY DEF FifoInv, SlotsInv, SlotsTypeOK, QueueInv
<1>2. place \in [Calls -> Places] /\ place[c] = "holding" /\ before' = before
  BY DEF Release, FifoInv, SlotsInv, SlotsTypeOK
<1>3. CASE queue = <<>> /\ queue' = queue /\ place' = [place EXCEPT ![c] = "released"]
  <2>1. \A i, j \in DOMAIN queue' : i < j =>
          \E m, n \in DOMAIN queue : m < n /\ queue[m] = queue'[i] /\ queue[n] = queue'[j]
    BY <1>3
  <2> QED
    BY <1>2, <1>3, <2>1, LeaveFifo
<1>4. CASE queue # <<>> /\ queue' = Tail(queue)
             /\ place' = [place EXCEPT ![c] = "released", ![Head(queue)] = "holding"]
  <2> DEFINE a == Tail(queue)
  <2>1. \A i, j \in DOMAIN a : i < j =>
          \E m, n \in DOMAIN queue : m < n /\ queue[m] = a[i] /\ queue[n] = a[j]
    <3>1. queue # <<>>
      BY <1>4
    <3> QED
      BY ONLY <1>1, <3>1, TailOnce
  <2> HIDE DEF a
  <2>2. queue' = a
    BY <1>4 DEF a
  <2>3. \A i, j \in DOMAIN queue' : i < j =>
          \E m, n \in DOMAIN queue : m < n /\ queue[m] = queue'[i] /\ queue[n] = queue'[j]
    BY ONLY <2>1, <2>2
  <2> QED
    BY <1>2, <1>4, <2>3, LeaveFifo
<1> QED
  BY <1>3, <1>4 DEF Release

LEMMA NextFifo ==
  ASSUME ConcurrencyAssumption, FifoInv, [SlotsNext]_slotVars
  PROVE  FifoInv'
<1>1. SlotsInv'
  BY NextSlots DEF FifoInv
<1>2. CASE UNCHANGED slotVars
  BY <1>1, <1>2 DEF slotVars, FifoInv, OrderInv, FirstCome
<1>3. CASE SlotsNext
  <2>1. OrderInv' /\ FirstCome'
    BY <1>3, AcquireFifo, ExpireFifo, ReleaseFifo DEF SlotsNext
  <2> QED
    BY <1>1, <2>1 DEF FifoInv
<1> QED
  BY <1>2, <1>3

-----------------------------------------------------------------------------
(* Types, the queue of waiting calls, the count of slots, the absence of    *)
(* idle waiting and the order hold together: each needs the others          *)
(* (ConcurrencyManager).                                                    *)
THEOREM SlotsInvariant == SlotsSpec => []FifoInv
<1>1. SlotsInit => FifoInv
  BY InitSlots DEF SlotsInit, FifoInv, OrderInv, FirstCome
<1>2. FifoInv /\ [SlotsNext]_slotVars => FifoInv'
  BY NextFifo, ConcurrencyAssumption
<1> QED
  BY <1>1, <1>2, PTL DEF SlotsSpec

(* The count kept by the manager is the number of calls that hold a slot,   *)
(* whatever limits share the key and whoever gives up (acquire, release).   *)
THEOREM SlotsCounted == SlotsSpec => []SlotsAddUp
<1>1. FifoInv => SlotsAddUp
  BY DEF FifoInv, SlotsInv
<1> QED
  BY <1>1, SlotsInvariant, PTL

(* No call waits while its limit would let it in (release).                 *)
THEOREM NoWakeUpLost == SlotsSpec => []NoIdleSlot
<1>1. FifoInv => NoIdleSlot
  BY DEF FifoInv, SlotsInv
<1> QED
  BY <1>1, SlotsInvariant, PTL

(* No waiting call is overtaken by a later one of no higher limit (acquire, *)
(* release).                                                                *)
THEOREM ServedInOrder == SlotsSpec => []FirstCome
<1>1. FifoInv => FirstCome
  BY DEF FifoInv
<1> QED
  BY <1>1, SlotsInvariant, PTL

-----------------------------------------------------------------------------
(* A retry loop has a caller who listens, or one who was told of a timeout; *)
(* an execution of a call whose retries are within the timeout is the one   *)
(* its loop waits for.                                                      *)
LoopInv ==
  \A c \in Calls :
    /\ loop[c] = "idle" => attempts[c] = 0
    /\ loop[c] = "delay" => attempts[c] <= MaxRetries
    /\ loop[c] \in {"attempt", "delay"} =>
         place[c] = "holding" \/ (c \in RetryInside /\ answer[c] = "timeout")
    /\ c \in RetryInside =>
         \A k \in 1..(MaxRetries + 1) : <<c, k>> \in running => Heard(c, k)

StackInv == FifoInv /\ StackTypeOK /\ LoopInv

-----------------------------------------------------------------------------
(* What a step of the stack does to the slots.                              *)

LEMMA AnswerIsRelease ==
  ASSUME NEW c \in Calls, NEW a, Answer(c, a)
  PROVE  SlotsNext
BY DEF Answer, SlotsNext

LEMMA ReturnOnSlots ==
  ASSUME NEW c \in Calls, NEW a, Return(c, a)
  PROVE  [SlotsNext]_slotVars
BY AnswerIsRelease DEF Return

LEMMA CatchOnSlots ==
  ASSUME NEW c \in Calls, NEW retryable, Catch(c, retryable)
  PROVE  [SlotsNext]_slotVars
BY ReturnOnSlots DEF Catch

(* Every step of the stack is a step of the manager, or leaves it alone.    *)
LEMMA StackStepIsSlotsStep ==
  ASSUME StackNext
  PROVE  [SlotsNext]_slotVars
<1>1. ASSUME NEW c \in Calls, Come(c) \/ GiveUp(c)
      PROVE  SlotsNext
  BY <1>1 DEF Come, GiveUp, SlotsNext
<1>2. ASSUME NEW c \in Calls, Start(c) \/ Retry(c)
      PROVE  UNCHANGED slotVars
  BY <1>2 DEF Start, Retry, Execute
<1>3. ASSUME NEW c \in Calls, TimerFires(c)
      PROVE  [SlotsNext]_slotVars
  BY <1>3, AnswerIsRelease, CatchOnSlots DEF TimerFires
<1>4. ASSUME NEW c \in Calls, NEW k, HandlerEnds(c, k)
      PROVE  [SlotsNext]_slotVars
  BY <1>4, ReturnOnSlots, CatchOnSlots DEF HandlerEnds
<1> QED
  BY <1>1, <1>2, <1>3, <1>4 DEF StackNext

(* The stack implements the manager: whatever timeouts and retries do, it   *)
(* gives its slots as Concurrency says.                                     *)
THEOREM StackImplementsSlots == StackSpec => SlotsSpec
<1>1. StackInit => SlotsInit
  BY DEF StackInit
<1>2. [StackNext]_allVars => [SlotsNext]_slotVars
  BY StackStepIsSlotsStep DEF allVars
<1> QED
  BY <1>1, <1>2, PTL DEF StackSpec, SlotsSpec

-----------------------------------------------------------------------------
(* What a step does to one call and leaves of the others.                   *)

(* An answer releases the call, and wakes at most another.                  *)
LEMMA AnswerEffect ==
  ASSUME StackInv, NEW c \in Calls, NEW a \in {"ok", "error", "exceeded", "timeout"},
         Answer(c, a)
  PROVE  /\ answer' = [answer EXCEPT ![c] = a]
         /\ \A d \in Calls \ {c} : place[d] = "holding" => place'[d] = "holding"
<1>1. place \in [Calls -> Places]
  BY DEF StackInv, StackTypeOK, SlotsTypeOK
<1> QED
  BY <1>1 DEF Answer, Release

LEMMA ReturnEffect ==
  ASSUME StackInv, NEW c \in Calls, NEW a \in {"ok", "error", "exceeded", "timeout"},
         Return(c, a)
  PROVE  /\ loop' = [loop EXCEPT ![c] = "over"]
         /\ attempts' = attempts
         /\ answer' \in [Calls -> {"none", "ok", "error", "exceeded", "timeout"}]
         /\ \A d \in Calls \ {c} : /\ place[d] = "holding" => place'[d] = "holding"
                                   /\ answer'[d] = answer[d]
<1>1. answer \in [Calls -> {"none", "ok", "error", "exceeded", "timeout"}]
  BY DEF StackInv, StackTypeOK
<1>2. CASE Answer(c, a)
  BY <1>1, <1>2, AnswerEffect DEF Return
<1>3. CASE place[c] # "holding" /\ UNCHANGED <<slotVars, answer>>
  BY <1>1, <1>3 DEF Return, slotVars
<1> QED
  BY <1>2, <1>3 DEF Return

(* The catch ends the loop, or has it wait for another attempt.             *)
LEMMA CatchEffect ==
  ASSUME StackInv, NEW c \in Calls, NEW retryable \in BOOLEAN, Catch(c, retryable)
  PROVE  /\ \/ loop' = [loop EXCEPT ![c] = "over"]
            \/ /\ loop' = [loop EXCEPT ![c] = "delay"]
               /\ attempts[c] <= MaxRetries
               /\ place' = place /\ answer' = answer
         /\ attempts' = attempts
         /\ answer' \in [Calls -> {"none", "ok", "error", "exceeded", "timeout"}]
         /\ \A d \in Calls \ {c} : /\ place[d] = "holding" => place'[d] = "holding"
                                   /\ answer'[d] = answer[d]
<1>1. answer \in [Calls -> {"none", "ok", "error", "exceeded", "timeout"}]
  BY DEF StackInv, StackTypeOK
<1>2. CASE Return(c, "exceeded") \/ Return(c, "error")
  BY <1>2, ReturnEffect
<1>3. CASE /\ attempts[c] <= MaxRetries
           /\ loop' = [loop EXCEPT ![c] = "delay"]
           /\ UNCHANGED <<slotVars, attempts, answer>>
  BY <1>1, <1>3 DEF slotVars
<1> QED
  BY <1>2, <1>3 DEF Catch

-----------------------------------------------------------------------------
(* The steps.                                                               *)

LEMMA SlotStepKeepsLoops ==
  ASSUME StackInv, NEW c \in Calls, Come(c) \/ GiveUp(c), SlotsTypeOK'
  PROVE  StackTypeOK' /\ LoopInv'
<1>1. UNCHANGED stackVars
  BY DEF Come, GiveUp
<1>2. \A d \in Calls : place[d] = "holding" => place'[d] = "holding"
  BY DEF StackInv, StackTypeOK, SlotsTypeOK, Come, GiveUp, Acquire, Expire
<1>3. StackTypeOK'
  BY <1>1 DEF stackVars, StackInv, StackTypeOK
<1>4. LoopInv'
  BY <1>1, <1>2 DEF stackVars, StackInv, LoopInv, Heard
<1> QED
  BY <1>3, <1>4

LEMMA ExecuteKeepsLoops ==
  ASSUME StackAssumption, StackInv, NEW c \in Calls, Start(c) \/ Retry(c)
  PROVE  StackTypeOK' /\ LoopInv'
<1>0. StackTypeOK /\ LoopInv /\ MaxRetries \in Nat
  BY DEF StackInv, StackAssumption
<1>1. /\ Execute(c)
      /\ loop[c] \in {"idle", "delay"}
      /\ loop[c] = "idle" => place[c] = "holding"
  BY DEF Start, Retry
<1>2. attempts[c] \in 0..MaxRetries /\ attempts[c] + 1 \in 1..(MaxRetries + 1)
  BY <1>0, <1>1 DEF StackTypeOK, LoopInv
<1>3. /\ place' = place /\ answer' = answer
      /\ attempts' = [attempts EXCEPT ![c] = attempts[c] + 1]
      /\ running' = running \cup {<<c, attempts[c] + 1>>}
      /\ loop' = [loop EXCEPT ![c] = "attempt"]
  BY <1>1 DEF Execute, slotVars
<1>4. StackTypeOK'
  <2>1. SlotsTypeOK'
    BY <1>0, <1>1 DEF StackTypeOK, SlotsTypeOK, Execute, slotVars
  <2> QED
    BY <1>0, <1>2, <1>3, <2>1 DEF StackTypeOK
<1>5. ASSUME NEW d \in Calls
      PROVE  LoopInv!(d)'
  <2>1. CASE d # c
    BY <1>0, <1>3, <2>1 DEF LoopInv, StackTypeOK, Heard
  <2>2. CASE d = c
    <3>1. loop'[c] = "attempt" /\ attempts'[c] = attempts[c] + 1
      BY <1>0, <1>3 DEF StackTypeOK
    <3>2. place'[c] = "holding" \/ (c \in RetryInside /\ answer'[c] = "timeout")
      BY <1>0, <1>1, <1>3 DEF LoopInv
    <3>3. c \in RetryInside =>
            \A k \in 1..(MaxRetries + 1) : <<c, k>> \in running' => k = attempts[c] + 1
      BY <1>0, <1>1, <1>3 DEF LoopInv, Heard
    <3> QED
      BY <2>2, <3>1, <3>2, <3>3 DEF Heard
  <2> QED
    BY <2>1, <2>2
<1> QED
  BY <1>4, <1>5 DEF LoopInv

LEMMA EndKeepsLoops ==
  ASSUME StackAssumption, StackInv, NEW c \in Calls, NEW k \in 1..(MaxRetries + 1),
         HandlerEnds(c, k), SlotsTypeOK'
  PROVE  StackTypeOK' /\ LoopInv'
<1>0. StackTypeOK /\ LoopInv
  BY DEF StackInv
<1>1. running' = running \ {<<c, k>>} /\ <<c, k>> \in running
  BY DEF HandlerEnds
<1>2. CASE Heard(c, k) /\ (Return(c, "ok") \/ \E retryable \in BOOLEAN : Catch(c, retryable))
  <2>1. /\ \/ loop' = [loop EXCEPT ![c] = "over"]
           \/ /\ loop' = [loop EXCEPT ![c] = "delay"]
              /\ attempts[c] <= MaxRetries
              /\ place' = place /\ answer' = answer
        /\ attempts' = attempts
        /\ answer' \in [Calls -> {"none", "ok", "error", "exceeded", "timeout"}]
        /\ \A d \in Calls \ {c} : /\ place[d] = "holding" => place'[d] = "holding"
                                  /\ answer'[d] = answer[d]
    BY <1>2, ReturnEffect, CatchEffect
  <2>2. StackTypeOK'
    BY <1>0, <1>1, <2>1 DEF StackTypeOK
  <2>3. ASSUME NEW d \in Calls
        PROVE  LoopInv!(d)'
    <3>1. CASE d # c
      BY <1>0, <1>1, <2>1, <3>1 DEF LoopInv, StackTypeOK, Heard
    <3>2. CASE d = c
      <4>1. loop[c] = "attempt" /\ attempts[c] = k
        BY <1>2 DEF Heard
      <4>2. loop'[c] = "over" \/ /\ loop'[c] = "delay" /\ attempts[c] <= MaxRetries
                                 /\ place' = place /\ answer' = answer
        BY <1>0, <2>1 DEF StackTypeOK
      <4>3. c \in RetryInside =>
              \A m \in 1..(MaxRetries + 1) : <<c, m>> \notin running'
        BY <1>0, <1>1, <4>1 DEF LoopInv, Heard
      <4> QED
        BY <1>0, <2>1, <3>2, <4>1, <4>2, <4>3 DEF LoopInv
    <3> QED
      BY <3>1, <3>2
  <2> QED
    BY <2>2, <2>3 DEF LoopInv
<1>3. CASE ~Heard(c, k) /\ UNCHANGED <<slotVars, attempts, loop, answer>>
  <2>1. place' = place /\ attempts' = attempts /\ loop' = loop /\ answer' = answer
    BY <1>3 DEF slotVars
  <2>2. StackTypeOK'
    BY <1>0, <1>1, <2>1 DEF StackTypeOK
  <2>3. LoopInv'
    BY <1>0, <1>1, <2>1 DEF LoopInv, Heard
  <2> QED
    BY <2>2, <2>3
<1> QED
  BY <1>2, <1>3 DEF HandlerEnds

LEMMA TimerKeepsLoops ==
  ASSUME StackAssumption, StackInv, NEW c \in Calls, TimerFires(c), SlotsTypeOK'
  PROVE  StackTypeOK' /\ LoopInv'
<1>0. StackTypeOK /\ LoopInv
  BY DEF StackInv
<1>1. running' = running
  BY DEF TimerFires
<1>2. CASE c \in RetryInside /\ Answer(c, "timeout") /\ UNCHANGED <<attempts, loop>>
  <2>1. /\ answer' = [answer EXCEPT ![c] = "timeout"]
        /\ \A d \in Calls \ {c} : place[d] = "holding" => place'[d] = "holding"
    BY <1>2, AnswerEffect
  <2>2. StackTypeOK'
    BY <1>0, <1>1, <1>2, <2>1 DEF StackTypeOK
  <2>3. LoopInv'
    BY <1>0, <1>1, <1>2, <2>1 DEF LoopInv, Heard, StackTypeOK
  <2> QED
    BY <2>2, <2>3
<1>3. CASE c \notin RetryInside /\ loop[c] = "attempt" /\ Catch(c, TRUE)
  <2>1. /\ \/ loop' = [loop EXCEPT ![c] = "over"]
           \/ /\ loop' = [loop EXCEPT ![c] = "delay"]
              /\ attempts[c] <= MaxRetries
              /\ place' = place /\ answer' = answer
        /\ attempts' = attempts
        /\ answer' \in [Calls -> {"none", "ok", "error", "exceeded", "timeout"}]
        /\ \A d \in Calls \ {c} : /\ place[d] = "holding" => place'[d] = "holding"
                                  /\ answer'[d] = answer[d]
    BY <1>3, CatchEffect
  <2>2. StackTypeOK'
    BY <1>0, <1>1, <2>1 DEF StackTypeOK
  <2>3. ASSUME NEW d \in Calls
        PROVE  LoopInv!(d)'
    <3>1. CASE d # c
      BY <1>0, <1>1, <2>1, <3>1 DEF LoopInv, StackTypeOK, Heard
    <3>2. CASE d = c
      <4>1. loop'[c] = "over" \/ /\ loop'[c] = "delay" /\ attempts[c] <= MaxRetries
                                 /\ place' = place /\ answer' = answer
        BY <1>0, <2>1 DEF StackTypeOK
      <4> QED
        BY <1>0, <1>3, <2>1, <3>2, <4>1 DEF LoopInv
    <3> QED
      BY <3>1, <3>2
  <2> QED
    BY <2>2, <2>3 DEF LoopInv
<1> QED
  BY <1>2, <1>3 DEF TimerFires

LEMMA StackStep ==
  ASSUME ConcurrencyAssumption, StackAssumption, StackInv, [StackNext]_allVars
  PROVE  StackInv'
<1>1. FifoInv' /\ SlotsTypeOK'
  <2>1. [SlotsNext]_slotVars
    BY StackStepIsSlotsStep DEF allVars
  <2> QED
    BY <2>1, NextFifo DEF StackInv, FifoInv, SlotsInv
<1>2. CASE UNCHANGED allVars
  <2>1. StackTypeOK' /\ LoopInv'
    BY <1>1, <1>2 DEF allVars, stackVars, slotVars, StackInv, StackTypeOK, LoopInv, Heard
  <2> QED
    BY <1>1, <2>1 DEF StackInv
<1>3. CASE StackNext
  <2>1. StackTypeOK' /\ LoopInv'
    BY <1>1, <1>3, SlotStepKeepsLoops, ExecuteKeepsLoops, EndKeepsLoops, TimerKeepsLoops
       DEF StackNext
  <2> QED
    BY <1>1, <2>1 DEF StackInv
<1> QED
  BY <1>2, <1>3

-----------------------------------------------------------------------------
(* The types of the stack and the hold of each loop on its caller, from     *)
(* which the rest follows (withTimeout, withRetry).                         *)
THEOREM StackInvariant == StackSpec => []StackInv
<1>1. StackInit => StackInv
  <2> SUFFICES ASSUME StackInit PROVE StackInv
    OBVIOUS
  <2>1. FifoInv
    BY InitSlots DEF StackInit, SlotsInit, FifoInv, OrderInv, FirstCome
  <2>2. StackTypeOK
    BY <2>1, StackAssumption DEF StackInit, StackTypeOK, FifoInv, SlotsInv, StackAssumption
  <2>3. LoopInv
    BY DEF StackInit, LoopInv
  <2> QED
    BY <2>1, <2>2, <2>3 DEF StackInv
<1>2. StackInv /\ [StackNext]_allVars => StackInv'
  BY StackStep, ConcurrencyAssumption, StackAssumption
<1> QED
  BY <1>1, <1>2, PTL DEF StackSpec

(* Every variable of the stack keeps its type; in particular no call is     *)
(* attempted more than MaxRetries + 1 times (withRetry).                    *)
THEOREM StackTypeCorrect == StackSpec => []StackTypeOK
<1>1. StackInv => StackTypeOK
  BY DEF StackInv
<1> QED
  BY <1>1, StackInvariant, PTL

(* Two executions of one call overlap only where the timeout is within the  *)
(* retries (withTimeout does not stop what it gives up on).                 *)
THEOREM OverlapOnlyOutside == StackSpec => []OverlapExplained
<1>1. StackInv => OverlapExplained
  <2> SUFFICES ASSUME StackInv, NEW e \in running, NEW f \in running,
                      e[1] = f[1], e # f, e[1] \in RetryInside
               PROVE  FALSE
    BY DEF OverlapExplained
  <2>1. /\ e = <<e[1], e[2]>> /\ e[1] \in Calls /\ e[2] \in 1..(MaxRetries + 1)
        /\ f = <<f[1], f[2]>> /\ f[2] \in 1..(MaxRetries + 1)
    BY DEF StackInv, StackTypeOK
  <2>2. e[2] = attempts[e[1]] /\ f[2] = attempts[e[1]]
    BY <2>1 DEF StackInv, LoopInv, Heard
  <2> QED
    BY <2>1, <2>2
<1> QED
  BY <1>1, StackInvariant, PTL

(* The executions a caller waits for are no more than the slots in use:     *)
(* whatever runs beyond them has been abandoned (withConcurrency around     *)
(* withTimeout).                                                            *)
THEOREM WithinSlots == StackSpec => []LiveWithinSlots
<1>1. StackInv => LiveWithinSlots
  <2> SUFFICES ASSUME StackInv PROVE LiveWithinSlots
    OBVIOUS
  <2>1. IsFiniteSet(Holders) /\ active = Cardinality(Holders)
    BY HoldersFinite, ConcurrencyAssumption DEF StackInv, FifoInv, SlotsInv, SlotsAddUp
  <2> DEFINE f == [e \in Awaited |-> e[1]]
  <2>2. f \in Injection(Awaited, Holders)
    <3>1. \A e \in Awaited : e = <<e[1], attempts[e[1]]>> /\ e[1] \in Holders
      BY DEF Awaited, StackInv, StackTypeOK, Heard, Holders
    <3>2. f \in [Awaited -> Holders]
      BY <3>1
    <3>3. \A d, e \in Awaited : f[d] = f[e] => d = e
      BY <3>1
    <3> QED
      BY <3>2, <3>3 DEF Injection, IsInjective
  <2>3. Cardinality(Awaited) <= Cardinality(Holders)
    BY <2>1, <2>2, FS_Injection
  <2> QED
    BY <2>1, <2>3 DEF LiveWithinSlots
<1> QED
  BY <1>1, StackInvariant, PTL

(* A handler is started for a caller who waits, or by a retry loop whose    *)
(* caller was told of a timeout (withTimeout around withRetry).             *)
THEOREM LateStartsOnlyInside == StackSpec => LateStartExplained
<1>1. StackInv /\ [StackNext]_allVars =>
        [\A c \in Calls :
           attempts'[c] # attempts[c] =>
             \/ place[c] = "holding"
             \/ c \in RetryInside /\ answer[c] = "timeout"]_allVars
  <2> SUFFICES ASSUME StackInv, StackNext, NEW d \in Calls, attempts'[d] # attempts[d]
               PROVE  place[d] = "holding" \/ (d \in RetryInside /\ answer[d] = "timeout")
    OBVIOUS
  <2>0. attempts \in [Calls -> 0..(MaxRetries + 1)]
    BY DEF StackInv, StackTypeOK
  <2>1. ASSUME NEW c \in Calls, Come(c) \/ GiveUp(c) \/ TimerFires(c)
        PROVE  FALSE
    BY <2>1, CatchEffect DEF Come, GiveUp, TimerFires, stackVars
  <2>2. ASSUME NEW c \in Calls, NEW k, HandlerEnds(c, k)
        PROVE  FALSE
    BY <2>2, ReturnEffect, CatchEffect DEF HandlerEnds
  <2>3. ASSUME NEW c \in Calls, Start(c)
        PROVE  place[d] = "holding"
    BY <2>0, <2>3 DEF Start, Execute
  <2>4. ASSUME NEW c \in Calls, Retry(c)
        PROVE  place[d] = "holding" \/ (d \in RetryInside /\ answer[d] = "timeout")
    BY <2>0, <2>4 DEF Retry, Execute, StackInv, LoopInv
  <2> QED
    BY <2>1, <2>2, <2>3, <2>4 DEF StackNext
<1> QED
  BY <1>1, StackInvariant, PTL DEF StackSpec, LateStartExplained
=============================================================================
