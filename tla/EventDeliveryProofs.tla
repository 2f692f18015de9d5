------------------------ MODULE EventDeliveryProofs ------------------------
(***************************************************************************)
(* What EventQueue and EventDelivery promise, for any number of calls, any *)
(* limits and any order of the awaits.                                     *)
(***************************************************************************)
EXTENDS EventDelivery, SequenceLemmas

(* Nothing is left of a batch when no processing is under way.              *)
Idle == ~processing => batch = <<>> /\ waiting = <<>> /\ running = {}

QueueInv == TypeOK /\ Conserved /\ PermitsAddUp /\ Idle

-----------------------------------------------------------------------------
(* Steps outside the loop.                                                  *)

LEMMA OutsideLoop ==
  ASSUME QueueInv, UNCHANGED <<loopVars, arg>>,
         processedEvents' \in Seq(Events), stage' \in [Calls -> Stages],
         queue' \in Seq(Calls), IsInjective(queue'),
         \A c \in Calls : c \in ToSet(queue') <=> stage'[c] = "queued",
         \A c \in Calls : stage'[c] = "taken" <=> stage[c] = "taken",
         before' \subseteq Calls \X Calls, overlapping' \subseteq Calls,
         forgotten' \subseteq Events
  PROVE  QueueInv'
<1>1. TypeOK' /\ PermitsAddUp' /\ Idle'
  BY DEF QueueInv, TypeOK, PermitsAddUp, Idle, loopVars
<1>2. ToSet(queue') \subseteq Calls
  BY SeqFacts
<1>3. ToSet(queue') = {c \in Calls : stage'[c] = "queued"}
  BY <1>2
<1>4. {c \in Calls : stage'[c] = "taken"} = {c \in Calls : stage[c] = "taken"}
  OBVIOUS
<1>5. Conserved'
  BY <1>3, <1>4 DEF QueueInv, Conserved, loopVars
<1> QED
  BY <1>1, <1>5 DEF QueueInv

LEMMA InsertEffect ==
  ASSUME QueueInv, NEW c \in Calls, stage[c] \in {"new", "compressing", "persisting"},
         Insert(c)
  PROVE  /\ queue' \in Seq(Calls) /\ IsInjective(queue')
         /\ stage' = [stage EXCEPT ![c] = "queued"]
         /\ stage' \in [Calls -> Stages]
         /\ \A d \in Calls : d \in ToSet(queue') <=> stage'[d] = "queued"
         /\ \A d \in Calls : stage'[d] = "taken" <=> stage[d] = "taken"
<1>1. /\ queue \in Seq(Calls) /\ stage \in [Calls -> Stages] /\ IsInjective(queue)
      /\ \A d \in Calls : d \in ToSet(queue) <=> stage[d] = "queued"
  BY DEF QueueInv, TypeOK, Conserved
<1>2. stage' = [stage EXCEPT ![c] = "queued"]
  BY DEF Insert
<1>3. PICK k \in 1..(Len(queue) + 1) : queue' = InsertAt(queue, k, c)
  BY DEF Insert
<1> DEFINE a == InsertAt(queue, k, c)
<1>4. /\ a \in Seq(Calls)
      /\ \A x : x \in ToSet(a) <=> x = c \/ x \in ToSet(queue)
      /\ IsInjective(queue) /\ c \notin ToSet(queue) => IsInjective(a)
  BY <1>1, InsertOnce
<1> HIDE DEF a
<1>5. queue' = a
  BY <1>3 DEF a
<1>6. /\ queue' \in Seq(Calls)
      /\ \A x : x \in ToSet(queue') <=> x = c \/ x \in ToSet(queue)
      /\ IsInjective(queue')
  BY <1>1, <1>4, <1>5
<1> QED
  BY <1>1, <1>2, <1>6 DEF Stages

LEMMA EnterKeepsQueue ==
  ASSUME QueueInv, NEW c \in Calls,
         Refuse(c) \/ Enqueue(c) \/ Compressed(c) \/ Persisted(c)
  PROVE  QueueInv'
<1>1. UNCHANGED <<loopVars, arg, processedEvents, forgotten>>
  BY DEF Refuse, Enqueue, Compressed, Persisted, pastVars
<1>2. /\ TypeOK /\ IsInjective(queue)
      /\ \A d \in Calls : d \in ToSet(queue) <=> stage[d] = "queued"
  BY DEF QueueInv, TypeOK, Conserved
<1>3. before' \subseteq Calls \X Calls /\ overlapping' \subseteq Calls
  <2>1. ToSet(queue) \subseteq Calls
    BY <1>2, SeqFacts DEF TypeOK
  <2>2. CASE Enqueue(c)
    BY <1>2, <2>1, <2>2 DEF Enqueue, TypeOK
  <2>3. CASE UNCHANGED pastVars
    BY <1>2, <2>3 DEF pastVars, TypeOK
  <2> QED
    BY <2>2, <2>3 DEF Refuse, Compressed, Persisted
<1>4. /\ queue' \in Seq(Calls) /\ IsInjective(queue') /\ stage' \in [Calls -> Stages]
      /\ \A d \in Calls : d \in ToSet(queue') <=> stage'[d] = "queued"
      /\ \A d \in Calls : stage'[d] = "taken" <=> stage[d] = "taken"
  <2>1. CASE Insert(c) /\ stage[c] \in {"new", "compressing", "persisting"}
    BY <2>1, InsertEffect
  <2>2. CASE /\ stage[c] \in {"new", "compressing", "persisting"}
             /\ \E s \in {"refused", "compressing", "persisting"} :
                  stage' = [stage EXCEPT ![c] = s]
             /\ queue' = queue
    BY <1>2, <2>2 DEF TypeOK, Stages
  <2> QED
    BY <2>1, <2>2 DEF Refuse, Enqueue, Compressed, Persisted
<1> QED
  BY <1>1, <1>2, <1>3, <1>4, OutsideLoop DEF TypeOK

LEMMA ClearKeepsQueue ==
  ASSUME QueueInv, Clear
  PROVE  QueueInv'
<1>1. UNCHANGED <<loopVars, arg, before, overlapping>>
  BY DEF Clear
<1>2. /\ TypeOK
      /\ \A d \in Calls : d \in ToSet(queue) <=> stage[d] = "queued"
  BY DEF QueueInv, TypeOK, Conserved
<1>3. queue' = <<>> /\ queue' \in Seq(Calls) /\ ToSet(queue') = {} /\ IsInjective(queue')
  BY DEF Clear, ToSet, IsInjective
<1>4. /\ stage' \in [Calls -> Stages]
      /\ \A d \in Calls : stage'[d] # "queued" /\ (stage'[d] = "taken" <=> stage[d] = "taken")
  BY <1>2 DEF Clear, TypeOK, Stages
<1>5. processedEvents' \in Seq(Events) /\ forgotten' \subseteq Events
  <2>1. ToSet(processedEvents) \subseteq Events
    BY <1>2, SeqFacts DEF TypeOK
  <2> QED
    BY <1>2, <2>1 DEF Clear, TypeOK
<1> QED
  BY <1>1, <1>2, <1>3, <1>4, <1>5, OutsideLoop DEF TypeOK

LEMMA DequeueKeepsQueue ==
  ASSUME QueueInv, Dequeue
  PROVE  QueueInv'
<1>1. UNCHANGED <<loopVars, arg, processedEvents, pastVars>>
  BY DEF Dequeue
<1>2. /\ TypeOK /\ IsInjective(queue) /\ queue # <<>>
      /\ \A d \in Calls : d \in ToSet(queue) <=> stage[d] = "queued"
  BY DEF QueueInv, TypeOK, Conserved, Dequeue
<1>3. /\ queue' \in Seq(Calls) /\ IsInjective(queue') /\ Head(queue) \in Calls
      /\ Head(queue) \in ToSet(queue)
      /\ \A x : x \in ToSet(queue') <=> x \in ToSet(queue) /\ x # Head(queue)
  BY <1>2, TailOnce DEF Dequeue, TypeOK
<1>4. /\ stage' \in [Calls -> Stages]
      /\ \A d \in Calls : d \in ToSet(queue') <=> stage'[d] = "queued"
      /\ \A d \in Calls : stage'[d] = "taken" <=> stage[d] = "taken"
  BY <1>2, <1>3 DEF Dequeue, TypeOK, Stages
<1> QED
  BY <1>1, <1>2, <1>3, <1>4, OutsideLoop DEF TypeOK, pastVars

-----------------------------------------------------------------------------
(* Steps of the loop.                                                       *)

LEMMA SettledPermits ==
  ASSUME QueueAssumption, QueueInv, running = {}
  PROVE  permits = MaxConcurrent /\ MaxConcurrent \in Nat \ {0}
BY FS_EmptySet DEF QueueInv, PermitsAddUp, TypeOK, QueueAssumption

(* A chunk is split from its batch, and its calls run or wait.              *)
LEMMA StartChunkEffect ==
  ASSUME QueueAssumption, NEW b \in Seq(Calls), IsInjective(b),
         NEW w \in Nat \ {0}, permits = MaxConcurrent, StartChunk(b, w)
  PROVE  /\ batch' \in Seq(Calls) /\ waiting' \in Seq(Calls) /\ running' \subseteq Calls
         /\ IsInjective(batch') /\ IsInjective(waiting')
         /\ ToSet(batch') \cup ToSet(waiting') \cup running' = ToSet(b)
         /\ ToSet(batch') \cap ToSet(waiting') = {}
         /\ running' \cap (ToSet(batch') \cup ToSet(waiting')) = {}
         /\ width' = w /\ permits' \in 0..MaxConcurrent
         /\ PermitsAddUp'
<1> DEFINE n == IF w < Len(b) THEN w ELSE Len(b)
           k == IF permits < n THEN permits ELSE n
           r == SubSeq(b, 1, k)
           v == SubSeq(b, k + 1, n)
           t == SubSeq(b, n + 1, Len(b))
<1>1. /\ Len(b) \in Nat /\ MaxConcurrent \in Nat \ {0}
      /\ n \in 0..Len(b) /\ k \in 0..n /\ k <= permits
      /\ n > k => k = permits
  BY SeqFacts DEF QueueAssumption
<1>2. batch' = t /\ width' = w /\ running' = ToSet(r) /\ waiting' = v /\ permits' = permits - k
  BY DEF StartChunk
<1> HIDE DEF n, k
<1>3. /\ r \in Seq(Calls) /\ Len(r) = k /\ IsInjective(r)
      /\ \A x : x \in ToSet(r) <=> \E i \in 1..k : b[i] = x
  BY <1>1, PartOf
<1>4. /\ v \in Seq(Calls) /\ Len(v) = n - k /\ IsInjective(v)
      /\ \A x : x \in ToSet(v) <=> \E i \in (k + 1)..n : b[i] = x
  <2>1. k + 1 \in Nat \ {0} /\ n \in Nat /\ k + 1 <= n + 1 /\ n <= Len(b)
    BY <1>1
  <2>2. n - (k + 1) + 1 = n - k
    BY <1>1
  <2> QED
    BY <2>1, <2>2, PartOf
<1>5. /\ t \in Seq(Calls) /\ IsInjective(t)
      /\ \A x : x \in ToSet(t) <=> \E i \in (n + 1)..Len(b) : b[i] = x
  <2>1. n + 1 \in Nat \ {0} /\ Len(b) \in Nat /\ n + 1 <= Len(b) + 1
    BY <1>1
  <2> QED
    BY <2>1, PartOf
<1> HIDE DEF r, v, t
<1>6. /\ \A x : x \in ToSet(b) <=> \E i \in 1..Len(b) : b[i] = x
      /\ \A i, j \in 1..Len(b) : b[i] = b[j] => i = j
  BY SeqFacts DEF IsInjective
<1>7. ToSet(t) \cup ToSet(v) \cup ToSet(r) = ToSet(b)
  <2>1. ASSUME NEW x
        PROVE  x \in ToSet(b) <=> x \in ToSet(t) \/ x \in ToSet(v) \/ x \in ToSet(r)
    BY <1>1, <1>3, <1>4, <1>5, <1>6
  <2> QED
    BY <2>1
<1>8. ToSet(t) \cap ToSet(v) = {} /\ ToSet(r) \cap (ToSet(t) \cup ToSet(v)) = {}
  <2>1. ASSUME NEW x, x \in ToSet(t) PROVE x \notin ToSet(v) /\ x \notin ToSet(r)
    <3>1. PICK i \in (n + 1)..Len(b) : b[i] = x
      BY <1>5, <2>1
    <3>2. \A j \in 1..n : b[j] # x
      BY <1>1, <1>6, <3>1
    <3>3. (k + 1)..n \subseteq 1..n /\ 1..k \subseteq 1..n
      BY <1>1
    <3> QED
      BY <1>3, <1>4, <3>2, <3>3
  <2>2. ASSUME NEW x, x \in ToSet(v) PROVE x \notin ToSet(r)
    BY <1>1, <1>3, <1>4, <1>6, <2>2
  <2> QED
    BY <2>1, <2>2
<1>9. ToSet(r) \subseteq Calls
  BY <1>3, SeqFacts
<1>10. PermitsAddUp' /\ permits' \in 0..MaxConcurrent
  <2>1. Cardinality(ToSet(r)) = k
    BY <1>3, CardinalityOnce
  <2>2. v # <<>> => n > k
    BY <1>1, <1>4
  <2> QED
    BY <1>1, <1>2, <2>1, <2>2 DEF PermitsAddUp
<1> QED
  BY <1>2, <1>3, <1>4, <1>5, <1>7, <1>8, <1>9, <1>10

LEMMA TakeBatchEffect ==
  ASSUME QueueAssumption, QueueInv, batch = <<>>, waiting = <<>>, running = {},
         TakeBatch, UNCHANGED <<processedEvents, arg, pastVars>>,
         processing' = TRUE, draining' \in BOOLEAN
  PROVE  QueueInv'
<1> DEFINE n == IF BatchSize < Len(queue) THEN BatchSize ELSE Len(queue)
           b == SubSeq(queue, 1, n)
           q == SubSeq(queue, n + 1, Len(queue))
<1>1. /\ TypeOK /\ queue \in Seq(Calls) /\ IsInjective(queue)
      /\ \A d \in Calls : d \in ToSet(queue) <=> stage[d] = "queued"
      /\ \A d \in Calls : stage[d] # "taken"
  <2>1. ToSet(batch) = {} /\ ToSet(waiting) = {}
    BY DEF ToSet
  <2> QED
    BY <2>1 DEF QueueInv, TypeOK, Conserved
<1>2. Len(queue) \in Nat /\ n \in 0..Len(queue)
  BY <1>1, SeqFacts DEF QueueAssumption
<1>3. PICK w \in Widths(b, q) :
        /\ queue' = q
        /\ stage' = [c \in Calls |-> IF c \in ToSet(b) THEN "taken" ELSE stage[c]]
        /\ StartChunk(b, w)
  BY DEF TakeBatch
<1>4. queue # <<>> /\ Len(b) \in Nat \ {0}
  BY <1>1, <1>2 DEF TakeBatch, QueueAssumption
<1>5. w \in Nat \ {0}
  BY <1>3, <1>4 DEF Widths, QueueAssumption
<1> HIDE DEF n
<1>6. /\ b \in Seq(Calls) /\ IsInjective(b)
      /\ \A x : x \in ToSet(b) <=> \E i \in 1..n : queue[i] = x
  BY <1>1, <1>2, PartOf
<1>7. /\ q \in Seq(Calls) /\ IsInjective(q)
      /\ \A x : x \in ToSet(q) <=> \E i \in (n + 1)..Len(queue) : queue[i] = x
  <2>1. n + 1 \in Nat \ {0} /\ n + 1 <= Len(queue) + 1
    BY <1>2
  <2> QED
    BY <1>1, <1>2, <2>1, PartOf
<1> HIDE DEF b, q
<1>8. /\ \A x : x \in ToSet(queue) <=> \E i \in 1..Len(queue) : queue[i] = x
      /\ \A i, j \in 1..Len(queue) : queue[i] = queue[j] => i = j
  BY <1>1, SeqFacts DEF IsInjective
<1>9. ASSUME NEW x
      PROVE  /\ x \in ToSet(queue) <=> x \in ToSet(b) \/ x \in ToSet(q)
             /\ ~(x \in ToSet(b) /\ x \in ToSet(q))
  BY <1>2, <1>6, <1>7, <1>8
<1>10. ToSet(b) \subseteq Calls /\ ToSet(q) \subseteq Calls
  BY <1>6, <1>7, SeqFacts
<1>11. /\ batch' \in Seq(Calls) /\ waiting' \in Seq(Calls) /\ running' \subseteq Calls
       /\ IsInjective(batch') /\ IsInjective(waiting')
       /\ ToSet(batch') \cup ToSet(waiting') \cup running' = ToSet(b)
       /\ ToSet(batch') \cap ToSet(waiting') = {}
       /\ running' \cap (ToSet(batch') \cup ToSet(waiting')) = {}
       /\ width' = w /\ permits' \in 0..MaxConcurrent
       /\ PermitsAddUp'
  BY <1>3, <1>5, <1>6, StartChunkEffect, SettledPermits
<1>12. stage' \in [Calls -> Stages]
  BY <1>1, <1>3 DEF TypeOK, Stages
<1>13. TypeOK'
  BY <1>1, <1>3, <1>5, <1>7, <1>11, <1>12 DEF TypeOK, pastVars
<1>14. ToSet(q) = {c \in Calls : stage'[c] = "queued"}
  BY <1>1, <1>3, <1>9, <1>10
<1>15. ToSet(b) = {c \in Calls : stage'[c] = "taken"}
  BY <1>1, <1>3, <1>10
<1>16. Conserved'
  BY <1>3, <1>7, <1>11, <1>14, <1>15 DEF Conserved
<1> QED
  BY <1>11, <1>13, <1>16 DEF QueueInv, Idle

LEMMA NextChunkKeepsQueue ==
  ASSUME QueueAssumption, QueueInv, NextChunk
  PROVE  QueueInv'
<1>1. TypeOK /\ Conserved /\ batch \in Seq(Calls) /\ IsInjective(batch) /\ width \in Nat \ {0}
  BY DEF QueueInv, TypeOK, Conserved
<1>2. /\ running = {} /\ waiting = <<>> /\ processing /\ StartChunk(batch, width)
      /\ UNCHANGED <<queue, processedEvents, processing, draining, stage, arg, pastVars>>
  BY DEF NextChunk, ChunkSettled
<1>3. /\ batch' \in Seq(Calls) /\ waiting' \in Seq(Calls) /\ running' \subseteq Calls
      /\ IsInjective(batch') /\ IsInjective(waiting')
      /\ ToSet(batch') \cup ToSet(waiting') \cup running' = ToSet(batch)
      /\ ToSet(batch') \cap ToSet(waiting') = {}
      /\ running' \cap (ToSet(batch') \cup ToSet(waiting')) = {}
      /\ width' = width /\ permits' \in 0..MaxConcurrent
      /\ PermitsAddUp'
  BY <1>1, <1>2, StartChunkEffect, SettledPermits
<1>4. TypeOK'
  BY <1>1, <1>2, <1>3 DEF TypeOK, pastVars
<1>5. ToSet(batch) = {c \in Calls : stage[c] = "taken"}
  <2>1. ToSet(waiting) = {}
    BY <1>2 DEF ToSet
  <2> QED
    BY <1>1, <1>2, <2>1 DEF Conserved
<1>6. Conserved'
  BY <1>1, <1>2, <1>3, <1>5 DEF Conserved
<1> QED
  BY <1>2, <1>3, <1>4, <1>6 DEF QueueInv, Idle

LEMMA LoopKeepsQueue ==
  ASSUME QueueAssumption, QueueInv, (\E all \in BOOLEAN : Process(all)) \/ Loop
  PROVE  QueueInv'
<1>1. CASE \E all \in BOOLEAN : Process(all)
  BY <1>1, TakeBatchEffect DEF Process, QueueInv, Idle
<1>2. CASE NextChunk
  BY <1>2, NextChunkKeepsQueue
<1>3. CASE NextBatch
  <2>1. processing' = TRUE /\ draining' \in BOOLEAN
    BY <1>3 DEF NextBatch, ChunkSettled, QueueInv, TypeOK
  <2> QED
    BY <1>3, <2>1, TakeBatchEffect DEF NextBatch, ChunkSettled
<1>4. CASE Finish
  BY <1>4 DEF Finish, ChunkSettled, QueueInv, TypeOK, Conserved, PermitsAddUp, Idle, pastVars
<1> QED
  BY <1>1, <1>2, <1>3, <1>4 DEF Loop

(* A call that ends gives its permit to the call that waited longest, or    *)
(* back.                                                                    *)
LEMMA ReleaseEffect ==
  ASSUME QueueAssumption, QueueInv, NEW c \in running, Release(c),
         UNCHANGED <<queue, processing, batch>>,
         NEW s \in {"handled", "failed"}, stage' = [stage EXCEPT ![c] = s]
  PROVE  /\ Conserved' /\ PermitsAddUp' /\ Idle'
         /\ waiting' \in Seq(Calls) /\ running' \subseteq Calls
         /\ permits' \in 0..MaxConcurrent /\ stage' \in [Calls -> Stages]
<1>1. TypeOK /\ Conserved /\ PermitsAddUp /\ Idle /\ MaxConcurrent \in Nat
  BY DEF QueueInv, QueueAssumption
<1>2. c \in Calls /\ stage[c] = "taken" /\ processing
  BY <1>1 DEF TypeOK, Conserved, Idle
<1>3. /\ IsFiniteSet(running) /\ Cardinality(running) \in Nat
      /\ IsFiniteSet(running \ {c})
      /\ Cardinality(running \ {c}) = Cardinality(running) - 1
  <2>1. IsFiniteSet(running)
    BY <1>1, FS_Subset DEF TypeOK, QueueAssumption
  <2> QED
    BY <2>1, FS_RemoveElement, FS_CardinalityType
<1>4. stage' \in [Calls -> Stages]
  BY <1>1 DEF TypeOK, Stages
<1>5. /\ {d \in Calls : stage'[d] = "queued"} = {d \in Calls : stage[d] = "queued"}
      /\ {d \in Calls : stage'[d] = "taken"} = {d \in Calls : stage[d] = "taken"} \ {c}
  BY <1>1, <1>2 DEF TypeOK
<1>6. Cardinality(running) >= 1 /\ permits \in Nat /\ permits + Cardinality(running) = MaxConcurrent
  <2>1. Cardinality(running \ {c}) \in Nat
    BY <1>3, FS_CardinalityType
  <2> QED
    BY <1>1, <1>3, <2>1 DEF TypeOK, PermitsAddUp
<1>7. CASE /\ waiting = <<>> /\ waiting' = waiting
           /\ running' = running \ {c} /\ permits' = permits + 1
  <2>1. PermitsAddUp' /\ permits' \in 0..MaxConcurrent
    BY <1>1, <1>3, <1>6, <1>7 DEF PermitsAddUp
  <2>2. Conserved'
    BY <1>1, <1>5, <1>7 DEF Conserved
  <2> QED
    BY <1>1, <1>2, <1>4, <1>7, <2>1, <2>2 DEF TypeOK, Idle
<1>8. CASE /\ waiting # <<>> /\ waiting' = Tail(waiting) /\ permits' = permits
           /\ running' = (running \ {c}) \cup {Head(waiting)}
  <2> DEFINE h == Head(waiting)
  <2>1. /\ waiting' \in Seq(Calls) /\ IsInjective(waiting') /\ h \in Calls
        /\ h \in ToSet(waiting)
        /\ \A x : x \in ToSet(waiting') <=> x \in ToSet(waiting) /\ x # h
    BY <1>1, <1>8, TailOnce DEF TypeOK, Conserved
  <2> HIDE DEF h
  <2>2. running' = (running \ {c}) \cup {h}
    BY <1>8 DEF h
  <2>3. h \notin running /\ h # c /\ h \notin ToSet(batch)
    BY <1>1, <2>1 DEF Conserved
  <2>4. Cardinality(running') = Cardinality(running)
    <3>1. Cardinality(running') = Cardinality(running \ {c}) + 1
      BY <1>3, <2>2, <2>3, FS_AddElement
    <3> QED
      BY <1>3, <3>1
  <2>5. PermitsAddUp' /\ permits' \in 0..MaxConcurrent
    BY <1>1, <1>8, <2>4 DEF PermitsAddUp, TypeOK
  <2>6. Conserved'
    BY <1>1, <1>2, <1>5, <2>1, <2>2, <2>3 DEF Conserved
  <2>7. running' \subseteq Calls
    BY <1>1, <2>1, <2>2 DEF TypeOK
  <2> QED
    BY <1>2, <1>4, <2>1, <2>5, <2>6, <2>7 DEF Idle
<1> QED
  BY <1>7, <1>8 DEF Release

LEMMA RememberType ==
  ASSUME TypeOK, QueueAssumption, NEW e \in Events, Remember(e)
  PROVE  processedEvents' \in Seq(Events) /\ forgotten' \subseteq Events
<1> DEFINE known == IF Contains(processedEvents, e)
                    THEN processedEvents ELSE Append(processedEvents, e)
           drop == IF Len(known) <= MaxProcessedEvents THEN 0
                   ELSE IF Evicted < Len(known) THEN Evicted ELSE Len(known)
<1>1. known \in Seq(Events)
  BY DEF TypeOK
<1>2. Len(known) \in Nat /\ Evicted \in Nat
  BY <1>1 DEF Evicted, QueueAssumption
<1>3. drop \in 0..Len(known)
  BY <1>2 DEF QueueAssumption
<1>4. /\ processedEvents' = SubSeq(known, drop + 1, Len(known))
      /\ forgotten' = forgotten \cup ToSet(SubSeq(known, 1, drop))
  BY DEF Remember
<1> HIDE DEF known, drop
<1>5. SubSeq(known, drop + 1, Len(known)) \in Seq(Events)
  <2>1. drop + 1 \in Nat \ {0} /\ drop + 1 <= Len(known) + 1
    BY <1>2, <1>3
  <2> QED
    BY <1>1, <1>2, <2>1, PartOf
<1>6. SubSeq(known, 1, drop) \in Seq(Events)
  BY <1>1, <1>2, <1>3, PartOf
<1>7. ToSet(SubSeq(known, 1, drop)) \subseteq Events
  BY <1>6, SeqFacts
<1> QED
  BY <1>4, <1>5, <1>7 DEF TypeOK

LEMMA EndKeepsQueue ==
  ASSUME QueueAssumption, QueueInv, NEW c \in Calls, Handle(c) \/ Fail(c)
  PROVE  QueueInv'
<1>1. /\ c \in running /\ Release(c)
      /\ \E s \in {"handled", "failed"} : stage' = [stage EXCEPT ![c] = s]
      /\ UNCHANGED <<queue, processing, draining, batch, width, arg, before, overlapping>>
  BY DEF Handle, Fail, pastVars
<1>2. /\ Conserved' /\ PermitsAddUp' /\ Idle'
      /\ waiting' \in Seq(Calls) /\ running' \subseteq Calls
      /\ permits' \in 0..MaxConcurrent /\ stage' \in [Calls -> Stages]
  BY <1>1, ReleaseEffect
<1>3. processedEvents' \in Seq(Events) /\ forgotten' \subseteq Events
  <2>1. arg[c].event \in Events
    BY DEF QueueInv, TypeOK
  <2>2. CASE Handle(c)
    BY <2>1, <2>2, RememberType DEF Handle, QueueInv
  <2>3. CASE Fail(c)
    BY <2>3 DEF Fail, pastVars, QueueInv, TypeOK
  <2> QED
    BY <2>2, <2>3
<1>4. TypeOK'
  BY <1>1, <1>2, <1>3 DEF QueueInv, TypeOK
<1> QED
  BY <1>2, <1>4 DEF QueueInv

LEMMA NextKeepsQueue ==
  ASSUME QueueAssumption, QueueInv, [Next]_vars
  PROVE  QueueInv'
<1>1. CASE UNCHANGED vars
  BY <1>1 DEF vars, loopVars, pastVars, QueueInv, TypeOK, Conserved, PermitsAddUp, Idle
<1>2. CASE Next
  BY <1>2, EnterKeepsQueue, LoopKeepsQueue, EndKeepsQueue, ClearKeepsQueue, DequeueKeepsQueue
     DEF Next, Loop
<1> QED
  BY <1>1, <1>2

LEMMA InitQueue ==
  ASSUME QueueAssumption, Init
  PROVE  QueueInv
<1>1. TypeOK
  <2>1. MaxConcurrent \in 0..MaxConcurrent /\ 1 \in Nat \ {0}
    BY DEF QueueAssumption
  <2>2. queue \in Seq(Calls) /\ batch \in Seq(Calls) /\ waiting \in Seq(Calls)
        /\ processedEvents \in Seq(Events)
    BY DEF Init
  <2>3. stage \in [Calls -> Stages]
    BY DEF Init, Stages
  <2>4. width \in Nat \ {0} /\ permits \in 0..MaxConcurrent
    BY <2>1 DEF Init
  <2>5. /\ processing \in BOOLEAN /\ draining \in BOOLEAN /\ running \subseteq Calls
        /\ before \subseteq Calls \X Calls /\ overlapping \subseteq Calls
        /\ forgotten \subseteq Events
    BY DEF Init
  <2> QED
    BY <2>2, <2>3, <2>4, <2>5 DEF Init, TypeOK
<1>2. ToSet(<<>>) = {} /\ IsInjective(<<>>)
  BY DEF ToSet, IsInjective
<1>3. Conserved
  BY <1>2 DEF Init, Conserved
<1>4. PermitsAddUp
  BY FS_EmptySet DEF Init, PermitsAddUp, QueueAssumption
<1> QED
  BY <1>1, <1>3, <1>4 DEF Init, QueueInv, Idle

-----------------------------------------------------------------------------
(* The queue's inductive invariant.                                         *)
THEOREM QueueInvariant == Spec => []QueueInv
<1>1. Init => QueueInv
  BY InitQueue, QueueAssumption
<1>2. QueueInv /\ [Next]_vars => QueueInv'
  BY NextKeepsQueue, QueueAssumption
<1> QED
  BY <1>1, <1>2, PTL DEF Spec

(* Types, the conservation of calls and the count of permits, whatever      *)
(* handlers do and whenever the queue is cleared (processAll, Semaphore).   *)
THEOREM TypeCorrect == Spec => []TypeOK
<1>1. QueueInv => TypeOK
  BY DEF QueueInv
<1> QED
  BY <1>1, QueueInvariant, PTL

(* No call is lost, doubled or in two places (processAll, clear).           *)
THEOREM CallsConserved == Spec => []Conserved
<1>1. QueueInv => Conserved
  BY DEF QueueInv
<1> QED
  BY <1>1, QueueInvariant, PTL

(* The permits of the semaphore add up, and none is free while a call waits *)
(* (Semaphore.release).                                                     *)
THEOREM PermitsConserved == Spec => []PermitsAddUp
<1>1. QueueInv => PermitsAddUp
  BY DEF QueueInv
<1> QED
  BY <1>1, QueueInvariant, PTL

-----------------------------------------------------------------------------
(* Duplicates.                                                              *)

(* Past the duplicate test and not failed, cleared or taken away.           *)
Live == {"compressing", "persisting", "queued", "taken", "handled"}

DuplicateInv ==
  /\ \A c, d \in Calls :
       c # d /\ arg[c].event = arg[d].event /\ stage[c] \in Live /\ stage[d] \in Live
       => Excused(c, d)
  /\ \A c \in Calls :
       stage[c] = "handled" => arg[c].event \in ToSet(processedEvents) \cup forgotten

(* What is remembered is only ever forgotten into the history.              *)
LEMMA RememberKeeps ==
  ASSUME TypeOK, QueueAssumption, NEW e \in Events, Remember(e)
  PROVE  /\ forgotten \subseteq forgotten'
         /\ ToSet(processedEvents) \cup {e} \subseteq ToSet(processedEvents') \cup forgotten'
<1> DEFINE known == IF Contains(processedEvents, e)
                    THEN processedEvents ELSE Append(processedEvents, e)
           drop == IF Len(known) <= MaxProcessedEvents THEN 0
                   ELSE IF Evicted < Len(known) THEN Evicted ELSE Len(known)
<1>1. known \in Seq(Events) /\ processedEvents \in Seq(Events)
  BY DEF TypeOK
<1>2. ToSet(processedEvents) \cup {e} \subseteq ToSet(known)
  <2>1. CASE Contains(processedEvents, e)
    BY <1>1, <2>1, SeqFacts
  <2>2. CASE ~Contains(processedEvents, e)
    <3>1. known = Append(processedEvents, e)
      BY <2>2
    <3> HIDE DEF known
    <3>2. /\ Len(known) = Len(processedEvents) + 1 /\ Len(processedEvents) \in Nat
          /\ \A i \in 1..Len(processedEvents) : known[i] = processedEvents[i]
          /\ known[Len(processedEvents) + 1] = e
      BY <1>1, <3>1
    <3>3. /\ \A x : x \in ToSet(known) <=> \E i \in 1..Len(known) : known[i] = x
          /\ \A x : x \in ToSet(processedEvents)
                  <=> \E i \in 1..Len(processedEvents) : processedEvents[i] = x
      BY <1>1, SeqFacts
    <3> QED
      BY <3>2, <3>3
  <2> QED
    BY <2>1, <2>2
<1>3. Len(known) \in Nat /\ Evicted \in Nat
  BY <1>1 DEF Evicted, QueueAssumption
<1>4. drop \in 0..Len(known)
  BY <1>3 DEF QueueAssumption
<1>5. /\ processedEvents' = SubSeq(known, drop + 1, Len(known))
      /\ forgotten' = forgotten \cup ToSet(SubSeq(known, 1, drop))
  BY DEF Remember
<1> HIDE DEF known, drop
<1>6. ASSUME NEW x, x \in ToSet(known)
      PROVE  x \in ToSet(processedEvents') \cup forgotten'
  <2>1. PICK i \in 1..Len(known) : known[i] = x
    BY <1>1, <1>6, SeqFacts
  <2>2. CASE i <= drop
    <3>1. x \in ToSet(SubSeq(known, 1, drop))
      BY <1>1, <1>3, <1>4, <2>1, <2>2, PartOf
    <3> QED
      BY <1>5, <3>1
  <2>3. CASE i > drop
    <3>1. drop + 1 \in Nat \ {0} /\ drop + 1 <= Len(known) + 1 /\ i \in (drop + 1)..Len(known)
      BY <1>3, <1>4, <2>1, <2>3
    <3>2. x \in ToSet(SubSeq(known, drop + 1, Len(known)))
      BY <1>1, <1>3, <2>1, <3>1, PartOf
    <3> QED
      BY <1>5, <3>2
  <2> QED
    BY <1>3, <1>4, <2>1, <2>2, <2>3
<1> QED
  BY <1>2, <1>5, <1>6

(* Calls become live by Enqueue only, and history only grows.               *)
LEMMA LiveStep ==
  ASSUME QueueAssumption, QueueInv, Next
  PROVE  /\ arg' = arg
         /\ overlapping \subseteq overlapping' /\ forgotten \subseteq forgotten'
         /\ \A c \in Calls : stage'[c] \in Live =>
              \/ stage[c] \in Live
              \/ Enqueue(c) /\ \A d \in Calls \ {c} : stage'[d] = stage[d]
<1>0. TypeOK /\ Conserved
  BY DEF QueueInv
<1>1. ASSUME NEW c \in Calls, Refuse(c) \/ Enqueue(c) \/ Compressed(c) \/ Persisted(c)
      PROVE  /\ arg' = arg
             /\ overlapping \subseteq overlapping' /\ forgotten \subseteq forgotten'
             /\ \A d \in Calls \ {c} : stage'[d] = stage[d]
             /\ stage'[c] \in Live => stage[c] \in Live \/ Enqueue(c)
  BY <1>0, <1>1 DEF Refuse, Enqueue, Compressed, Persisted, Insert, pastVars, Live, TypeOK
<1>2. ASSUME (\E all \in BOOLEAN : Process(all)) \/ NextBatch
      PROVE  /\ arg' = arg /\ overlapping' = overlapping /\ forgotten' = forgotten
             /\ \A d \in Calls : stage'[d] \in Live => stage[d] \in Live
  <2> DEFINE n == IF BatchSize < Len(queue) THEN BatchSize ELSE Len(queue)
             b == SubSeq(queue, 1, n)
  <2>1. arg' = arg /\ overlapping' = overlapping /\ forgotten' = forgotten /\ TakeBatch
    BY <1>2 DEF Process, NextBatch, pastVars
  <2>2. stage' = [d \in Calls |-> IF d \in ToSet(b) THEN "taken" ELSE stage[d]]
    BY <2>1 DEF TakeBatch
  <2>3. queue \in Seq(Calls) /\ Len(queue) \in Nat /\ n \in 0..Len(queue)
    BY <1>0, SeqFacts DEF TypeOK, QueueAssumption
  <2> HIDE DEF n
  <2>4. \A x : x \in ToSet(b) => x \in ToSet(queue)
    <3>1. \A x : x \in ToSet(b) <=> \E i \in 1..n : queue[i] = x
      BY <2>3, PartOf
    <3> QED
      BY <2>3, <3>1, SeqFacts
  <2> HIDE DEF b
  <2> QED
    BY <1>0, <2>1, <2>2, <2>4 DEF Conserved, Live
<1>3. CASE NextChunk \/ Finish
  BY <1>3 DEF NextChunk, Finish, pastVars
<1>4. ASSUME NEW c \in Calls, Handle(c) \/ Fail(c)
      PROVE  /\ arg' = arg
             /\ overlapping \subseteq overlapping' /\ forgotten \subseteq forgotten'
             /\ \A d \in Calls : stage'[d] \in Live => stage[d] \in Live
  <2>1. stage[c] = "taken" /\ arg[c].event \in Events
    BY <1>0, <1>4 DEF Handle, Fail, Conserved, TypeOK
  <2>2. forgotten \subseteq forgotten'
    BY <1>0, <1>4, <2>1, RememberKeeps DEF Handle, Fail, pastVars
  <2> QED
    BY <1>0, <1>4, <2>1, <2>2 DEF Handle, Fail, pastVars, Live, TypeOK
<1>5. CASE Clear
  BY <1>0, <1>5 DEF Clear, Live, TypeOK
<1>6. CASE Dequeue
  BY <1>0, <1>6 DEF Dequeue, Live, TypeOK, pastVars
<1> QED
  BY <1>1, <1>2, <1>3, <1>4, <1>5, <1>6 DEF Next

(* What was handled stays remembered or becomes forgotten.                  *)
LEMMA HandledStep ==
  ASSUME QueueAssumption, QueueInv, DuplicateInv, Next, NEW c \in Calls,
         stage'[c] = "handled"
  PROVE  arg[c].event \in ToSet(processedEvents') \cup forgotten'
<1>0. TypeOK /\ forgotten \subseteq forgotten'
  BY LiveStep DEF QueueInv
<1>1. CASE \E d \in Calls : Handle(d)
  <2>1. PICK d \in Calls : Handle(d)
    BY <1>1
  <2>2. Remember(arg[d].event) /\ arg[d].event \in Events
        /\ stage' = [stage EXCEPT ![d] = "handled"]
    BY <1>0, <2>1 DEF Handle, TypeOK
  <2>3. ToSet(processedEvents) \cup {arg[d].event} \subseteq ToSet(processedEvents') \cup forgotten'
    BY <1>0, <2>2, RememberKeeps
  <2> QED
    BY <1>0, <2>2, <2>3 DEF DuplicateInv, TypeOK
<1>2. CASE Clear
  BY <1>0, <1>2 DEF Clear, DuplicateInv, TypeOK
<1>3. CASE /\ processedEvents' = processedEvents
           /\ stage[c] = "handled"
  BY <1>0, <1>3 DEF DuplicateInv
<1>4. ASSUME Next, ~(\E d \in Calls : Handle(d)), ~Clear
      PROVE  processedEvents' = processedEvents /\ stage[c] = "handled"
  <2>1. ASSUME NEW d \in Calls, Refuse(d) \/ Enqueue(d) \/ Compressed(d) \/ Persisted(d) \/ Fail(d)
        PROVE  processedEvents' = processedEvents /\ stage[c] = "handled"
    BY <1>0, <2>1 DEF Refuse, Enqueue, Compressed, Persisted, Fail, Insert, TypeOK
  <2>2. CASE (\E all \in BOOLEAN : Process(all)) \/ NextBatch
    BY <2>2 DEF Process, NextBatch, TakeBatch
  <2>3. CASE NextChunk \/ Finish \/ Dequeue
    BY <1>0, <2>3 DEF NextChunk, Finish, Dequeue, TypeOK
  <2> QED
    BY <1>4, <2>1, <2>2, <2>3 DEF Next
<1> QED
  BY <1>1, <1>2, <1>3, <1>4

LEMMA NextKeepsDuplicates ==
  ASSUME QueueAssumption, QueueInv, DuplicateInv, [Next]_vars
  PROVE  DuplicateInv'
<1>1. CASE UNCHANGED vars
  BY <1>1 DEF vars, loopVars, pastVars, DuplicateInv, Excused
<1>2. CASE Next
  <2>0. /\ arg' = arg
        /\ overlapping \subseteq overlapping' /\ forgotten \subseteq forgotten'
        /\ \A c \in Calls : stage'[c] \in Live =>
             \/ stage[c] \in Live
             \/ Enqueue(c) /\ \A d \in Calls \ {c} : stage'[d] = stage[d]
    BY <1>2, LiveStep
  <2>1. ASSUME NEW c \in Calls, NEW d \in Calls, c # d, arg[c].event = arg[d].event,
               Enqueue(c), stage[d] \in Live
        PROVE  Excused(c, d)'
    <3>1. /\ ~Contains(processedEvents, arg[c].event) /\ ~Waiting(arg[c].event)
          /\ UnderWay(arg[c].event) => c \in overlapping'
      BY <2>1 DEF Enqueue, Refuses
    <3>2. processedEvents \in Seq(Events) /\ ToSet(queue) = {x \in Calls : stage[x] = "queued"}
      BY DEF QueueInv, TypeOK, Conserved
    <3>3. stage[d] # "queued"
      BY <2>1, <3>1, <3>2 DEF Waiting
    <3>4. CASE stage[d] = "handled"
      <4>1. arg[c].event \notin ToSet(processedEvents)
        BY <3>1, <3>2, SeqFacts
      <4> QED
        BY <2>0, <2>1, <3>4, <4>1 DEF DuplicateInv, Excused
    <3>5. CASE stage[d] \in Awaiting \cup {"taken"}
      BY <2>1, <3>1, <3>5 DEF UnderWay, Excused
    <3> QED
      BY <2>1, <3>3, <3>4, <3>5 DEF Live, Awaiting
  <2>2. ASSUME NEW c \in Calls, NEW d \in Calls, c # d, arg'[c].event = arg'[d].event,
               stage'[c] \in Live, stage'[d] \in Live
        PROVE  Excused(c, d)'
    <3>1. CASE stage[c] \in Live /\ stage[d] \in Live
      BY <2>0, <2>2, <3>1 DEF DuplicateInv, Excused
    <3>2. CASE stage[c] \notin Live
      BY <2>0, <2>1, <2>2, <3>2
    <3>3. CASE stage[d] \notin Live
      BY <2>0, <2>1, <2>2, <3>3 DEF Excused
    <3> QED
      BY <3>1, <3>2, <3>3
  <2>3. ASSUME NEW c \in Calls, stage'[c] = "handled"
        PROVE  arg'[c].event \in ToSet(processedEvents') \cup forgotten'
    BY <1>2, <2>0, <2>3, HandledStep
  <2> QED
    BY <2>2, <2>3 DEF DuplicateInv
<1> QED
  BY <1>1, <1>2

(* An event is handled twice only if one of its calls was made while        *)
(* another was under way, or it had been forgotten (enqueue).               *)
THEOREM DuplicatesHaveReasons == Spec => []DuplicatesExplained
<1>1. Init => DuplicateInv
  BY DEF Init, DuplicateInv, Live
<1>2. QueueInv /\ DuplicateInv /\ [Next]_vars => DuplicateInv'
  BY NextKeepsDuplicates, QueueAssumption
<1>3. DuplicateInv => DuplicatesExplained
  BY DEF DuplicateInv, DuplicatesExplained, Live
<1> QED
  BY <1>1, <1>2, <1>3, QueueInvariant, PTL DEF Spec

-----------------------------------------------------------------------------
(* The depth.                                                               *)

DepthInv ==
  /\ OvershootOnlyByAwaits
  /\ \A c \in Calls : stage[c] \in Awaiting => c \in Awaited

(* What a step may do to the queue: take calls out, or put in one that      *)
(* awaited or found room.                                                   *)
LEMMA QueueStep ==
  ASSUME QueueAssumption, QueueInv, DepthInv, Next
  PROVE  /\ Awaited' = Awaited
         /\ \A c \in Calls : stage'[c] \in Awaiting => c \in Awaited
         /\ \/ ToSet(queue') \subseteq ToSet(queue)
            \/ \E c \in Calls :
                 /\ ToSet(queue') = ToSet(queue) \cup {c}
                 /\ c \in Awaited \/ Len(queue) < MaxQueueDepth
<1>0. /\ TypeOK /\ Conserved /\ queue \in Seq(Calls) /\ Len(queue) \in Nat
      /\ stage \in [Calls -> Stages]
  BY SeqFacts DEF QueueInv, TypeOK
<1>1. arg' = arg
  BY LiveStep
<1>2. Awaited' = Awaited
  BY <1>1 DEF Awaited
<1>3. ASSUME NEW c \in Calls, Refuse(c) \/ Enqueue(c) \/ Compressed(c) \/ Persisted(c)
      PROVE  /\ \A d \in Calls : stage'[d] \in Awaiting => d \in Awaited
             /\ \/ queue' = queue
                \/ /\ Insert(c) /\ stage[c] \in {"new", "compressing", "persisting"}
                   /\ c \in Awaited \/ Len(queue) < MaxQueueDepth
  <2>1. CASE Refuse(c)
    BY <1>0, <2>1 DEF Refuse, DepthInv, Awaiting
  <2>2. CASE Enqueue(c)
    BY <1>0, <2>2 DEF Enqueue, Refuses, Insert, DepthInv, Awaiting, Awaited, QueueAssumption
  <2>3. CASE Compressed(c)
    BY <1>0, <2>3 DEF Compressed, Insert, DepthInv, Awaiting, Awaited
  <2>4. CASE Persisted(c)
    BY <1>0, <2>4 DEF Persisted, Insert, DepthInv, Awaiting
  <2> QED
    BY <1>3, <2>1, <2>2, <2>3, <2>4
<1>4. ASSUME NEW c \in Calls, Insert(c), stage[c] \in {"new", "compressing", "persisting"}
      PROVE  ToSet(queue') = ToSet(queue) \cup {c}
  <2>1. PICK k \in 1..(Len(queue) + 1) : queue' = InsertAt(queue, k, c)
    BY <1>4 DEF Insert
  <2> DEFINE a == InsertAt(queue, k, c)
  <2>2. \A x : x \in ToSet(a) <=> x = c \/ x \in ToSet(queue)
    BY <1>0, InsertOnce
  <2> HIDE DEF a
  <2>3. queue' = a
    BY <2>1 DEF a
  <2> QED
    BY <2>2, <2>3
<1>5. ASSUME (\E all \in BOOLEAN : Process(all)) \/ NextBatch
      PROVE  /\ ToSet(queue') \subseteq ToSet(queue)
             /\ \A d \in Calls : stage'[d] \in Awaiting => stage[d] \in Awaiting
  <2> DEFINE n == IF BatchSize < Len(queue) THEN BatchSize ELSE Len(queue)
             q == SubSeq(queue, n + 1, Len(queue))
  <2>1. TakeBatch
    BY <1>5 DEF Process, NextBatch
  <2>2. queue' = q
    BY <2>1 DEF TakeBatch
  <2>3. \A d \in Calls : stage'[d] \in Awaiting => stage[d] \in Awaiting
    BY <2>1 DEF TakeBatch, Awaiting
  <2>4. n + 1 \in Nat \ {0} /\ n + 1 <= Len(queue) + 1
    BY <1>0 DEF QueueAssumption
  <2>5. \A x : x \in ToSet(q) <=> \E i \in (n + 1)..Len(queue) : queue[i] = x
    BY <1>0, <2>4, PartOf
  <2> HIDE DEF n, q
  <2>6. ToSet(q) \subseteq ToSet(queue)
    BY <1>0, <2>4, <2>5, SeqFacts
  <2> QED
    BY <2>2, <2>3, <2>6
<1>6. ASSUME NextChunk \/ Finish
      PROVE  queue' = queue /\ stage' = stage
  BY <1>6 DEF NextChunk, Finish
<1>7. ASSUME NEW c \in Calls, Handle(c) \/ Fail(c)
      PROVE  queue' = queue /\ \A d \in Calls : stage'[d] \in Awaiting => stage[d] \in Awaiting
  BY <1>0, <1>7 DEF Handle, Fail, Awaiting
<1>8. ASSUME Clear
      PROVE  /\ ToSet(queue') \subseteq ToSet(queue)
             /\ \A d \in Calls : stage'[d] \in Awaiting => stage[d] \in Awaiting
  BY <1>8 DEF Clear, Awaiting, ToSet
<1>9. ASSUME Dequeue
      PROVE  /\ ToSet(queue') \subseteq ToSet(queue)
             /\ \A d \in Calls : stage'[d] \in Awaiting => stage[d] \in Awaiting
  <2>1. IsInjective(queue) /\ queue # <<>> /\ queue' = Tail(queue)
    BY <1>0, <1>9 DEF Conserved, Dequeue
  <2>2. ToSet(queue') \subseteq ToSet(queue)
    BY <1>0, <2>1, TailOnce
  <2> QED
    BY <1>0, <1>9, <2>2 DEF Dequeue, Awaiting
<1>10. CASE \E c \in Calls : Refuse(c) \/ Enqueue(c) \/ Compressed(c) \/ Persisted(c)
  BY <1>2, <1>3, <1>4, <1>10
<1>11. CASE \/ (\E all \in BOOLEAN : Process(all)) \/ NextBatch \/ NextChunk \/ Finish
            \/ (\E c \in Calls : Handle(c) \/ Fail(c)) \/ Clear \/ Dequeue
  BY <1>2, <1>5, <1>6, <1>7, <1>8, <1>9, <1>11 DEF DepthInv
<1> QED
  BY <1>10, <1>11 DEF Next

LEMMA NextKeepsDepth ==
  ASSUME QueueAssumption, QueueInv, DepthInv, [Next]_vars
  PROVE  DepthInv'
<1>1. CASE UNCHANGED vars
  BY <1>1 DEF vars, DepthInv, OvershootOnlyByAwaits, Awaited
<1>2. CASE Next
  <2>0. /\ queue \in Seq(Calls) /\ MaxQueueDepth \in Nat
        /\ OvershootOnlyByAwaits
    BY DEF QueueInv, TypeOK, QueueAssumption, DepthInv
  <2>1. /\ Len(queue) \in Nat
        /\ IsFiniteSet(ToSet(queue)) /\ Cardinality(ToSet(queue)) \in Nat
        /\ Cardinality(ToSet(queue)) <= Len(queue)
    BY <2>0, SeqFacts, CardinalityOnce, FS_CardinalityType
  <2>2. /\ IsFiniteSet(ToSet(queue) \ Awaited)
        /\ Cardinality(ToSet(queue) \ Awaited) \in Nat
        /\ Cardinality(ToSet(queue) \ Awaited) <= Cardinality(ToSet(queue))
    <3>1. ToSet(queue) \ Awaited \in SUBSET ToSet(queue)
      OBVIOUS
    <3> QED
      BY <2>1, <3>1, FS_Subset, FS_CardinalityType
  <2>3. /\ Awaited' = Awaited
        /\ \A c \in Calls : stage'[c] \in Awaiting => c \in Awaited
        /\ \/ ToSet(queue') \subseteq ToSet(queue)
           \/ \E c \in Calls :
                /\ ToSet(queue') = ToSet(queue) \cup {c}
                /\ c \in Awaited \/ Len(queue) < MaxQueueDepth
    BY <1>2, QueueStep
  <2>4. Cardinality(ToSet(queue') \ Awaited) <= MaxQueueDepth
    <3>1. CASE ToSet(queue') \ Awaited \subseteq ToSet(queue) \ Awaited
      <4>1. /\ Cardinality(ToSet(queue') \ Awaited) <= Cardinality(ToSet(queue) \ Awaited)
            /\ Cardinality(ToSet(queue') \ Awaited) \in Nat
        BY <2>2, <3>1, FS_Subset, FS_CardinalityType
      <4> QED
        BY <2>0, <2>2, <4>1 DEF OvershootOnlyByAwaits
    <3>2. ASSUME NEW c \in Calls, ToSet(queue') = ToSet(queue) \cup {c}, c \notin Awaited,
                 Len(queue) < MaxQueueDepth
          PROVE  Cardinality(ToSet(queue') \ Awaited) <= MaxQueueDepth
      <4>1. ToSet(queue') \ Awaited = (ToSet(queue) \ Awaited) \cup {c}
        BY <3>2
      <4>2. Cardinality(ToSet(queue') \ Awaited) <= Cardinality(ToSet(queue) \ Awaited) + 1
        <5> DEFINE T == ToSet(queue) \ Awaited
        <5>1. IsFiniteSet(T) /\ Cardinality(T) \in Nat
          BY <2>2
        <5> HIDE DEF T
        <5>2. Cardinality(T \cup {c}) = IF c \in T THEN Cardinality(T) ELSE Cardinality(T) + 1
          BY ONLY <5>1, FS_AddElement
        <5>3. Cardinality(T \cup {c}) <= Cardinality(T) + 1
          BY ONLY <5>1, <5>2
        <5> QED
          BY <4>1, <5>3 DEF T
      <4>3. Cardinality(ToSet(queue') \ Awaited) \in Nat
        BY <2>2, <4>1, FS_AddElement, FS_CardinalityType
      <4> QED
        BY <2>0, <2>1, <2>2, <3>2, <4>2, <4>3
    <3> QED
      BY <2>3, <3>1, <3>2
  <2> QED
    BY <2>3, <2>4 DEF DepthInv, OvershootOnlyByAwaits
<1> QED
  BY <1>1, <1>2

(* Calls that did not await in enqueue never fill more than the depth of    *)
(* the queue (maxQueueDepth).                                               *)
THEOREM DepthKeptWithoutAwaits == Spec => []OvershootOnlyByAwaits
<1>1. Init => DepthInv
  <2>1. ToSet(<<>>) \ Awaited = {}
    BY DEF ToSet
  <2> QED
    BY <2>1, FS_EmptySet, QueueAssumption
       DEF Init, DepthInv, OvershootOnlyByAwaits, Awaiting, QueueAssumption
<1>2. QueueInv /\ DepthInv /\ [Next]_vars => DepthInv'
  BY NextKeepsDepth, QueueAssumption
<1>3. DepthInv => OvershootOnlyByAwaits
  BY DEF DepthInv
<1> QED
  BY <1>1, <1>2, <1>3, QueueInvariant, PTL DEF Spec

-----------------------------------------------------------------------------
(* Order.                                                                   *)

Prio(c) == arg[c].priority

(* The queue is sorted; who stands before a call that came earlier has a    *)
(* higher priority.                                                         *)
OrderInv ==
  /\ \A i, j \in DOMAIN queue : i < j => Prio(queue[i]) >= Prio(queue[j])
  /\ \A i, j \in DOMAIN queue :
       i < j /\ <<queue[j], queue[i]>> \in before => Prio(queue[i]) > Prio(queue[j])
  /\ \A c, d \in Calls :
       <<c, d>> \in before => stage[d] # "new" /\ stage[c] \notin {"new", "compressing", "persisting"}
  /\ NoOvertaking

Gone == {"taken", "handled", "failed", "dequeued"}

LEMMA OrderFacts ==
  ASSUME QueueAssumption, QueueInv
  PROVE  /\ queue \in Seq(Calls) /\ Len(queue) \in Nat /\ DOMAIN queue = 1..Len(queue)
         /\ \A i \in 1..Len(queue) : queue[i] \in Calls /\ stage[queue[i]] = "queued"
         /\ \A c \in Calls : stage[c] = "queued" <=> \E i \in 1..Len(queue) : queue[i] = c
         /\ \A c \in Calls : Prio(c) \in Int
         /\ stage \in [Calls -> Stages] /\ before \subseteq Calls \X Calls
         /\ IsInjective(queue)
<1>1. TypeOK /\ Conserved
  BY DEF QueueInv
<1>2. /\ queue \in Seq(Calls) /\ Len(queue) \in Nat /\ DOMAIN queue = 1..Len(queue)
      /\ \A x : x \in ToSet(queue) <=> \E i \in 1..Len(queue) : queue[i] = x
      /\ \A i \in 1..Len(queue) : queue[i] \in Calls
  BY <1>1, SeqFacts DEF TypeOK
<1>3. \A c \in Calls : c \in ToSet(queue) <=> stage[c] = "queued"
  BY <1>1 DEF Conserved
<1>4. \A c \in Calls : Prio(c) \in Int
  BY <1>1 DEF TypeOK, Prio, QueueAssumption
<1> QED
  BY <1>1, <1>2, <1>3, <1>4 DEF TypeOK, Conserved

(* Two calls of the queue.                                                  *)
LEMMA PairOrder ==
  ASSUME QueueAssumption, QueueInv, OrderInv,
         NEW m \in 1..Len(queue), NEW n \in 1..Len(queue), m < n
  PROVE  /\ Prio(queue[m]) >= Prio(queue[n])
         /\ <<queue[n], queue[m]>> \in before => Prio(queue[m]) > Prio(queue[n])
<1>1. m \in DOMAIN queue /\ n \in DOMAIN queue
  BY OrderFacts
<1> QED
  BY <1>1 DEF OrderInv

(* The queue with a call put in its place.                                  *)
LEMMA InsertedAt ==
  ASSUME NEW q \in Seq(Calls), NEW c \in Calls, NEW k \in 1..(Len(q) + 1),
         NEW r, r = InsertAt(q, k, c)
  PROVE  /\ Len(r) = Len(q) + 1 /\ DOMAIN r = 1..(Len(q) + 1)
         /\ \A i \in 1..(Len(q) + 1) :
              r[i] = IF i < k THEN q[i] ELSE IF i = k THEN c ELSE q[i - 1]
<1>1. /\ r \in Seq(Calls) /\ Len(r) = Len(q) + 1
      /\ \A i \in 1..(Len(q) + 1) :
           r[i] = IF i < k THEN q[i] ELSE IF i = k THEN c ELSE q[i - 1]
  <2>1. InsertAt(q, k, c) \in Seq(Calls)
    BY InsertPlaces
  <2>2. Len(InsertAt(q, k, c)) = Len(q) + 1
    BY InsertPlaces
  <2>3. ASSUME NEW i \in 1..(Len(q) + 1)
        PROVE  InsertAt(q, k, c)[i] = IF i < k THEN q[i] ELSE IF i = k THEN c ELSE q[i - 1]
    BY InsertPlaces, SMTT(30)
  <2> QED
    BY <2>1, <2>2, <2>3
<1>2. DOMAIN r = 1..Len(r)
  BY <1>1, SeqFacts
<1> QED
  BY <1>1, <1>2

LEMMA WithoutFirst ==
  ASSUME NEW q \in Seq(Calls), NEW n \in 0..Len(q),
         NEW r, r = SubSeq(q, n + 1, Len(q))
  PROVE  /\ DOMAIN r = 1..(Len(q) - n)
         /\ \A i \in 1..(Len(q) - n) : r[i] = q[n + i]
<1>0. Len(q) \in Nat
  BY SeqFacts
<1>1. /\ n + 1 \in Nat \ {0} /\ n + 1 <= Len(q) + 1 /\ Len(q) <= Len(q)
      /\ Len(q) - (n + 1) + 1 = Len(q) - n
      /\ \A i \in 1..(Len(q) - n) : (n + 1) + i - 1 = n + i
  BY <1>0
<1>2. /\ r \in Seq(Calls) /\ Len(r) = Len(q) - (n + 1) + 1
      /\ \A i \in 1..(Len(q) - (n + 1) + 1) : r[i] = q[(n + 1) + i - 1]
  <2> DEFINE m == n + 1
             l == Len(q)
  <2>1. /\ m \in Nat \ {0} /\ l \in Nat /\ m <= l + 1 /\ l <= Len(q)
        /\ r = SubSeq(q, m, l)
    BY <1>0, <1>1
  <2> HIDE DEF m, l
  <2>2. LET p == SubSeq(q, m, l)
        IN  p \in Seq(Calls) /\ Len(p) = l - m + 1 /\ \A i \in 1..(l - m + 1) : p[i] = q[m + i - 1]
    BY ONLY q \in Seq(Calls), <2>1, PartOf
  <2>3. r \in Seq(Calls) /\ Len(r) = l - m + 1 /\ \A i \in 1..(l - m + 1) : r[i] = q[m + i - 1]
    BY ONLY <2>1, <2>2
  <2> QED
    BY <2>3 DEF m, l
<1>3. DOMAIN r = 1..Len(r)
  BY <1>2, SeqFacts
<1> QED
  BY <1>1, <1>2, <1>3

(* A call is put in its place.                                              *)
LEMMA InsertKeepsOrder ==
  ASSUME QueueAssumption, QueueInv, OrderInv, NEW c \in Calls,
         stage[c] \in {"new", "compressing", "persisting"},
         Insert(c), arg' = arg,
         \A x, y : <<x, y>> \in before' => <<x, y>> \in before \/ (y = c /\ x \in ToSet(queue))
  PROVE  OrderInv'
<1>0. /\ queue \in Seq(Calls) /\ Len(queue) \in Nat /\ DOMAIN queue = 1..Len(queue)
      /\ \A i \in 1..Len(queue) : queue[i] \in Calls /\ stage[queue[i]] = "queued"
      /\ \A d \in Calls : stage[d] = "queued" <=> \E i \in 1..Len(queue) : queue[i] = d
      /\ \A d \in Calls : Prio(d) \in Int
      /\ stage \in [Calls -> Stages]
  BY OrderFacts
<1>1. PICK k \in 1..(Len(queue) + 1) : Position(c, k) /\ queue' = InsertAt(queue, k, c)
  BY DEF Insert
<1>2. /\ Len(queue') = Len(queue) + 1 /\ DOMAIN queue' = 1..(Len(queue) + 1)
      /\ \A i \in 1..(Len(queue) + 1) :
           queue'[i] = IF i < k THEN queue[i] ELSE IF i = k THEN c ELSE queue[i - 1]
  BY ONLY <1>0, <1>1, c \in Calls, InsertedAt
<1>3. stage' = [stage EXCEPT ![c] = "queued"] /\ \A d : Prio(d)' = Prio(d)
  BY DEF Insert, Prio
<1>4. ASSUME NEW i \in 1..Len(queue), i >= k
      PROVE  Prio(queue[i]) < Prio(c)
  <2>1. k \in 1..Len(queue) /\ Prio(queue[k]) < Prio(c)
    BY <1>0, <1>1, <1>4 DEF Position, Prio
  <2>2. Prio(queue[k]) >= Prio(queue[i])
    <3>1. CASE i = k
      BY <1>0, <2>1, <3>1
    <3>2. CASE k < i
      BY <1>0, <2>1, <3>2 DEF OrderInv
    <3> QED
      BY <1>4, <3>1, <3>2
  <2> QED
    BY <1>0, <2>1, <2>2
<1>5. ASSUME NEW i \in 1..Len(queue), i < k
      PROVE  Prio(queue[i]) >= Prio(c)
  <2>1. i \in 1..(k - 1)
    BY <1>0, <1>5
  <2> QED
    BY <1>1, <2>1 DEF Position, Prio
<1>6. ASSUME NEW i \in 1..(Len(queue) + 1), NEW j \in 1..(Len(queue) + 1), i < j
      PROVE  \/ i < k /\ j = k /\ queue'[j] = c /\ i \in 1..Len(queue) /\ queue'[i] = queue[i]
             \/ /\ i = k /\ queue'[i] = c
                /\ \E n \in 1..Len(queue) : n >= k /\ queue'[j] = queue[n]
             \/ \E m, n \in 1..Len(queue) : m < n /\ queue'[i] = queue[m] /\ queue'[j] = queue[n]
  <2>1. CASE j < k
    BY <1>0, <1>2, <1>6, <2>1
  <2>2. CASE j = k
    BY <1>0, <1>2, <1>6, <2>2
  <2>3. CASE j > k
    <3>1. j - 1 \in 1..Len(queue) /\ j - 1 >= k /\ ~(j < k) /\ j # k
      BY ONLY <1>0, <1>1, <2>3, j \in 1..(Len(queue) + 1)
    <3>0. queue'[j] = queue[j - 1]
      BY <1>2, <3>1
    <3>2. CASE i < k
      BY <1>0, <1>2, <3>0, <3>1, <3>2
    <3>3. CASE i = k
      BY <1>2, <3>0, <3>1, <3>3
    <3>4. CASE i > k
      <4>1. i - 1 \in 1..Len(queue) /\ i - 1 < j - 1 /\ ~(i < k) /\ i # k
        BY ONLY <1>0, <1>1, <1>6, <3>4
      <4>2. queue'[i] = queue[i - 1]
        BY <1>2, <4>1
      <4> QED
        BY <3>0, <3>1, <4>1, <4>2
    <3> QED
      BY <3>2, <3>3, <3>4
  <2> QED
    BY <2>1, <2>2, <2>3
<1>7. \A x \in Calls : <<c, x>> \notin before'
  <2>1. \A x \in Calls : <<c, x>> \notin before
    BY DEF OrderInv
  <2>2. c \notin ToSet(queue)
    BY <1>0, SeqFacts
  <2> QED
    BY <2>1, <2>2
<1>8. ASSUME NEW i \in DOMAIN queue', NEW j \in DOMAIN queue', i < j
      PROVE  /\ Prio(queue'[i]) >= Prio(queue'[j])
             /\ <<queue'[j], queue'[i]>> \in before' => Prio(queue'[i]) > Prio(queue'[j])
  <2>0. i \in 1..(Len(queue) + 1) /\ j \in 1..(Len(queue) + 1)
    BY <1>2
  <2>1. CASE queue'[j] = c /\ i < k /\ i \in 1..Len(queue) /\ queue'[i] = queue[i]
    BY <1>0, <1>5, <1>7, <2>1
  <2>2. CASE /\ queue'[i] = c
             /\ \E n \in 1..Len(queue) : n >= k /\ queue'[j] = queue[n]
    BY <1>0, <1>4, <2>2
  <2>3. CASE \E m, n \in 1..Len(queue) : m < n /\ queue'[i] = queue[m] /\ queue'[j] = queue[n]
    <3>1. PICK m \in 1..Len(queue), n \in 1..Len(queue) :
            m < n /\ queue'[i] = queue[m] /\ queue'[j] = queue[n]
      BY <2>3
    <3>2. queue[m] # c
      BY <1>0
    <3>3. /\ Prio(queue[m]) >= Prio(queue[n])
          /\ <<queue[n], queue[m]>> \in before => Prio(queue[m]) > Prio(queue[n])
      BY <3>1, PairOrder
    <3>4. <<queue[n], queue[m]>> \in before' => <<queue[n], queue[m]>> \in before
      BY <3>2
    <3> QED
      BY <3>1, <3>3, <3>4
  <2> QED
    BY <1>6, <1>8, <2>0, <2>1, <2>2, <2>3
<1>9. ASSUME NEW x \in Calls, NEW y \in Calls, <<x, y>> \in before'
      PROVE  stage'[y] # "new" /\ stage'[x] \notin {"new", "compressing", "persisting"}
  <2>1. CASE <<x, y>> \in before
    BY <1>0, <1>3, <2>1 DEF OrderInv
  <2>2. CASE y = c /\ x \in ToSet(queue)
    <3>1. stage[x] = "queued"
      BY <1>0, <2>2, SeqFacts
    <3> QED
      BY <1>0, <1>3, <2>2, <3>1
  <2> QED
    BY <1>9, <2>1, <2>2
<1>10. NoOvertaking'
  <2> SUFFICES ASSUME NEW x \in Calls, NEW y \in Calls, <<x, y>> \in before',
                      Prio(x) >= Prio(y), stage'[y] \in Gone, stage'[x] = "queued"
               PROVE  FALSE
    BY <1>3 DEF NoOvertaking, Gone, Prio
  <2>1. y # c /\ x # c
    BY <1>0, <1>3, <1>7 DEF Gone
  <2>2. <<x, y>> \in before /\ stage[x] = "queued" /\ stage[y] \in Gone
    BY <1>0, <1>3, <2>1
  <2> QED
    BY <2>2 DEF OrderInv, NoOvertaking, Gone, Prio
<1> QED
  BY <1>3, <1>8, <1>9, <1>10 DEF OrderInv

(* The first n calls leave the queue together.                              *)
LEMMA LeaveKeepsOrder ==
  ASSUME QueueAssumption, QueueInv, OrderInv, NEW n \in 0..Len(queue),
         queue' = SubSeq(queue, n + 1, Len(queue)), arg' = arg, before' = before,
         NEW s \in {"taken", "dequeued"},
         \A c \in Calls : stage'[c] = IF \E i \in 1..n : queue[i] = c THEN s ELSE stage[c]
  PROVE  OrderInv'
<1>0. /\ queue \in Seq(Calls) /\ Len(queue) \in Nat /\ DOMAIN queue = 1..Len(queue)
      /\ \A i \in 1..Len(queue) : queue[i] \in Calls /\ stage[queue[i]] = "queued"
      /\ \A d \in Calls : stage[d] = "queued" <=> \E i \in 1..Len(queue) : queue[i] = d
      /\ \A d \in Calls : Prio(d) \in Int
  BY OrderFacts
<1>1. /\ DOMAIN queue' = 1..(Len(queue) - n)
      /\ \A i \in 1..(Len(queue) - n) : queue'[i] = queue[n + i]
  BY <1>0, WithoutFirst
<1>2. \A d : Prio(d)' = Prio(d)
  BY DEF Prio
<1>3. ASSUME NEW i \in DOMAIN queue', NEW j \in DOMAIN queue', i < j
      PROVE  /\ Prio(queue'[i]) >= Prio(queue'[j])
             /\ <<queue'[j], queue'[i]>> \in before' => Prio(queue'[i]) > Prio(queue'[j])
  <2>0. /\ i \in 1..(Len(queue) - n) /\ j \in 1..(Len(queue) - n) /\ i < j
        /\ n \in Nat /\ Len(queue) \in Nat
    BY <1>0, <1>1, <1>3
  <2>1. n + i \in 1..Len(queue) /\ n + j \in 1..Len(queue) /\ n + i < n + j
    BY ONLY <2>0
  <2>2. queue'[i] = queue[n + i] /\ queue'[j] = queue[n + j]
    BY <1>1
  <2>3. /\ Prio(queue[n + i]) >= Prio(queue[n + j])
        /\ <<queue[n + j], queue[n + i]>> \in before => Prio(queue[n + i]) > Prio(queue[n + j])
    BY <2>1, PairOrder
  <2> QED
    BY <2>2, <2>3
<1>4. ASSUME NEW x \in Calls, NEW y \in Calls, <<x, y>> \in before
      PROVE  stage'[y] # "new" /\ stage'[x] \notin {"new", "compressing", "persisting"}
  BY <1>4 DEF OrderInv
<1>5. NoOvertaking'
  <2> SUFFICES ASSUME NEW x \in Calls, NEW y \in Calls, <<x, y>> \in before,
                      Prio(x) >= Prio(y), stage'[y] \in Gone, stage'[x] = "queued"
               PROVE  FALSE
    BY <1>2 DEF NoOvertaking, Gone, Prio
  <2>1. stage[x] = "queued" /\ ~(\E i \in 1..n : queue[i] = x)
    OBVIOUS
  <2>2. PICK j \in 1..Len(queue) : queue[j] = x
    BY <1>0, <2>1
  <2>3. j > n
    BY <1>0, <2>1, <2>2
  <2>4. CASE \E i \in 1..n : queue[i] = y
    <3>1. PICK i \in 1..n : queue[i] = y
      BY <2>4
    <3>2. i \in 1..Len(queue) /\ i < j
      BY <1>0, <2>3
    <3>3. <<x, y>> \in before => Prio(y) > Prio(x)
      BY <2>2, <3>1, <3>2, PairOrder
    <3>4. Prio(x) \in Int /\ Prio(y) \in Int
      BY <1>0
    <3> QED
      BY <3>3, <3>4
  <2>5. CASE ~(\E i \in 1..n : queue[i] = y)
    BY <2>1, <2>5 DEF OrderInv, NoOvertaking, Gone, Prio
  <2> QED
    BY <2>4, <2>5
<1> QED
  BY <1>2, <1>3, <1>4, <1>5 DEF OrderInv

(* A call is refused, starts to await or ends: the queue stays.             *)
LEMMA StayKeepsOrder ==
  ASSUME QueueAssumption, QueueInv, OrderInv, NEW c \in Calls, queue' = queue, arg' = arg,
         NEW s \in Stages \ {"new", "queued"}, stage' = [stage EXCEPT ![c] = s],
         \/ stage[c] \in {"new", "compressing"} /\ s \in {"compressing", "persisting", "refused"}
         \/ stage[c] = "taken" /\ s \in {"handled", "failed"},
         \A x, y : <<x, y>> \in before' => <<x, y>> \in before \/ (y = c /\ x \in ToSet(queue)),
         stage[c] # "new" => before' = before
  PROVE  OrderInv'
<1>0. /\ queue \in Seq(Calls) /\ DOMAIN queue = 1..Len(queue)
      /\ \A i \in 1..Len(queue) : queue[i] \in Calls /\ stage[queue[i]] = "queued"
      /\ \A d \in Calls : d \in ToSet(queue) <=> stage[d] = "queued"
      /\ stage \in [Calls -> Stages]
  BY OrderFacts DEF QueueInv, Conserved
<1>1. \A d : Prio(d)' = Prio(d)
  BY DEF Prio
<1>2. ASSUME NEW i \in DOMAIN queue, NEW j \in DOMAIN queue, <<queue[j], queue[i]>> \in before'
      PROVE  <<queue[j], queue[i]>> \in before
  BY <1>0, <1>2
<1>3. ASSUME NEW x \in Calls, NEW y \in Calls, <<x, y>> \in before'
      PROVE  stage'[y] # "new" /\ stage'[x] \notin {"new", "compressing", "persisting"}
  BY <1>0, <1>3 DEF OrderInv
<1>4. NoOvertaking'
  <2> SUFFICES ASSUME NEW x \in Calls, NEW y \in Calls, <<x, y>> \in before',
                      Prio(x) >= Prio(y), stage'[y] \in Gone, stage'[x] = "queued"
               PROVE  FALSE
    BY <1>1 DEF NoOvertaking, Gone, Prio
  <2>1. stage[x] = "queued" /\ stage[y] \in Gone /\ <<x, y>> \in before
    BY <1>0 DEF Gone
  <2> QED
    BY <2>1 DEF OrderInv, NoOvertaking, Gone, Prio
<1> QED
  BY <1>1, <1>2, <1>3, <1>4 DEF OrderInv

LEMMA NextKeepsOrder ==
  ASSUME QueueAssumption, QueueInv, OrderInv, [Next]_vars
  PROVE  OrderInv'
<1>0. TypeOK /\ Conserved /\ queue \in Seq(Calls) /\ Len(queue) \in Nat
  BY SeqFacts DEF QueueInv, TypeOK
<1>1. ASSUME UNCHANGED <<queue, stage, arg, before>>
      PROVE  OrderInv'
  BY <1>1 DEF OrderInv, NoOvertaking, Prio
<1>2. ASSUME NEW c \in Calls, Refuse(c) \/ Enqueue(c) \/ Compressed(c) \/ Persisted(c)
      PROVE  OrderInv'
  <2>1. /\ arg' = arg
        /\ stage[c] \in {"new", "compressing", "persisting"}
        /\ \A x, y : <<x, y>> \in before' => <<x, y>> \in before \/ (y = c /\ x \in ToSet(queue))
        /\ stage[c] # "new" => before' = before
    BY <1>2 DEF Refuse, Enqueue, Compressed, Persisted, pastVars
  <2>2. CASE Insert(c)
    BY <2>1, <2>2, InsertKeepsOrder
  <2>3. CASE /\ queue' = queue /\ stage[c] \in {"new", "compressing"}
             /\ \E s \in {"compressing", "persisting", "refused"} :
                  stage' = [stage EXCEPT ![c] = s]
    <3>1. PICK s \in {"compressing", "persisting", "refused"} :
            stage' = [stage EXCEPT ![c] = s]
      BY <2>3
    <3>2. s \in Stages \ {"new", "queued"}
      BY DEF Stages
    <3> QED
      BY <2>1, <2>3, <3>1, <3>2, StayKeepsOrder
  <2> QED
    BY <1>2, <2>2, <2>3 DEF Refuse, Enqueue, Compressed, Persisted
<1>3. ASSUME NEW c \in Calls, Handle(c) \/ Fail(c)
      PROVE  OrderInv'
  <2>1. queue' = queue /\ arg' = arg /\ before' = before /\ c \in running
    BY <1>3 DEF Handle, Fail, pastVars
  <2>2. PICK s \in {"handled", "failed"} : stage' = [stage EXCEPT ![c] = s]
    BY <1>3 DEF Handle, Fail
  <2>3. stage[c] = "taken" /\ s \in Stages \ {"new", "queued"}
    BY <1>0, <2>1 DEF Conserved, Stages
  <2> QED
    BY <2>1, <2>2, <2>3, StayKeepsOrder
<1>4. ASSUME (\E all \in BOOLEAN : Process(all)) \/ NextBatch
      PROVE  OrderInv'
  <2> DEFINE n == IF BatchSize < Len(queue) THEN BatchSize ELSE Len(queue)
             b == SubSeq(queue, 1, n)
  <2>1. arg' = arg /\ before' = before /\ TakeBatch
    BY <1>4 DEF Process, NextBatch, pastVars
  <2>2. /\ queue' = SubSeq(queue, n + 1, Len(queue))
        /\ stage' = [c \in Calls |-> IF c \in ToSet(b) THEN "taken" ELSE stage[c]]
    BY <2>1 DEF TakeBatch
  <2>3. n \in 0..Len(queue)
    BY <1>0 DEF QueueAssumption
  <2> HIDE DEF n
  <2>4. \A x : x \in ToSet(b) <=> \E i \in 1..n : queue[i] = x
    BY <1>0, <2>3, PartOf
  <2> HIDE DEF b
  <2>5. \A c \in Calls :
          stage'[c] = IF \E i \in 1..n : queue[i] = c THEN "taken" ELSE stage[c]
    BY <2>2, <2>4
  <2> QED
    BY <2>1, <2>2, <2>3, <2>5, LeaveKeepsOrder
<1>5. ASSUME Dequeue
      PROVE  OrderInv'
  <2>1. /\ arg' = arg /\ before' = before /\ queue # <<>> /\ queue' = Tail(queue)
        /\ stage' = [stage EXCEPT ![Head(queue)] = "dequeued"]
    BY <1>5 DEF Dequeue, pastVars
  <2>2. 1 \in 0..Len(queue) /\ Tail(queue) = SubSeq(queue, 1 + 1, Len(queue))
    BY <1>0, <2>1
  <2>3. \A c \in Calls :
          stage'[c] = IF \E i \in 1..1 : queue[i] = c THEN "dequeued" ELSE stage[c]
    BY <1>0, <2>1 DEF TypeOK
  <2> QED
    BY <2>1, <2>2, <2>3, LeaveKeepsOrder
<1>6. ASSUME Clear
      PROVE  OrderInv'
  <2>1. /\ queue' = <<>> /\ before' = before /\ arg' = arg
        /\ \A c \in Calls : stage'[c] = IF stage[c] = "queued" THEN "cleared" ELSE stage[c]
    BY <1>0, <1>6 DEF Clear, Conserved
  <2> QED
    BY <2>1 DEF OrderInv, NoOvertaking, Prio
<1>7. ASSUME NextChunk \/ Finish
      PROVE  UNCHANGED <<queue, stage, arg, before>>
  BY <1>7 DEF NextChunk, Finish, pastVars
<1>8. CASE UNCHANGED vars
  BY <1>1, <1>8 DEF vars, pastVars
<1>9. CASE Next
  BY <1>1, <1>2, <1>3, <1>4, <1>5, <1>6, <1>7, <1>9 DEF Next
<1> QED
  BY <1>8, <1>9

(* A waiting call is overtaken only by one of higher priority, awaits in    *)
(* between or not (enqueue).                                                *)
THEOREM NobodyOvertaken == Spec => []NoOvertaking
<1>1. Init => OrderInv
  BY DEF Init, OrderInv, NoOvertaking
<1>2. QueueInv /\ OrderInv /\ [Next]_vars => OrderInv'
  BY NextKeepsOrder, QueueAssumption
<1>3. OrderInv => NoOvertaking
  BY DEF OrderInv
<1> QED
  BY <1>1, <1>2, <1>3, QueueInvariant, PTL DEF Spec

-----------------------------------------------------------------------------
(* Delivery.  What has not been emitted has not been offered to the queue;  *)
(* an acknowledgement is awaited for what has been, until it is handled,    *)
(* has failed or was dropped.                                               *)
EmitInv ==
  /\ batchQueue \in Seq(Calls) /\ ToSet(batchQueue) \subseteq emitted
  /\ batchTimer \in BOOLEAN
  /\ \A f \in flushes : /\ f.on \in Calls /\ f.rest \in Seq(Calls) /\ f.rest # <<>>
                        /\ f.on \in emitted /\ ToSet(f.rest) \subseteq emitted
  /\ emitted \subseteq Calls
  /\ \A c \in Calls : stage[c] # "new" => c \in emitted
  /\ BufferHasTimer /\ (batchTimer => batchQueue # <<>>)

AckInv ==
  /\ pendingAcks \subseteq emitted /\ acked \subseteq Calls /\ unacked \subseteq Calls
  /\ NoStalePending
  /\ \A c \in emitted :
       c \in pendingAcks \/ c \in unacked \/ stage[c] \in {"handled", "failed"}

(* The cache holds stored events, each once; a stored event not in it has   *)
(* been evicted, and one that is handled and not hidden has its reason.     *)
StoreInv ==
  /\ cache \in Seq(Calls) /\ IsInjective(cache) /\ Len(cache) <= CacheSize
  /\ ToSet(cache) \subseteq stored
  /\ \A c \in stored : c \in Calls /\ stage[c] \notin {"new"} \cup Awaiting
  /\ stored \subseteq ToSet(cache) \cup evicted
  /\ processed \subseteq ToSet(cache)
  /\ OnlyHandledHidden
  /\ \A c \in stored \ processed : stage[c] = "handled" => c \in evicted \cup unacked
  /\ evicted \subseteq Calls /\ faults \in 0..MaxFaults

ReplayInv == replayed \subseteq Calls /\ ReplayExplained

DeliveryInv == QueueInv /\ EmitInv /\ AckInv /\ StoreInv /\ ReplayInv

Entered == {"refused", "compressing", "persisting", "queued"}

(* The calls of enqueue that delivery makes, and the ends of their awaits.  *)
LEMMA Entering ==
  ASSUME QueueInv, NEW c \in Calls, Offer(c) \/ EndAwait(c)
  PROVE  /\ stage[c] \in {"new"} \cup Awaiting /\ (Offer(c) => stage[c] = "new")
         /\ \E s \in Entered : stage' = [stage EXCEPT ![c] = s]
         /\ StoreOnEntry(c) /\ Next
BY DEF Offer, EndAwait, Refuse, Enqueue, Compressed, Persisted, Insert, Entered, Awaiting, Next

(* The loop only takes calls that are queued.                               *)
LEMMA LoopStages ==
  ASSUME QueueAssumption, QueueInv, Process(TRUE) \/ Loop
  PROVE  \A d \in Calls : \/ stage'[d] = stage[d]
                          \/ stage[d] = "queued" /\ stage'[d] = "taken"
<1>1. CASE NextChunk \/ Finish
  BY <1>1 DEF NextChunk, Finish
<1>2. CASE TakeBatch
  <2> DEFINE n == IF BatchSize < Len(queue) THEN BatchSize ELSE Len(queue)
             b == SubSeq(queue, 1, n)
  <2>1. stage' = [d \in Calls |-> IF d \in ToSet(b) THEN "taken" ELSE stage[d]]
    BY <1>2 DEF TakeBatch
  <2>2. queue \in Seq(Calls) /\ Len(queue) \in Nat /\ n \in 0..Len(queue)
    BY SeqFacts DEF QueueInv, TypeOK, QueueAssumption
  <2> HIDE DEF n
  <2>3. \A x : x \in ToSet(b) => x \in ToSet(queue)
    <3>1. \A x : x \in ToSet(b) <=> \E i \in 1..n : queue[i] = x
      BY <2>2, PartOf
    <3> QED
      BY <2>2, <3>1, SeqFacts
  <2> HIDE DEF b
  <2> QED
    BY <2>1, <2>3 DEF QueueInv, Conserved
<1> QED
  BY <1>1, <1>2 DEF Process, Loop, NextBatch

-----------------------------------------------------------------------------
(* The cache.                                                               *)
LEMMA TouchEffect ==
  ASSUME StoreInv, NEW c \in Calls
  PROVE  /\ Touch(c) \in Seq(Calls) /\ IsInjective(Touch(c))
         /\ Len(Touch(c)) <= CacheSize /\ ToSet(Touch(c)) = ToSet(cache)
         /\ Contains(cache, c) <=> c \in ToSet(cache)
<1>1. cache \in Seq(Calls) /\ IsInjective(cache) /\ Len(cache) <= CacheSize
  BY DEF StoreInv
<1>2. Contains(cache, c) <=> c \in ToSet(cache)
  BY <1>1, SeqFacts DEF Contains
<1>3. CASE c \in ToSet(cache)
  <2> DEFINE k == CHOOSE i \in DOMAIN cache : cache[i] = c
             r == RemoveAt(cache, k)
  <2>1. k \in DOMAIN cache /\ cache[k] = c
    BY <1>3 DEF ToSet
  <2> HIDE DEF k
  <2>2. r \in Seq(Calls) /\ IsInjective(r) /\ \A x : x \in ToSet(r) <=> x \in ToSet(cache) /\ x # c
    BY <1>1, <2>1, RemoveOnce
  <2> HIDE DEF r
  <2>3. /\ Append(r, c) \in Seq(Calls) /\ IsInjective(Append(r, c))
        /\ \A x : x \in ToSet(Append(r, c)) <=> x = c \/ x \in ToSet(r)
    BY <2>2, AppendOnce
  <2>4. Touch(c) = Append(r, c)
    BY <1>2, <1>3 DEF Touch, r, k
  <2>5. ToSet(Append(r, c)) = ToSet(cache)
    BY <1>3, <2>2, <2>3
  <2>6. Len(Append(r, c)) = Cardinality(ToSet(Append(r, c))) /\ Len(cache) = Cardinality(ToSet(cache))
    BY <1>1, <2>3, CardinalityOnce
  <2> QED
    BY <1>1, <1>2, <2>3, <2>4, <2>5, <2>6
<1>4. CASE c \notin ToSet(cache)
  BY <1>1, <1>2, <1>4 DEF Touch
<1> QED
  BY <1>3, <1>4

LEMMA RoomEffect ==
  ASSUME DeliveryAssumption, StoreInv
  PROVE  /\ Room \in Seq(Calls) /\ IsInjective(Room) /\ Len(Room) < CacheSize
         /\ ToSet(Room) \subseteq ToSet(cache)
<1>1. cache \in Seq(Calls) /\ IsInjective(cache) /\ Len(cache) <= CacheSize
      /\ CacheSize \in Nat \ {0} /\ Len(cache) \in Nat
  BY DEF StoreInv, DeliveryAssumption
<1>2. CASE Len(cache) < CacheSize
  BY <1>1, <1>2 DEF Room
<1>3. CASE Len(cache) = CacheSize
  <2>1. Room = Tail(cache) /\ cache # <<>>
    BY <1>1, <1>3 DEF Room
  <2>2. Len(Tail(cache)) = Len(cache) - 1
    BY <1>1, <2>1
  <2>3. Tail(cache) \in Seq(Calls) /\ IsInjective(Tail(cache))
        /\ \A x : x \in ToSet(Tail(cache)) => x \in ToSet(cache)
    BY <1>1, <2>1, TailOnce
  <2> QED
    BY <1>1, <1>3, <2>1, <2>2, <2>3
<1> QED
  BY <1>1, <1>2, <1>3

(* An event that enters the queue is stored, unless its append fails.       *)
LEMMA EntryKeepsStore ==
  ASSUME DeliveryAssumption, QueueInv, StoreInv, NEW c \in Calls,
         stage[c] \in {"new"} \cup Awaiting, NEW s \in Entered,
         stage' = [stage EXCEPT ![c] = s], StoreOnEntry(c), unacked' = unacked
  PROVE  StoreInv'
<1>1. /\ c \notin stored /\ c \notin ToSet(cache)
      /\ stage'[c] = s /\ \A d \in Calls \ {c} : stage'[d] = stage[d]
  BY DEF StoreInv, QueueInv, TypeOK
<1>2. CASE UNCHANGED storeVars
  BY <1>1, <1>2 DEF storeVars, StoreInv, OnlyHandledHidden
<1>3. CASE s = "queued" /\ AppendEvent(c)
  <2> DEFINE out == ToSet(cache) \ ToSet(Room)
  <2>1. /\ Room \in Seq(Calls) /\ IsInjective(Room) /\ Len(Room) < CacheSize
        /\ ToSet(Room) \subseteq ToSet(cache)
    BY RoomEffect
  <2>2. /\ evicted' = evicted \cup out /\ processed' = processed \ out
        /\ \/ cache' = Append(Room, c) /\ stored' = stored \cup {c} /\ faults' = faults
           \/ cache' = Room /\ stored' = stored /\ faults < MaxFaults /\ faults' = faults + 1
    BY <1>3 DEF AppendEvent
  <2>3. /\ cache' \in Seq(Calls) /\ IsInjective(cache') /\ Len(cache') <= CacheSize
        /\ ToSet(Room) \subseteq ToSet(cache') /\ ToSet(cache') \subseteq ToSet(Room) \cup {c}
        /\ c \in stored' \ stored => c \in ToSet(cache')
        /\ ToSet(cache') \subseteq stored'
    <3>1. /\ Append(Room, c) \in Seq(Calls) /\ IsInjective(Append(Room, c))
          /\ \A x : x \in ToSet(Append(Room, c)) <=> x = c \/ x \in ToSet(Room)
          /\ Len(Append(Room, c)) = Len(Room) + 1
      BY <1>1, <2>1, AppendOnce
    <3>2. Len(Room) + 1 <= CacheSize /\ Len(Room) <= CacheSize
      BY <2>1, DeliveryAssumption DEF DeliveryAssumption
    <3>3. ToSet(Room) \subseteq stored
      BY <2>1 DEF StoreInv
    <3> QED
      BY <2>1, <2>2, <3>1, <3>2, <3>3
  <2>4. stored' \subseteq stored \cup {c} /\ stored \subseteq stored'
    BY <2>2
  <2>5. faults' \in 0..MaxFaults
    BY <2>2 DEF StoreInv, DeliveryAssumption
  <2>6. \A d \in stored' : d \in Calls /\ stage'[d] \notin {"new"} \cup Awaiting
    BY <1>1, <1>3, <2>4 DEF StoreInv, Awaiting
  <2>7. stored' \subseteq ToSet(cache') \cup evicted' /\ processed' \subseteq ToSet(cache')
    BY <2>1, <2>2, <2>3, <2>4 DEF StoreInv
  <2>8. OnlyHandledHidden'
    BY <1>1, <2>2 DEF StoreInv, OnlyHandledHidden
  <2>9. ASSUME NEW d \in stored' \ processed', stage'[d] = "handled"
        PROVE  d \in evicted' \cup unacked'
    <3>1. d # c /\ d \in stored /\ stage[d] = "handled"
      BY <1>1, <1>3, <2>4, <2>9 DEF StoreInv
    <3> QED
      BY <2>2, <2>9, <3>1 DEF StoreInv
  <2>10. evicted' \subseteq Calls
    BY <2>2 DEF StoreInv
  <2> HIDE DEF out
  <2> QED
    BY <2>3, <2>5, <2>6, <2>7, <2>8, <2>9, <2>10 DEF StoreInv
<1> QED
  BY <1>1, <1>2, <1>3 DEF StoreOnEntry

(* A step that leaves the store alone and handles nothing.                  *)
LEMMA OthersKeepStore ==
  ASSUME StoreInv, UNCHANGED storeVars, unacked \subseteq unacked',
         \A d \in Calls : /\ stage[d] = "handled" <=> stage'[d] = "handled"
                          /\ stage[d] \notin {"new"} \cup Awaiting =>
                             stage'[d] \notin {"new"} \cup Awaiting
  PROVE  StoreInv'
<1>1. stored \subseteq Calls /\ processed \subseteq stored
  BY DEF StoreInv
<1> QED
  BY <1>1 DEF StoreInv, storeVars, OnlyHandledHidden

(* What an acknowledgement hides has been handled; what it does not hide    *)
(* was no longer pending or no longer in the cache.                         *)
LEMMA HandleKeepsStore ==
  ASSUME QueueInv, EmitInv, AckInv, StoreInv, NEW c \in Calls, HandleAndAck(c)
  PROVE  StoreInv'
<1>1. /\ stage[c] = "taken" /\ stage'[c] = "handled"
      /\ \A d \in Calls \ {c} : stage'[d] = stage[d]
      /\ UNCHANGED <<stored, evicted, faults, unacked>>
  BY DEF HandleAndAck, Handle, QueueInv, TypeOK, Conserved
<1>2. /\ cache' \in Seq(Calls) /\ IsInjective(cache') /\ Len(cache') <= CacheSize
      /\ ToSet(cache') = ToSet(cache)
      /\ processed' \subseteq processed \cup {c} /\ processed \subseteq processed'
      /\ processed' \subseteq ToSet(cache')
      /\ c \in processed' \/ c \notin ToSet(cache) \/ c \notin pendingAcks
  <2>1. CASE c \in pendingAcks /\ MarkProcessed(c)
    BY <2>1, TouchEffect DEF MarkProcessed, StoreInv
  <2>2. CASE c \notin pendingAcks /\ UNCHANGED <<cache, processed>>
    BY <2>2 DEF StoreInv
  <2> QED
    BY <2>1, <2>2 DEF HandleAndAck
<1>3. \A d \in stored' : d \in Calls /\ stage'[d] \notin {"new"} \cup Awaiting
  BY <1>1 DEF StoreInv, Awaiting
<1>4. OnlyHandledHidden'
  <2>1. processed \subseteq Calls
    BY DEF StoreInv
  <2> QED
    BY <1>1, <1>2, <2>1 DEF StoreInv, OnlyHandledHidden
<1>5. ASSUME NEW d \in stored' \ processed', stage'[d] = "handled"
      PROVE  d \in evicted' \cup unacked'
  <2>1. CASE d = c
    <3>1. c \in emitted /\ (c \in pendingAcks \/ c \in unacked)
      BY <1>1 DEF EmitInv, AckInv
    <3> QED
      BY <1>1, <1>2, <1>5, <2>1, <3>1 DEF StoreInv
  <2>2. CASE d # c
    BY <1>1, <1>2, <1>5, <2>2 DEF StoreInv
  <2> QED
    BY <2>1, <2>2
<1> QED
  BY <1>1, <1>2, <1>3, <1>4, <1>5 DEF StoreInv

LEMMA ReplayKeepsStore ==
  ASSUME QueueInv, StoreInv, NEW c \in Calls, Replay(c)
  PROVE  StoreInv'
<1>1. UNCHANGED <<stage, stored, processed, evicted, faults, unacked>> /\ cache' = Touch(c)
  BY DEF Replay, vars, ackVars
<1> QED
  BY <1>1, TouchEffect DEF StoreInv, OnlyHandledHidden

-----------------------------------------------------------------------------
(* The buffer and the acknowledgements.                                     *)
LEMMA AckStep ==
  ASSUME AckInv, emitted' = emitted \/ \E c \in Calls : Track(c),
         UNCHANGED ackVars \/ \E c \in Calls : Track(c),
         emitted \subseteq Calls,
         \A d \in Calls : stage[d] # "new" => d \in emitted,
         \A d \in Calls : stage'[d] \in {"handled", "failed", "cleared"} <=>
                          stage[d] \in {"handled", "failed", "cleared"},
         \A d \in Calls : stage'[d] \in {"handled", "failed"} <=> stage[d] \in {"handled", "failed"}
  PROVE  AckInv'
<1>1. CASE \E c \in Calls : Track(c)
  <2>1. PICK c \in Calls : Track(c)
    BY <1>1
  <2>2. /\ c \notin emitted /\ emitted' = emitted \cup {c}
        /\ pendingAcks' = pendingAcks \cup {c} /\ UNCHANGED <<acked, unacked>>
    BY <2>1 DEF Track
  <2>3. stage'[c] \notin {"handled", "failed", "cleared"}
    BY <2>2
  <2> QED
    BY <2>2, <2>3 DEF AckInv, NoStalePending
<1>2. CASE UNCHANGED <<emitted, ackVars>>
  BY <1>2 DEF AckInv, NoStalePending, ackVars
<1> QED
  BY <1>1, <1>2

(* A step by which acknowledgements are only given up.                      *)
LEMMA AckRest ==
  ASSUME AckInv, emitted \subseteq Calls, emitted' = emitted,
         pendingAcks' \subseteq pendingAcks, acked' \subseteq Calls,
         unacked \subseteq unacked', unacked' \subseteq Calls,
         \A d \in pendingAcks' : stage'[d] \notin {"handled", "failed", "cleared"},
         \A d \in Calls : stage[d] \in {"handled", "failed"} => stage'[d] \in {"handled", "failed"},
         \A d \in pendingAcks \ pendingAcks' :
           d \in unacked' \/ stage'[d] \in {"handled", "failed"}
  PROVE  AckInv'
<1>1. pendingAcks' \subseteq emitted' /\ acked' \subseteq Calls /\ unacked' \subseteq Calls
  BY DEF AckInv
<1>2. NoStalePending'
  BY DEF NoStalePending
<1>3. ASSUME NEW d \in emitted'
      PROVE  d \in pendingAcks' \/ d \in unacked' \/ stage'[d] \in {"handled", "failed"}
  <2>1. d \in Calls /\ (d \in pendingAcks \/ d \in unacked \/ stage[d] \in {"handled", "failed"})
    BY DEF AckInv
  <2> QED
    BY <2>1
<1> QED
  BY <1>1, <1>2, <1>3 DEF AckInv

(* A flush goes on with events that have been emitted.                      *)
LEMMA FlushEvents ==
  ASSUME NEW events \in Seq(Calls), events # <<>>, NEW late, ToSet(events) \subseteq late
  PROVE  /\ Head(events) \in Calls /\ Head(events) \in late
         /\ Len(events) # 1 =>
              /\ Tail(events) \in Seq(Calls) /\ Tail(events) # <<>>
              /\ ToSet(Tail(events)) \subseteq late
BY HeadAndTail

LEMMA BufferStep ==
  ASSUME QueueInv, EmitInv, emitted \subseteq emitted', emitted' \subseteq Calls,
         \/ batchQueue' = <<>> /\ batchTimer' = FALSE
         \/ /\ batchQueue' \in Seq(Calls) /\ ToSet(batchQueue') \subseteq emitted'
            /\ batchQueue' # <<>> /\ batchTimer' = TRUE
         \/ UNCHANGED <<batchQueue, batchTimer>>,
         \A f \in flushes' \ flushes :
           /\ f.on \in Calls /\ f.rest \in Seq(Calls) /\ f.rest # <<>>
           /\ f.on \in emitted' /\ ToSet(f.rest) \subseteq emitted',
         \A c \in Calls : stage'[c] # "new" => stage[c] # "new" \/ c \in emitted'
  PROVE  EmitInv'
<1>1. ToSet(<<>>) = {} /\ <<>> \in Seq(Calls)
  BY DEF ToSet
<1>2. /\ batchQueue' \in Seq(Calls) /\ ToSet(batchQueue') \subseteq emitted'
      /\ batchTimer' \in BOOLEAN /\ BufferHasTimer' /\ (batchTimer' => batchQueue' # <<>>)
  <2>1. CASE batchQueue' = <<>> /\ batchTimer' = FALSE
    BY <1>1, <2>1 DEF BufferHasTimer
  <2>2. CASE /\ batchQueue' \in Seq(Calls) /\ ToSet(batchQueue') \subseteq emitted'
             /\ batchQueue' # <<>> /\ batchTimer' = TRUE
    BY <2>2 DEF BufferHasTimer
  <2>3. CASE UNCHANGED <<batchQueue, batchTimer>>
    BY <2>3 DEF EmitInv, BufferHasTimer
  <2> QED
    BY <2>1, <2>2, <2>3
<1>3. \A f \in flushes' : /\ f.on \in Calls /\ f.rest \in Seq(Calls) /\ f.rest # <<>>
                          /\ f.on \in emitted' /\ ToSet(f.rest) \subseteq emitted'
  BY DEF EmitInv
<1>4. \A c \in Calls : stage'[c] # "new" => c \in emitted'
  BY DEF EmitInv
<1> QED
  BY <1>2, <1>3, <1>4 DEF EmitInv

(* What flushBatch does up to its first await.                              *)
LEMMA FlushStep ==
  ASSUME QueueInv, EmitInv, NEW events \in Seq(Calls), events # <<>>,
         emitted \subseteq emitted', emitted' \subseteq Calls,
         ToSet(events) \subseteq emitted', Flush(events)
  PROVE  /\ Head(events) \in Calls /\ Offer(Head(events)) /\ EmitInv'
<1> DEFINE h == Head(events)
           t == Tail(events)
<1>1. /\ h \in Calls /\ h \in emitted'
      /\ Len(events) # 1 => t \in Seq(Calls) /\ t # <<>> /\ ToSet(t) \subseteq emitted'
  BY FlushEvents
<1>2. /\ batchQueue' = <<>> /\ batchTimer' = FALSE /\ Offer(h)
      /\ flushes' = IF Len(events) = 1 THEN flushes ELSE flushes \cup {[on |-> h, rest |-> t]}
  BY DEF Flush
<1> HIDE DEF h, t
<1>3. \E s \in Entered : stage' = [stage EXCEPT ![h] = s]
  BY <1>1, <1>2, Entering DEF h
<1>4. \A c \in Calls : stage'[c] # "new" => stage[c] # "new" \/ c \in emitted'
  BY <1>1, <1>3 DEF QueueInv, TypeOK
<1>5. \A f \in flushes' \ flushes :
           /\ f.on \in Calls /\ f.rest \in Seq(Calls) /\ f.rest # <<>>
           /\ f.on \in emitted' /\ ToSet(f.rest) \subseteq emitted'
  <2> SUFFICES ASSUME NEW f \in flushes' \ flushes
               PROVE  /\ f.on \in Calls /\ f.rest \in Seq(Calls) /\ f.rest # <<>>
                      /\ f.on \in emitted' /\ ToSet(f.rest) \subseteq emitted'
    OBVIOUS
  <2>1. Len(events) # 1 /\ f = [on |-> h, rest |-> t]
    BY <1>2
  <2>2. f.on = h /\ f.rest = t
    BY <2>1
  <2> QED
    BY <1>1, <2>1, <2>2
<1>6. EmitInv'
  BY <1>2, <1>4, <1>5, BufferStep
<1> QED
  BY <1>1, <1>2, <1>6 DEF h

-----------------------------------------------------------------------------
(* A step that offers an event to the queue or ends an await of enqueue.    *)
LEMMA EntryKeepsInv ==
  ASSUME QueueAssumption, DeliveryAssumption, DeliveryInv, NEW h \in Calls,
         Offer(h) \/ EndAwait(h), EmitInv', replayed' = replayed,
         \/ \E c \in Calls : Track(c)
         \/ UNCHANGED <<emitted, ackVars>>
  PROVE  DeliveryInv'
<1> USE DEF DeliveryInv
<1>1. /\ stage[h] \in {"new"} \cup Awaiting /\ StoreOnEntry(h) /\ Next
      /\ \E s \in Entered : stage' = [stage EXCEPT ![h] = s]
  BY Entering
<1>2. PICK s \in Entered : stage' = [stage EXCEPT ![h] = s]
  BY <1>1
<1>3. QueueInv'
  BY <1>1, NextKeepsQueue
<1>4. unacked' = unacked
  BY DEF Track, ackVars
<1>5. StoreInv'
  BY <1>1, <1>2, <1>4, EntryKeepsStore
<1>6. /\ emitted \subseteq Calls /\ \A d \in Calls : stage[d] # "new" => d \in emitted
      /\ emitted' = emitted \/ \E c \in Calls : Track(c)
      /\ UNCHANGED ackVars \/ \E c \in Calls : Track(c)
  BY DEF EmitInv
<1>7. /\ \A d \in Calls : stage'[d] \in {"handled", "failed", "cleared"} <=>
                          stage[d] \in {"handled", "failed", "cleared"}
      /\ \A d \in Calls : stage'[d] \in {"handled", "failed"} <=> stage[d] \in {"handled", "failed"}
  BY <1>1, <1>2 DEF Entered, Awaiting, QueueInv, TypeOK
<1>8. AckInv'
  BY <1>6, <1>7, AckStep
<1>9. ReplayInv'
  <2>1. evicted \subseteq evicted'
    BY <1>1 DEF StoreOnEntry, storeVars, AppendEvent
  <2> QED
    BY <1>4, <2>1 DEF ReplayInv, ReplayExplained
<1> QED
  BY <1>3, <1>5, <1>8, <1>9

LEMMA EmitKeepsInv ==
  ASSUME QueueAssumption, DeliveryAssumption, DeliveryInv, NEW c \in Calls,
         Emit(c) \/ EmitBatched(c) \/ EmitAndFlush(c)
  PROVE  DeliveryInv'
<1> USE DEF DeliveryInv
<1> DEFINE all == Append(batchQueue, c)
<1>1. Track(c) /\ emitted' = emitted \cup {c} /\ replayed' = replayed /\ unacked' = unacked
      /\ emitted \subseteq emitted' /\ emitted' \subseteq Calls
  BY DEF Emit, EmitBatched, EmitAndFlush, Track, EmitInv
<1>2. all \in Seq(Calls) /\ ToSet(all) \subseteq emitted' /\ all # <<>>
  <2>1. batchQueue \in Seq(Calls) /\ ToSet(batchQueue) \subseteq emitted
    BY DEF EmitInv
  <2>2. all \in Seq(Calls) /\ \A x : x \in ToSet(all) <=> x = c \/ x \in ToSet(batchQueue)
    BY <2>1, AppendElements
  <2>3. all # <<>>
    BY <2>1
  <2> QED
    BY <1>1, <2>1, <2>2, <2>3
<1> HIDE DEF all
<1>3. CASE Emit(c)
  <2>1. Offer(c) /\ UNCHANGED <<batchQueue, batchTimer, flushes>>
    BY <1>3 DEF Emit
  <2>2. \E s \in Entered : stage' = [stage EXCEPT ![c] = s]
    BY <2>1, Entering
  <2>3. \A d \in Calls : stage'[d] # "new" => stage[d] # "new" \/ d \in emitted'
    BY <1>1, <2>2 DEF QueueInv, TypeOK
  <2>4. EmitInv'
    BY <1>1, <2>1, <2>3, BufferStep
  <2> QED
    BY <1>1, <2>1, <2>4, EntryKeepsInv
<1>4. CASE Flush(all)
  <2>1. Head(all) \in Calls /\ Offer(Head(all)) /\ EmitInv'
    BY <1>1, <1>2, <1>4, FlushStep
  <2> QED
    BY <1>1, <2>1, EntryKeepsInv
<1>5. CASE /\ batchQueue' = all /\ batchTimer' = TRUE
           /\ UNCHANGED <<vars, storeVars, flushes>>
  <2>1. QueueInv' /\ stage' = stage
    BY <1>5, NextKeepsQueue DEF vars
  <2>2. EmitInv'
    BY <1>1, <1>2, <1>5, <2>1, BufferStep
  <2>3. StoreInv'
    BY <1>1, <1>5, <2>1, OthersKeepStore
  <2>4. /\ emitted \subseteq Calls /\ \A d \in Calls : stage[d] # "new" => d \in emitted
    BY DEF EmitInv
  <2>5. AckInv'
    BY <1>1, <2>1, <2>4, AckStep
  <2>6. ReplayInv'
    BY <1>1, <1>5 DEF ReplayInv, ReplayExplained, storeVars
  <2> QED
    BY <2>1, <2>2, <2>3, <2>5, <2>6
<1> QED
  BY <1>3, <1>4, <1>5 DEF EmitBatched, EmitAndFlush, all

LEMMA FlushKeepsInv ==
  ASSUME QueueAssumption, DeliveryAssumption, DeliveryInv,
         TimerFires \/ (\E f \in flushes : FlushNext(f)) \/ (\E c \in Calls : EndAwait(c))
  PROVE  DeliveryInv'
<1> USE DEF DeliveryInv
<1>1. emitted' = emitted /\ UNCHANGED ackVars /\ replayed' = replayed
      /\ emitted \subseteq emitted' /\ emitted' \subseteq Calls
  BY DEF TimerFires, FlushNext, EndAwait, bufferVars, EmitInv
<1>2. CASE TimerFires
  <2>1. batchQueue \in Seq(Calls) /\ batchQueue # <<>> /\ ToSet(batchQueue) \subseteq emitted'
        /\ Flush(batchQueue)
    BY <1>1, <1>2 DEF TimerFires, EmitInv
  <2>2. Head(batchQueue) \in Calls /\ Offer(Head(batchQueue)) /\ EmitInv'
    BY <1>1, <2>1, FlushStep
  <2> QED
    BY <1>1, <2>2, EntryKeepsInv
<1>3. CASE \E f \in flushes : FlushNext(f)
  <2>1. PICK f \in flushes : FlushNext(f)
    BY <1>3
  <2> DEFINE h == Head(f.rest)
             t == Tail(f.rest)
  <2>2. /\ h \in Calls /\ h \in emitted'
        /\ Len(f.rest) # 1 => t \in Seq(Calls) /\ t # <<>> /\ ToSet(t) \subseteq emitted'
    BY <1>1, FlushEvents DEF EmitInv
  <2>3. /\ Offer(h) /\ UNCHANGED <<batchQueue, batchTimer>>
        /\ flushes' = (flushes \ {f}) \cup
             (IF Len(f.rest) = 1 THEN {} ELSE {[on |-> h, rest |-> t]})
    BY <2>1 DEF FlushNext
  <2> HIDE DEF h, t
  <2>4. \A g \in flushes' \ flushes :
           /\ g.on \in Calls /\ g.rest \in Seq(Calls) /\ g.rest # <<>>
           /\ g.on \in emitted' /\ ToSet(g.rest) \subseteq emitted'
    <3> SUFFICES ASSUME NEW g \in flushes' \ flushes
                 PROVE  /\ g.on \in Calls /\ g.rest \in Seq(Calls) /\ g.rest # <<>>
                        /\ g.on \in emitted' /\ ToSet(g.rest) \subseteq emitted'
      OBVIOUS
    <3>1. Len(f.rest) # 1 /\ g = [on |-> h, rest |-> t]
      BY <2>3
    <3>2. g.on = h /\ g.rest = t
      BY <3>1
    <3> QED
      BY <2>2, <3>1, <3>2
  <2>5. \E s \in Entered : stage' = [stage EXCEPT ![h] = s]
    BY <2>2, <2>3, Entering
  <2>6. \A d \in Calls : stage'[d] # "new" => stage[d] # "new" \/ d \in emitted'
    BY <2>2, <2>5 DEF QueueInv, TypeOK
  <2>7. EmitInv'
    BY <1>1, <2>3, <2>4, <2>6, BufferStep
  <2> QED
    BY <1>1, <2>2, <2>3, <2>7, EntryKeepsInv
<1>4. CASE \E c \in Calls : EndAwait(c)
  <2>1. PICK c \in Calls : EndAwait(c)
    BY <1>4
  <2>2. UNCHANGED bufferVars
    BY <2>1 DEF EndAwait
  <2>3. stage[c] # "new" /\ \E s \in Entered : stage' = [stage EXCEPT ![c] = s]
    BY <2>1, Entering DEF EndAwait, Compressed, Persisted
  <2>4. \A d \in Calls : stage'[d] # "new" => stage[d] # "new" \/ d \in emitted'
    BY <2>3 DEF QueueInv, TypeOK
  <2>5. EmitInv'
    BY <1>1, <2>2, <2>4, BufferStep DEF bufferVars
  <2> QED
    BY <1>1, <2>1, <2>5, EntryKeepsInv
<1> QED
  BY <1>2, <1>3, <1>4

(* The loop, the handlers, the sweep of the acknowledgements, clear and     *)
(* replay leave the buffer alone.                                           *)
LEMMA RestKeepsInv ==
  ASSUME QueueAssumption, DeliveryAssumption, DeliveryInv,
         \/ StartDrain \/ Drain \/ ClearRuntime
         \/ \E c \in Calls : HandleAndAck(c) \/ FailAndNack(c) \/ Expire(c) \/ Replay(c)
  PROVE  DeliveryInv'
<1> USE DEF DeliveryInv
<1>1. UNCHANGED bufferVars
  BY DEF StartDrain, Drain, ClearRuntime, HandleAndAck, FailAndNack, Expire, Replay
<1>2. QueueInv'
  <2>1. CASE StartDrain \/ Drain \/ ClearRuntime
    BY <2>1, NextKeepsQueue DEF StartDrain, Drain, Loop, ClearRuntime, Next
  <2>2. CASE \E c \in Calls : HandleAndAck(c) \/ FailAndNack(c)
    BY <2>2, NextKeepsQueue DEF HandleAndAck, FailAndNack, Next
  <2>3. CASE \E c \in Calls : Expire(c) \/ Replay(c)
    BY <2>3, NextKeepsQueue DEF Expire, Replay
  <2> QED
    BY <2>1, <2>2, <2>3
<1>3. /\ emitted \subseteq Calls /\ emitted' = emitted
      /\ \A d \in Calls : stage[d] # "new" => d \in emitted
      /\ pendingAcks \subseteq Calls /\ acked \subseteq Calls /\ unacked \subseteq Calls
      /\ \A d \in pendingAcks : stage[d] \notin {"handled", "failed", "cleared"}
  BY <1>1 DEF EmitInv, AckInv, NoStalePending, bufferVars
<1>4. ASSUME \A d \in Calls : stage'[d] # "new" => stage[d] # "new"
      PROVE  EmitInv'
  BY <1>1, <1>3, <1>4, BufferStep DEF bufferVars
<1>5. CASE StartDrain \/ Drain
  <2>1. /\ \A d \in Calls : stage'[d] = stage[d] \/ (stage[d] = "queued" /\ stage'[d] = "taken")
        /\ UNCHANGED <<storeVars, ackVars, replayed>>
    <3>1. (Process(TRUE) \/ Loop) /\ UNCHANGED <<storeVars, ackVars, replayed>>
      BY <1>5 DEF StartDrain, Drain
    <3>2. QueueInv
      OBVIOUS
    <3>3. \A d \in Calls : stage'[d] = stage[d] \/ (stage[d] = "queued" /\ stage'[d] = "taken")
      BY <3>1, <3>2, LoopStages
    <3> QED
      BY <3>1, <3>3
  <2>2. EmitInv'
    BY <1>4, <2>1
  <2>3. AckInv'
    BY <1>3, <2>1, AckRest DEF ackVars
  <2>4. StoreInv'
    BY <2>1, OthersKeepStore DEF ackVars, Awaiting
  <2> QED
    BY <1>2, <2>1, <2>2, <2>3, <2>4 DEF ReplayInv, ReplayExplained, storeVars, ackVars
<1>6. CASE ClearRuntime
  <2>1. /\ \A d \in Calls : stage'[d] = stage[d] \/ (stage[d] = "queued" /\ stage'[d] = "cleared")
        /\ pendingAcks' = {} /\ unacked' = unacked \cup pendingAcks
        /\ UNCHANGED <<storeVars, acked, replayed>>
    <3>1. Clear /\ pendingAcks' = {} /\ unacked' = unacked \cup pendingAcks
          /\ UNCHANGED <<storeVars, acked, replayed>>
      BY <1>6 DEF ClearRuntime
    <3>2. \A d \in Calls : stage'[d] = stage[d] \/ (stage[d] = "queued" /\ stage'[d] = "cleared")
      <4>1. ToSet(queue) = {d \in Calls : stage[d] = "queued"}
        BY DEF QueueInv, Conserved
      <4>2. stage' = [d \in Calls |-> IF d \in ToSet(queue) THEN "cleared" ELSE stage[d]]
        BY <3>1 DEF Clear
      <4> QED
        BY <4>1, <4>2
    <3> QED
      BY <3>1, <3>2
  <2>2. EmitInv'
    BY <1>4, <2>1
  <2>3. AckInv'
    BY <1>3, <2>1, AckRest
  <2>4. StoreInv'
    BY <2>1, OthersKeepStore DEF Awaiting
  <2> QED
    BY <1>2, <2>1, <2>2, <2>3, <2>4 DEF ReplayInv, ReplayExplained, storeVars
<1>7. ASSUME NEW c \in Calls, HandleAndAck(c)
      PROVE  DeliveryInv'
  <2>1. /\ stage[c] = "taken" /\ stage'[c] = "handled"
        /\ \A d \in Calls \ {c} : stage'[d] = stage[d]
        /\ pendingAcks' = pendingAcks \ {c} /\ acked' \subseteq acked \cup {c}
        /\ UNCHANGED <<evicted, unacked, replayed>>
    BY <1>7 DEF HandleAndAck, Handle, QueueInv, TypeOK, Conserved
  <2>2. EmitInv'
    BY <1>4, <2>1
  <2>3. AckInv'
    BY <1>3, <2>1, AckRest
  <2>4. StoreInv'
    BY <1>7, HandleKeepsStore
  <2> QED
    BY <1>2, <2>1, <2>2, <2>3, <2>4 DEF ReplayInv, ReplayExplained
<1>8. ASSUME NEW c \in Calls, FailAndNack(c)
      PROVE  DeliveryInv'
  <2>1. /\ stage[c] = "taken" /\ stage'[c] = "failed"
        /\ \A d \in Calls \ {c} : stage'[d] = stage[d]
        /\ pendingAcks' = pendingAcks \ {c}
        /\ UNCHANGED <<storeVars, acked, unacked, replayed>>
    BY <1>8 DEF FailAndNack, Fail, QueueInv, TypeOK, Conserved
  <2>2. EmitInv'
    BY <1>4, <2>1
  <2>3. AckInv'
    BY <1>3, <2>1, AckRest
  <2>4. StoreInv'
    BY <2>1, OthersKeepStore DEF Awaiting
  <2> QED
    BY <1>2, <2>1, <2>2, <2>3, <2>4 DEF ReplayInv, ReplayExplained, storeVars
<1>9. ASSUME NEW c \in Calls, Expire(c)
      PROVE  DeliveryInv'
  <2>1. /\ stage' = stage /\ pendingAcks' = pendingAcks \ {c} /\ unacked' = unacked \cup {c}
        /\ UNCHANGED <<storeVars, acked, replayed>>
    BY <1>9 DEF Expire, vars
  <2>2. EmitInv'
    BY <1>4, <2>1
  <2>3. AckInv'
    BY <1>3, <2>1, AckRest
  <2>4. StoreInv'
    BY <2>1, OthersKeepStore
  <2> QED
    BY <1>2, <2>1, <2>2, <2>3, <2>4 DEF ReplayInv, ReplayExplained, storeVars
<1>10. ASSUME NEW c \in Calls, Replay(c)
       PROVE  DeliveryInv'
  <2>1. /\ stage' = stage /\ c \in stored
        /\ UNCHANGED <<pendingAcks, acked, unacked, evicted>>
        /\ replayed' = IF c \notin processed /\ stage[c] = "handled"
                       THEN replayed \cup {c} ELSE replayed
    BY <1>10 DEF Replay, vars, ackVars
  <2>2. EmitInv'
    BY <1>4, <2>1
  <2>3. AckInv'
    BY <1>3, <2>1, AckRest
  <2>4. StoreInv'
    BY <1>10, ReplayKeepsStore
  <2>5. ReplayInv'
    BY <2>1 DEF ReplayInv, ReplayExplained, StoreInv
  <2> QED
    BY <1>2, <2>2, <2>3, <2>4, <2>5
<1> QED
  BY <1>5, <1>6, <1>7, <1>8, <1>9, <1>10

LEMMA DeliveryHolds == DeliverySpec => []DeliveryInv
<1>1. DeliveryInit => DeliveryInv
  <2> SUFFICES ASSUME DeliveryInit PROVE DeliveryInv
    OBVIOUS
  <2>1. QueueInv /\ \A c \in Calls : stage[c] = "new"
    BY InitQueue, QueueAssumption DEF DeliveryInit, Init
  <2>2. <<>> \in Seq(Calls) /\ Len(<<>>) = 0 /\ ToSet(<<>>) = {} /\ IsInjective(<<>>)
    BY DEF ToSet, IsInjective
  <2>3. 0 <= CacheSize /\ 0 \in 0..MaxFaults
    BY DeliveryAssumption
  <2>4. EmitInv /\ AckInv /\ ReplayInv
    BY <2>1, <2>2 DEF DeliveryInit, EmitInv, AckInv, ReplayInv, BufferHasTimer,
                      NoStalePending, ReplayExplained
  <2>5. StoreInv
    BY <2>1, <2>2, <2>3 DEF DeliveryInit, StoreInv, OnlyHandledHidden
  <2> QED
    BY <2>1, <2>4, <2>5 DEF DeliveryInv
<1>2. DeliveryInv /\ [DeliveryNext]_deliveryVars => DeliveryInv'
  <2> SUFFICES ASSUME DeliveryInv, [DeliveryNext]_deliveryVars PROVE DeliveryInv'
    OBVIOUS
  <2>1. CASE UNCHANGED deliveryVars
    <3>1. QueueInv' /\ stage' = stage
      BY <2>1, NextKeepsQueue, QueueAssumption DEF deliveryVars, DeliveryInv, vars
    <3>2. EmitInv' /\ AckInv' /\ StoreInv' /\ ReplayInv'
      BY <2>1, <3>1 DEF deliveryVars, bufferVars, storeVars, ackVars, DeliveryInv, EmitInv, AckInv,
                        StoreInv, ReplayInv, BufferHasTimer, NoStalePending,
                        OnlyHandledHidden, ReplayExplained
    <3> QED
      BY <3>1, <3>2 DEF DeliveryInv
  <2> QED
    BY <2>1, EmitKeepsInv, FlushKeepsInv, RestKeepsInv, QueueAssumption, DeliveryAssumption
    DEF DeliveryNext
<1> QED
  BY <1>1, <1>2, PTL DEF DeliverySpec

(* The buffer and the acknowledgements keep their sound states: no          *)
(* acknowledgement is awaited for an event that has been handled, has       *)
(* failed or was cleared (ack, nack, clear), and a buffered event has a     *)
(* flush to come (addToBatch, flushBatch).                                  *)
THEOREM DeliverySound == DeliverySpec => []DeliveryOK
<1>1. DeliveryInv => DeliveryOK
  <2> SUFFICES ASSUME DeliveryInv PROVE DeliveryOK
    OBVIOUS
  <2>1. stored \subseteq Calls /\ pendingAcks \subseteq Calls
    BY DEF DeliveryInv, StoreInv, AckInv, EmitInv
  <2>2. \A f \in flushes : f.on \in Calls /\ f.rest \in Seq(Calls) \ {<<>>}
    BY DEF DeliveryInv, EmitInv
  <2> QED
    BY <2>1, <2>2 DEF DeliveryInv, DeliveryOK, DeliveryTypeOK, EmitInv, AckInv, StoreInv, ReplayInv
<1> QED
  BY <1>1, DeliveryHolds, PTL

(* Only what has been handled is ever hidden from a replay, whatever the    *)
(* sweep, clear, a failing store and the order of the flushes do.           *)
THEOREM HiddenIsHandled == DeliverySpec => []OnlyHandledHidden
<1>1. DeliveryInv => OnlyHandledHidden
  BY DEF DeliveryInv, StoreInv
<1> QED
  BY <1>1, DeliveryHolds, PTL

(* An event replayed although it had been handled was evicted from the      *)
(* cache or was no longer pending when its handler ended.                   *)
THEOREM ReplayHasReasons == DeliverySpec => []ReplayExplained
<1>1. DeliveryInv => ReplayExplained
  BY DEF DeliveryInv, ReplayInv
<1> QED
  BY <1>1, DeliveryHolds, PTL

(* Delivery uses the queue as the queue is specified: each of its steps is  *)
(* one of the queue or leaves the queue as it is.                           *)
THEOREM DeliveryUsesQueue == DeliverySpec => Spec
<1>1. DeliveryInit => Init
  BY DEF DeliveryInit
<1>2. DeliveryInv /\ [DeliveryNext]_deliveryVars => [Next]_vars
  <2> SUFFICES ASSUME DeliveryInv, [DeliveryNext]_deliveryVars PROVE [Next]_vars
    OBVIOUS
  <2>1. ASSUME NEW c \in Calls, Offer(c) \/ EndAwait(c)
        PROVE  Next
    BY <2>1, Entering DEF DeliveryInv
  <2>2. ASSUME NEW c \in Calls, Emit(c) \/ EmitBatched(c) \/ EmitAndFlush(c)
        PROVE  [Next]_vars
    <3> DEFINE all == Append(batchQueue, c)
    <3>1. all \in Seq(Calls) /\ all # <<>>
      BY DEF DeliveryInv, EmitInv
    <3>2. Head(all) \in Calls
      BY <3>1, HeadAndTail
    <3> HIDE DEF all
    <3>3. Offer(c) \/ Offer(Head(all)) \/ UNCHANGED vars
      BY <2>2 DEF Emit, EmitBatched, EmitAndFlush, Flush, all
    <3> QED
      BY <2>1, <3>2, <3>3
  <2>3. CASE TimerFires
    <3>1. batchQueue \in Seq(Calls) /\ batchQueue # <<>> /\ Offer(Head(batchQueue))
      BY <2>3 DEF TimerFires, Flush, DeliveryInv, EmitInv
    <3> QED
      BY <2>1, <3>1, HeadAndTail
  <2>4. ASSUME NEW f \in flushes, FlushNext(f)
        PROVE  Next
    <3>1. f.rest \in Seq(Calls) /\ f.rest # <<>> /\ Offer(Head(f.rest))
      BY <2>4 DEF FlushNext, DeliveryInv, EmitInv
    <3> QED
      BY <2>1, <3>1, HeadAndTail
  <2>5. CASE StartDrain \/ Drain \/ ClearRuntime
    BY <2>5 DEF StartDrain, Drain, ClearRuntime, Loop, Next
  <2>6. ASSUME NEW c \in Calls, HandleAndAck(c) \/ FailAndNack(c) \/ Expire(c) \/ Replay(c)
        PROVE  [Next]_vars
    BY <2>6 DEF HandleAndAck, FailAndNack, Expire, Replay, Next
  <2>7. CASE UNCHANGED deliveryVars
    BY <2>7 DEF deliveryVars
  <2> QED
    BY <2>1, <2>2, <2>3, <2>4, <2>5, <2>6, <2>7 DEF DeliveryNext
<1> QED
  BY <1>1, <1>2, DeliveryHolds, PTL DEF DeliverySpec, Spec
=============================================================================
