----------------------------- MODULE EventQueue -----------------------------
(***************************************************************************)
(* The event queue of kodus-flow's runtime (EventQueue): events are        *)
(* admitted by enqueue, wait in order of priority and are given to a       *)
(* processor in batches, in chunks of a few handlers that run together     *)
(* under a semaphore.                                                      *)
(*                                                                         *)
(* JavaScript runs one piece of code at a time, so an action is the code   *)
(* between two awaits.  Callers, handlers and the loop that drains the     *)
(* queue interleave at the awaits: of the compression and the persistence  *)
(* in enqueue, of the semaphore and the handler, and between chunks.       *)
(*                                                                         *)
(* What is in the queue is not an event but a call of enqueue: nothing     *)
(* keeps callers from passing an event again, which is what the queue's    *)
(* duplicate test is for.                                                  *)
(***************************************************************************)
EXTENDS SequencesExt

CONSTANTS
  Calls,              \* identities of the calls of enqueue
  Events,             \* event.id
  Priorities,         \* priorities callers use
  Large,              \* events that are compressed on their way in
  Huge,               \* events dropped for their size (dropHugeEvents)
  Critical,           \* events that are persisted on their way in
  MaxQueueDepth,      \* config.maxQueueDepth
  BatchSize,          \* config.batchSize
  ChunkLimit,         \* handlers started together when there is no backpressure
  MaxConcurrent,      \* permits of the semaphore
  MaxProcessedEvents  \* config.maxProcessedEvents

ASSUME QueueAssumption ==
  /\ IsFiniteSet(Calls)
  /\ Priorities \subseteq Int
  /\ Large \subseteq Events /\ Huge \subseteq Events /\ Critical \subseteq Events
  /\ MaxQueueDepth \in Nat
  /\ BatchSize \in Nat \ {0}
  /\ ChunkLimit \in Nat \ {0}
  /\ MaxConcurrent \in Nat \ {0}
  /\ MaxProcessedEvents \in Nat

VARIABLES
  queue,            \* waiting calls, next one first
  processedEvents,  \* ids of handled events, oldest first
  processing,       \* a processBatch or a processAll is under way
  draining,         \* it is a processAll
  batch,            \* what is left of its batch, after the current chunk
  width,            \* chunk size of its batch
  permits,          \* free permits of the semaphore
  waiting,          \* calls of the chunk waiting for a permit
  running,          \* calls whose handler runs
  stage,            \* where each call is
  arg,              \* event and priority of each call
  before,           \* history: <<c, d>>: c was waiting when d was made
  overlapping,      \* history: made while a call of its event was under way
  forgotten         \* history: events dropped from processedEvents

loopVars == <<processing, draining, batch, width, permits, waiting, running>>
pastVars == <<before, overlapping, forgotten>>
vars == <<queue, processedEvents, loopVars, stage, arg, pastVars>>

Stages   == {"new", "compressing", "persisting", "queued", "taken",
             "handled", "failed", "refused", "cleared", "dequeued"}
Awaiting == {"compressing", "persisting"}

Waiting(e)  == \E c \in ToSet(queue) : arg[c].event = e
UnderWay(e) == \E c \in Calls : stage[c] \in Awaiting \cup {"taken"} /\ arg[c].event = e

Init ==
  /\ queue = <<>> /\ processedEvents = <<>>
  /\ processing = FALSE /\ draining = FALSE
  /\ batch = <<>> /\ width = 1
  /\ permits = MaxConcurrent /\ waiting = <<>> /\ running = {}
  /\ stage = [c \in Calls |-> "new"]
  /\ arg \in [Calls -> [event : Events, priority : Priorities]]
  /\ before = {} /\ overlapping = {} /\ forgotten = {}

-----------------------------------------------------------------------------
(* enqueue.  Higher priorities first; among equals, in order of arrival.    *)
\* Mutant of Position: a call goes before its equals.
PositionBeforeEquals(c, k) ==
  /\ \A i \in 1..(k - 1) : arg[queue[i]].priority > arg[c].priority
  /\ k <= Len(queue) => arg[queue[k]].priority <= arg[c].priority

Position(c, k) ==
  /\ \A i \in 1..(k - 1) : arg[queue[i]].priority >= arg[c].priority
  /\ k <= Len(queue) => arg[queue[k]].priority < arg[c].priority

Insert(c) ==
  /\ \E k \in 1..(Len(queue) + 1) : Position(c, k) /\ queue' = InsertAt(queue, k, c)
  /\ stage' = [stage EXCEPT ![c] = "queued"]

\* Mutants of Refuses: an event that was handled is admitted again; one more
\* than maxQueueDepth is admitted.
RefusesUnlessHandled(e) == Waiting(e) \/ e \in Huge \/ Len(queue) >= MaxQueueDepth
RefusesLate(e) ==
  \/ Contains(processedEvents, e)
  \/ Waiting(e)
  \/ e \in Huge
  \/ Len(queue) > MaxQueueDepth

Refuses(e) ==
  \/ Contains(processedEvents, e)
  \/ Waiting(e)
  \/ e \in Huge
  \/ Len(queue) >= MaxQueueDepth

Refuse(c) ==
  /\ stage[c] = "new"
  /\ Refuses(arg[c].event)
  /\ stage' = [stage EXCEPT ![c] = "refused"]
  /\ UNCHANGED <<queue, processedEvents, loopVars, arg, pastVars>>

(* The tests are made here and not again after the awaits.                  *)
Enqueue(c) ==
  LET e == arg[c].event
  IN  /\ stage[c] = "new"
      /\ ~Refuses(e)
      /\ \/ /\ e \in Large
            /\ stage' = [stage EXCEPT ![c] = "compressing"]
            /\ UNCHANGED queue
         \/ /\ e \in Critical \ Large
            /\ stage' = [stage EXCEPT ![c] = "persisting"]
            /\ UNCHANGED queue
         \/ /\ e \notin Large \cup Critical
            /\ Insert(c)
      /\ before' = before \cup {<<b, c>> : b \in ToSet(queue)}
      /\ overlapping' = IF UnderWay(e) THEN overlapping \cup {c} ELSE overlapping
      /\ UNCHANGED <<processedEvents, loopVars, arg, forgotten>>

Compressed(c) ==
  /\ stage[c] = "compressing"
  /\ \/ /\ arg[c].event \in Critical
        /\ stage' = [stage EXCEPT ![c] = "persisting"]
        /\ UNCHANGED queue
     \/ /\ arg[c].event \notin Critical
        /\ Insert(c)
  /\ UNCHANGED <<processedEvents, loopVars, arg, pastVars>>

(* An event that could not be persisted is queued all the same.             *)
Persisted(c) ==
  /\ stage[c] = "persisting"
  /\ Insert(c)
  /\ UNCHANGED <<processedEvents, loopVars, arg, pastVars>>

-----------------------------------------------------------------------------
(* The loop.  A chunk is started without an await: as many handlers as      *)
(* there are permits, the rest wait for one.                                *)
StartChunk(b, w) ==
  LET n == IF w < Len(b) THEN w ELSE Len(b)
      k == IF permits < n THEN permits ELSE n
  IN  /\ batch'   = SubSeq(b, n + 1, Len(b))
      /\ width'   = w
      /\ running' = ToSet(SubSeq(b, 1, k))
      /\ waiting' = SubSeq(b, k + 1, n)
      /\ permits' = permits - k

(* Under backpressure (memory, CPU, or a full queue) events go one by one.  *)
Widths(b, q) ==
  LET full == IF ChunkLimit < Len(b) THEN ChunkLimit ELSE Len(b)
  IN  IF Len(q) >= MaxQueueDepth THEN {1} ELSE {1, full}

\* Mutant of TakeBatch: the last of the batch stays in the queue.
TakeBatchShort ==
  LET n == IF BatchSize < Len(queue) THEN BatchSize ELSE Len(queue)
      b == SubSeq(queue, 1, n)
      q == SubSeq(queue, n, Len(queue))
  IN  /\ queue # <<>>
      /\ queue' = q
      /\ stage' = [c \in Calls |-> IF c \in ToSet(b) THEN "taken" ELSE stage[c]]
      /\ \E w \in Widths(b, q) : StartChunk(b, w)

TakeBatch ==
  LET n == IF BatchSize < Len(queue) THEN BatchSize ELSE Len(queue)
      b == SubSeq(queue, 1, n)
      q == SubSeq(queue, n + 1, Len(queue))
  IN  /\ queue # <<>>
      /\ queue' = q
      /\ stage' = [c \in Calls |-> IF c \in ToSet(b) THEN "taken" ELSE stage[c]]
      /\ \E w \in Widths(b, q) : StartChunk(b, w)

Process(all) ==
  /\ ~processing
  /\ processing' = TRUE
  /\ draining' = all
  /\ TakeBatch
  /\ UNCHANGED <<processedEvents, arg, pastVars>>

ChunkSettled == processing /\ running = {} /\ waiting = <<>>

NextChunk ==
  /\ ChunkSettled
  /\ batch # <<>>
  /\ StartChunk(batch, width)
  /\ UNCHANGED <<queue, processedEvents, processing, draining, stage, arg, pastVars>>

NextBatch ==
  /\ ChunkSettled
  /\ batch = <<>>
  /\ draining
  /\ TakeBatch
  /\ UNCHANGED <<processedEvents, processing, draining, arg, pastVars>>

\* Mutant of Finish: a processAll ends after its batch.
FinishEarly ==
  /\ ChunkSettled
  /\ batch = <<>>
  /\ processing' = FALSE
  /\ UNCHANGED <<queue, processedEvents, draining, batch, width, permits,
                 waiting, running, stage, arg, pastVars>>

Finish ==
  /\ ChunkSettled
  /\ batch = <<>>
  /\ draining => queue = <<>>
  /\ processing' = FALSE
  /\ UNCHANGED <<queue, processedEvents, draining, batch, width, permits,
                 waiting, running, stage, arg, pastVars>>

-----------------------------------------------------------------------------
(* A permit given back goes to the call that has waited longest.            *)
Release(c) ==
  \/ /\ waiting # <<>>
     /\ running' = (running \ {c}) \cup {Head(waiting)}
     /\ waiting' = Tail(waiting)
     /\ UNCHANGED permits
  \/ /\ waiting = <<>>
     /\ running' = running \ {c}
     /\ permits' = permits + 1
     /\ UNCHANGED waiting

(* A handled event is remembered; past the limit a fifth of the memory, the *)
(* oldest part, is dropped.                                                 *)
Evicted == (MaxProcessedEvents + 4) \div 5

Remember(e) ==
  LET known == IF Contains(processedEvents, e)
               THEN processedEvents ELSE Append(processedEvents, e)
      drop  == IF Len(known) <= MaxProcessedEvents THEN 0
               ELSE IF Evicted < Len(known) THEN Evicted ELSE Len(known)
  IN  /\ processedEvents' = SubSeq(known, drop + 1, Len(known))
      /\ forgotten' = forgotten \cup ToSet(SubSeq(known, 1, drop))

Handle(c) ==
  /\ c \in running
  /\ Release(c)
  /\ stage' = [stage EXCEPT ![c] = "handled"]
  /\ Remember(arg[c].event)
  /\ UNCHANGED <<queue, processing, draining, batch, width, arg, before, overlapping>>

\* Mutant of Fail: the permit is given back on success only.
FailKeepsPermit(c) ==
  /\ c \in running
  /\ running' = running \ {c}
  /\ stage' = [stage EXCEPT ![c] = "failed"]
  /\ UNCHANGED <<queue, processedEvents, processing, draining, batch, width,
                 permits, waiting, arg, pastVars>>

(* A handler that throws: the event is neither remembered nor queued again. *)
Fail(c) ==
  /\ c \in running
  /\ Release(c)
  /\ stage' = [stage EXCEPT ![c] = "failed"]
  /\ UNCHANGED <<queue, processedEvents, processing, draining, batch, width, arg, pastVars>>

-----------------------------------------------------------------------------
(* clear and destroy, also while a batch is under way, which goes on.       *)
Clear ==
  /\ queue' = <<>>
  /\ processedEvents' = <<>>
  /\ stage' = [c \in Calls |-> IF c \in ToSet(queue) THEN "cleared" ELSE stage[c]]
  /\ forgotten' = forgotten \cup ToSet(processedEvents)
  /\ UNCHANGED <<loopVars, arg, before, overlapping>>

(* dequeue, kept for callers that handle the event themselves.              *)
Dequeue ==
  /\ queue # <<>>
  /\ queue' = Tail(queue)
  /\ stage' = [stage EXCEPT ![Head(queue)] = "dequeued"]
  /\ UNCHANGED <<processedEvents, loopVars, arg, pastVars>>

Next ==
  \/ \E c \in Calls : Refuse(c) \/ Enqueue(c) \/ Compressed(c) \/ Persisted(c)
  \/ \E all \in BOOLEAN : Process(all)
  \/ NextChunk \/ NextBatch \/ Finish
  \/ \E c \in Calls : Handle(c) \/ Fail(c)
  \/ Clear \/ Dequeue

Spec == Init /\ [][Next]_vars

(* The loop goes on once its chunk has settled, and what enqueue and the    *)
(* loop await ends.  The queue has no timeout of its own: that handlers end *)
(* is asked of them.  Nothing is assumed of the callers.                    *)
Loop == NextChunk \/ NextBatch \/ Finish

FairSpec ==
  /\ Spec
  /\ WF_vars(Loop)
  /\ \A c \in Calls : /\ WF_vars(Handle(c) \/ Fail(c))
                      /\ WF_vars(Compressed(c) \/ Persisted(c))

-----------------------------------------------------------------------------
TypeOK ==
  /\ queue \in Seq(Calls)
  /\ processedEvents \in Seq(Events)
  /\ processing \in BOOLEAN /\ draining \in BOOLEAN
  /\ batch \in Seq(Calls)
  /\ width \in Nat \ {0}
  /\ permits \in 0..MaxConcurrent
  /\ waiting \in Seq(Calls)
  /\ running \subseteq Calls
  /\ stage \in [Calls -> Stages]
  /\ arg \in [Calls -> [event : Events, priority : Priorities]]
  /\ before \subseteq Calls \X Calls
  /\ overlapping \subseteq Calls
  /\ forgotten \subseteq Events

(* No call is lost or taken twice: every one admitted is in exactly one     *)
(* place, and once there (processAll's splice, chunk.map, the semaphore).   *)
Conserved ==
  /\ IsInjective(queue) /\ IsInjective(batch) /\ IsInjective(waiting)
  /\ ToSet(queue) = {c \in Calls : stage[c] = "queued"}
  /\ ToSet(batch) \cup ToSet(waiting) \cup running = {c \in Calls : stage[c] = "taken"}
  /\ ToSet(batch) \cap ToSet(waiting) = {}
  /\ running \cap (ToSet(batch) \cup ToSet(waiting)) = {}

(* Permits are neither lost nor made up, whatever handlers throw, and none  *)
(* is free while a call waits for one (Semaphore.release).                  *)
PermitsAddUp ==
  /\ permits + Cardinality(running) = MaxConcurrent
  /\ waiting # <<>> => permits = 0

(* An event is handled twice only where the code lets it: a second call was *)
(* made while a first was under way (past the duplicate test and not in the *)
(* queue), or the event had been forgotten (enqueue, processedEvents).      *)
Excused(c, d) ==
  c \in overlapping \/ d \in overlapping \/ arg[c].event \in forgotten

DuplicatesExplained ==
  \A c, d \in Calls :
    /\ stage[c] = "handled" /\ stage[d] = "handled"
    /\ c # d /\ arg[c].event = arg[d].event
    => Excused(c, d)

(* A call is not overtaken by one made while it was already waiting, unless *)
(* that has a higher priority (enqueue's findIndex and splice).             *)
NoOvertaking ==
  \A c, d \in Calls :
    /\ <<c, d>> \in before
    /\ arg[c].priority >= arg[d].priority
    /\ stage[d] \in {"taken", "handled", "failed", "dequeued"}
    => stage[c] # "queued"

(* What is in the queue while a processAll is under way does not stay there *)
(* (the loop's condition is read after its last await).                     *)
DrainEmpties ==
  \A c \in Calls : draining /\ processing /\ stage[c] = "queued" ~> stage[c] # "queued"

(* A processBatch or processAll comes to its end, failures included.        *)
ProcessingEnds == processing ~> ~processing

(* A drain does all of its work and stops (processAll).                     *)
DrainCompletes == DrainEmpties /\ ProcessingEnds

(* The depth limit is tested before the awaits of enqueue and not when the  *)
(* event is inserted: only calls that awaited can take the queue beyond it, *)
(* those that did not never fill more than its depth (maxQueueDepth).       *)
Awaited == {c \in Calls : arg[c].event \in Large \cup Critical}

OvershootOnlyByAwaits == Cardinality(ToSet(queue) \ Awaited) <= MaxQueueDepth
=============================================================================
