--------------------------- MODULE EventDelivery ---------------------------
(***************************************************************************)
(* Delivery of events by kodus-flow's runtime (createRuntime): the event   *)
(* queue together with the batch buffer of emit, the table of pending      *)
(* acknowledgements with its expiry sweep, and the event store whose       *)
(* replay yields what has not been marked as processed.                    *)
(*                                                                         *)
(* emit gives every event an id of its own, so an event is the call of     *)
(* enqueue it is passed to.                                                *)
(***************************************************************************)
EXTENDS EventQueue

CONSTANTS
  BufferSize,  \* batching.defaultBatchSize
  CacheSize,   \* entries of the event store's metadata cache
  MaxFaults    \* bound on the appends to the store that fail

ASSUME DeliveryAssumption ==
  /\ Events = Calls
  /\ BufferSize \in Nat \ {0}
  /\ CacheSize \in Nat \ {0}
  /\ MaxFaults \in Nat

VARIABLES
  batchQueue,   \* emitted events that wait for a flush
  batchTimer,   \* the timer of the next flush is set
  flushes,      \* flushes under way: the call awaited and those after it
  pendingAcks,  \* events whose acknowledgement is awaited
  stored,       \* events in the event store
  cache,        \* events with metadata in the cache, least recent first
  processed,    \* of those, the events marked as processed
  faults,       \* appends that failed so far
  emitted,      \* events emitted so far
  acked,        \* history: handled and acknowledged
  unacked,      \* history: dropped from pendingAcks by the sweep or by clear
  evicted,      \* history: dropped from the cache
  replayed      \* events a replay yielded after they had been handled

bufferVars == <<batchQueue, batchTimer, flushes, emitted>>
storeVars  == <<stored, cache, processed, evicted, faults>>
ackVars    == <<pendingAcks, acked, unacked>>
deliveryVars == <<vars, bufferVars, storeVars, ackVars, replayed>>

DeliveryInit ==
  /\ Init
  /\ \A c \in Calls : arg[c].event = c
  /\ batchQueue = <<>> /\ batchTimer = FALSE /\ flushes = {}
  /\ pendingAcks = {}
  /\ stored = {} /\ cache = <<>> /\ processed = {} /\ faults = 0
  /\ emitted = {}
  /\ acked = {} /\ unacked = {} /\ evicted = {} /\ replayed = {}

-----------------------------------------------------------------------------
(* The metadata cache: an entry that is set or read becomes the most recent, *)
(* the least recent one makes room.                                         *)
Touch(c) ==
  IF Contains(cache, c)
  THEN Append(RemoveAt(cache, CHOOSE i \in DOMAIN cache : cache[i] = c), c)
  ELSE cache

Room == IF Len(cache) < CacheSize THEN cache ELSE Tail(cache)

(* appendEvents: metadata first, taken back when the persistor fails.       *)
AppendEvent(c) ==
  LET out == ToSet(cache) \ ToSet(Room)
  IN  /\ evicted' = evicted \cup out
      /\ processed' = processed \ out
      /\ \/ /\ cache' = Append(Room, c)
            /\ stored' = stored \cup {c}
            /\ UNCHANGED faults
         \/ /\ faults < MaxFaults
            /\ faults' = faults + 1
            /\ cache' = Room
            /\ UNCHANGED stored

(* A call that enters the queue is stored at once.                          *)
StoreOnEntry(c) ==
  \/ stage'[c] = "queued" /\ AppendEvent(c)
  \/ stage'[c] # "queued" /\ UNCHANGED storeVars

Offer(c) == (Refuse(c) \/ Enqueue(c)) /\ StoreOnEntry(c)

-----------------------------------------------------------------------------
(* emit and emitAsync without batching.                                     *)
Track(c) ==
  /\ c \notin emitted
  /\ emitted' = emitted \cup {c}
  /\ pendingAcks' = pendingAcks \cup {c}
  /\ UNCHANGED <<acked, unacked, replayed>>

Emit(c) ==
  /\ Track(c)
  /\ Offer(c)
  /\ UNCHANGED <<batchQueue, batchTimer, flushes>>

(* flushBatch up to its first await: the buffer is emptied, its timer       *)
(* cleared, and its events are enqueued one after the other.                *)
Flush(events) ==
  /\ batchQueue' = <<>>
  /\ batchTimer' = FALSE
  /\ Offer(Head(events))
  /\ flushes' = IF Len(events) = 1 THEN flushes
                ELSE flushes \cup {[on |-> Head(events), rest |-> Tail(events)]}

(* emit with batching: a full buffer is flushed at once, without waiting.   *)
EmitBatched(c) ==
  /\ Track(c)
  /\ \/ /\ Len(batchQueue) + 1 >= BufferSize
        /\ Flush(Append(batchQueue, c))
     \/ /\ Len(batchQueue) + 1 < BufferSize
        /\ batchQueue' = Append(batchQueue, c)
        /\ batchTimer' = TRUE
        /\ UNCHANGED <<vars, storeVars, flushes>>

(* emitAsync with flushBatch: addToBatch has started the flush and emptied  *)
(* the buffer, so the flushBatch that emitAsync awaits returns immediately. *)
EmitAndFlush(c) ==
  /\ Track(c)
  /\ Flush(Append(batchQueue, c))

TimerFires ==
  /\ batchTimer
  /\ Flush(batchQueue)
  /\ UNCHANGED <<emitted, ackVars, replayed>>

Returned(c) == stage[c] \notin {"new"} \cup Awaiting

\* Mutant of FlushNext: the flush gives up at an event that is refused.
FlushUntilRefused(f) ==
  /\ Returned(f.on)
  /\ stage[f.on] # "refused"
  /\ Offer(Head(f.rest))
  /\ flushes' = (flushes \ {f}) \cup
       (IF Len(f.rest) = 1 THEN {} ELSE {[on |-> Head(f.rest), rest |-> Tail(f.rest)]})
  /\ UNCHANGED <<batchQueue, batchTimer, emitted, ackVars, replayed>>

FlushNext(f) ==
  /\ Returned(f.on)
  /\ Offer(Head(f.rest))
  /\ flushes' = (flushes \ {f}) \cup
       (IF Len(f.rest) = 1 THEN {} ELSE {[on |-> Head(f.rest), rest |-> Tail(f.rest)]})
  /\ UNCHANGED <<batchQueue, batchTimer, emitted, ackVars, replayed>>

EndAwait(c) ==
  /\ Compressed(c) \/ Persisted(c)
  /\ StoreOnEntry(c)
  /\ UNCHANGED <<bufferVars, ackVars, replayed>>

-----------------------------------------------------------------------------
(* process: the loop of the queue, with the runtime's processor.            *)
StartDrain ==
  /\ Process(TRUE)
  /\ UNCHANGED <<bufferVars, storeVars, ackVars, replayed>>

Drain ==
  /\ Loop
  /\ UNCHANGED <<bufferVars, storeVars, ackVars, replayed>>

\* Mutant of MarkProcessed: nothing is marked.
MarkNothing(c) == UNCHANGED <<cache, processed>>

(* markEventsProcessed: only an event with metadata can be marked.          *)
MarkProcessed(c) ==
  /\ cache' = Touch(c)
  /\ processed' = IF Contains(cache, c) THEN processed \cup {c} ELSE processed

(* ack after the handler; an event no longer pending is not marked.         *)
HandleAndAck(c) ==
  /\ Handle(c)
  /\ \/ /\ c \in pendingAcks
        /\ pendingAcks' = pendingAcks \ {c}
        /\ acked' = acked \cup {c}
        /\ MarkProcessed(c)
     \/ /\ c \notin pendingAcks
        /\ UNCHANGED <<pendingAcks, acked, cache, processed>>
  /\ UNCHANGED <<bufferVars, stored, evicted, faults, unacked, replayed>>

\* Mutants of FailAndNack: a failed event is acknowledged like any other; it
\* stays pending.
FailAndAck(c) ==
  /\ Fail(c)
  /\ pendingAcks' = pendingAcks \ {c}
  /\ MarkProcessed(c)
  /\ UNCHANGED <<bufferVars, stored, evicted, faults, acked, unacked, replayed>>
FailOnly(c) ==
  /\ Fail(c)
  /\ UNCHANGED <<bufferVars, storeVars, ackVars, replayed>>

(* nack: no retry; the event can still be replayed.                         *)
FailAndNack(c) ==
  /\ Fail(c)
  /\ pendingAcks' = pendingAcks \ {c}
  /\ UNCHANGED <<bufferVars, storeVars, acked, unacked, replayed>>

(* The sweep drops what has been pending longer than ackTimeout, wherever   *)
(* the event is by then, its handler included.                              *)
Expire(c) ==
  /\ c \in pendingAcks
  /\ pendingAcks' = pendingAcks \ {c}
  /\ unacked' = unacked \cup {c}
  /\ UNCHANGED <<vars, bufferVars, storeVars, acked, replayed>>

(* Runtime.clear leaves the buffer and the store alone.                     *)
ClearRuntime ==
  /\ Clear
  /\ pendingAcks' = {}
  /\ unacked' = unacked \cup pendingAcks
  /\ UNCHANGED <<bufferVars, storeVars, acked, replayed>>

(* replayFromTimestamp looks at a stored event, which refreshes its         *)
(* metadata, and yields it unless that says processed.                      *)
Replay(c) ==
  /\ c \in stored
  /\ cache' = Touch(c)
  /\ replayed' = IF c \notin processed /\ stage[c] = "handled"
                 THEN replayed \cup {c} ELSE replayed
  /\ UNCHANGED <<vars, bufferVars, stored, processed, evicted, faults, ackVars>>

-----------------------------------------------------------------------------
DeliveryNext ==
  \/ \E c \in Calls : Emit(c) \/ EmitBatched(c) \/ EmitAndFlush(c) \/ EndAwait(c)
  \/ TimerFires
  \/ \E f \in flushes : FlushNext(f)
  \/ StartDrain \/ Drain
  \/ \E c \in Calls : HandleAndAck(c) \/ FailAndNack(c) \/ Expire(c) \/ Replay(c)
  \/ ClearRuntime

DeliverySpec == DeliveryInit /\ [][DeliveryNext]_deliveryVars

(* Timers fire, the awaits of enqueue and of flushBatch end, and as in      *)
(* FairSpec the loop goes on and handlers end.                              *)
FairDelivery ==
  /\ DeliverySpec
  /\ WF_deliveryVars(TimerFires)
  /\ WF_deliveryVars(\E f \in flushes : FlushNext(f))
  /\ WF_deliveryVars(Drain)
  /\ \A c \in Calls : /\ WF_deliveryVars(EndAwait(c))
                      /\ WF_deliveryVars(HandleAndAck(c) \/ FailAndNack(c))

-----------------------------------------------------------------------------
DeliveryTypeOK ==
  /\ batchQueue \in Seq(Calls)
  /\ batchTimer \in BOOLEAN
  /\ \A f \in flushes : f.on \in Calls /\ f.rest \in Seq(Calls) \ {<<>>}
  /\ pendingAcks \subseteq Calls
  /\ stored \subseteq Calls
  /\ cache \in Seq(Calls) /\ Len(cache) <= CacheSize
  /\ processed \subseteq ToSet(cache)
  /\ faults \in 0..MaxFaults
  /\ emitted \subseteq Calls
  /\ acked \subseteq Calls /\ unacked \subseteq Calls
  /\ evicted \subseteq Calls /\ replayed \subseteq Calls

(* Replay gives at-least-once delivery: only an event whose handler came to *)
(* its end is ever hidden from it (ack, markEventsProcessed).               *)
OnlyHandledHidden == \A c \in processed : stage[c] = "handled"

(* An event is replayed after it was handled only because its metadata was  *)
(* evicted or its acknowledgement was no longer pending when the handler    *)
(* ended (the sweep, Runtime.clear).                                        *)
ReplayExplained == replayed \subseteq evicted \cup unacked

(* No acknowledgement is awaited for an event that has been handled, has    *)
(* failed or was cleared (ack, nack, clear).                                *)
NoStalePending ==
  \A c \in pendingAcks : stage[c] \notin {"handled", "failed", "cleared"}

(* A buffered event always has a flush to come (addToBatch, flushBatch).    *)
BufferHasTimer == batchQueue # <<>> => batchTimer

(* The sound states of the buffer and of the acknowledgements.              *)
DeliveryOK == DeliveryTypeOK /\ NoStalePending /\ BufferHasTimer

(* Every emitted event is put to the queue in the end, however the flushes  *)
(* overlap and whatever the queue refuses (flushBatch).                     *)
EmittedIsOffered == \A c \in Calls : c \in emitted ~> stage[c] # "new"

=============================================================================
