---------------------------- MODULE EventProcessor ----------------------------
(***************************************************************************)
(* kodus-flow's OptimizedEventProcessor: the handlers registered for each  *)
(* type of event, the sweep that drops those that have not been used for   *)
(* staleThreshold, and the events that are processed at the same time.     *)
(* All of them share one depth counter.                                    *)
(*                                                                         *)
(* A handler ends with no result, with an event, or with an error.  The    *)
(* type of a returned event is on the chain before processEventInternal    *)
(* looks for loops, so that every returned event is taken for a loop and   *)
(* fails its handler; nothing is ever processed at a second level.         *)
(***************************************************************************)
EXTENDS Integers, FiniteSets, Sequences, SequencesExt

CONSTANTS
  Events,     \* events passed to processEvent
  Types,      \* types of events
  Wild,        \* stands for the list of wildcard handlers
  Handlers,   \* handler functions
  Kind,       \* the type of each event
  MaxDepth,   \* maxEventDepth
  BatchSize,  \* batchSize
  MaxChanges  \* bound on the registrations, clearings and cleanups

ASSUME ProcessorAssumption ==
  /\ IsFiniteSet(Events)
  /\ Wild \notin Types
  /\ Kind \in [Events -> Types]
  /\ MaxDepth \in Nat \ {0}
  /\ BatchSize \in Nat \ {0}
  /\ MaxChanges \in Nat

VARIABLES
  lists,     \* handlers of each type, in the order of their registration
  lastUsed,  \* when each handler function was used: never, recently, long ago
  changes,   \* registrations, clearings and cleanups so far
  sweeping,  \* the interval of the sweep runs
  depth,     \* processingDepth
  work,      \* how far the processing of each event is
  meant,     \* history: handlers registered in each list since it was cleared
  dropped,   \* history: those of them that a sweep has dropped
  expected,  \* history: handlers an event should have met when it started
  cut        \* history: events under way at the last cleanup

processorVars == <<lists, lastUsed, changes, sweeping, depth, work, meant,
                   dropped, expected, cut>>

Lists == Types \cup {Wild}

(* Handlers are called in chunks: all those from 1 to reached have been     *)
(* called, those in busy have not ended, those in failed did with an error. *)
Idle == [phase |-> "new", plan |-> <<>>, reached |-> 0, busy |-> {}, failed |-> {}]

ProcessorInit ==
  /\ lists = [t \in Lists |-> <<>>]
  /\ lastUsed = [h \in Handlers |-> "never"]
  /\ changes = 0
  /\ sweeping = TRUE
  /\ depth = 0
  /\ work = [e \in Events |-> Idle]
  /\ meant = [t \in Lists |-> {}]
  /\ dropped = {}
  /\ expected = [e \in Events |-> {}]
  /\ cut = 0

-----------------------------------------------------------------------------
Change ==
  /\ changes < MaxChanges
  /\ changes' = changes + 1

(* The registered handlers and the sweep.  A function that is registered    *)
(* once more keeps the time of its last use.                                *)
Register(t, h) ==
  /\ Change
  /\ lists' = [lists EXCEPT ![t] = Append(@, h)]
  /\ meant' = [meant EXCEPT ![t] = @ \cup {h}]
  /\ dropped' = dropped \ {<<t, h>>}
  /\ UNCHANGED <<lastUsed, sweeping, depth, work, expected, cut>>

GrowStale(h) ==
  /\ lastUsed[h] = "recent"
  /\ lastUsed' = [lastUsed EXCEPT ![h] = "stale"]
  /\ UNCHANGED <<changes, lists, sweeping, depth, work, meant, dropped, expected, cut>>

IsRecent(h) == lastUsed[h] # "stale"

(* What is left of a list, in its order: SelectSeq(list, IsRecent), of      *)
(* which the prover knows nothing, spelled out by place.                    *)
Kept(list) ==
  LET places == {i \in 1..Len(list) : IsRecent(list[i])}
      upTo(i) == Cardinality({j \in places : j <= i})
  IN  [k \in 1..Cardinality(places) |-> list[CHOOSE i \in places : upTo(i) = k]]

Sweep ==
  /\ sweeping
  /\ lists' = [t \in Lists |-> Kept(lists[t])]
  /\ dropped' = dropped \cup
       {p \in Lists \X Handlers : Contains(lists[p[1]], p[2]) /\ ~IsRecent(p[2])}
  /\ UNCHANGED <<changes, lastUsed, sweeping, depth, work, meant, expected, cut>>

ClearLists ==
  /\ Change
  /\ lists' = [t \in Lists |-> <<>>]
  /\ sweeping' = FALSE
  /\ meant' = [t \in Lists |-> {}]
  /\ dropped' = {}

ClearHandlers ==
  /\ ClearLists
  /\ UNCHANGED <<lastUsed, depth, work, expected, cut>>

Active == {e \in Events : work[e].phase = "running"}

(* cleanup does not wait for the events that are being processed.           *)
Cleanup ==
  /\ ClearLists
  /\ depth' = 0
  /\ cut' = Cardinality(Active)
  /\ UNCHANGED <<lastUsed, work, expected>>

-----------------------------------------------------------------------------
(* Few handlers are called one after the other, and the first error ends    *)
(* the event; more than a batch of them in batches that ignore errors.      *)
Batched(plan) == Len(plan) > BatchSize

ChunkEnd(plan, n) ==
  LET end == n + (IF Batched(plan) THEN BatchSize ELSE 1)
  IN  IF end > Len(plan) THEN Len(plan) ELSE end

HandlersOf(t) == lists[t] \o lists[Wild]

Registered(t) ==
  {h \in Handlers : \E l \in {t, Wild} : h \in meant[l] /\ <<l, h>> \notin dropped}

Refuse(e) ==
  /\ work[e].phase = "new"
  /\ depth >= MaxDepth
  /\ work' = [work EXCEPT ![e].phase = "refused"]
  /\ UNCHANGED <<changes, lists, lastUsed, sweeping, depth, meant, dropped, expected, cut>>

(* processEvent up to the first await of the first handlers.  Looking up    *)
(* the handlers is a use of them.                                           *)
Start(e) ==
  LET plan == HandlersOf(Kind[e])
  IN  /\ work[e].phase = "new"
      /\ depth < MaxDepth
      /\ lastUsed' = [h \in Handlers |-> IF Contains(plan, h) THEN "recent" ELSE lastUsed[h]]
      /\ expected' = [expected EXCEPT ![e] = Registered(Kind[e])]
      /\ \/ /\ plan = <<>>
            /\ work' = [work EXCEPT ![e].phase = "handled"]
            /\ UNCHANGED depth
         \/ /\ plan # <<>>
            /\ work' = [work EXCEPT ![e] =
                 [phase |-> "running", plan |-> plan, reached |-> ChunkEnd(plan, 0),
                  busy |-> 1..ChunkEnd(plan, 0), failed |-> {}]]
            /\ depth' = depth + 1
      /\ UNCHANGED <<changes, lists, sweeping, meant, dropped, cut>>

\* Mutant of Finish: an event that fails leaves the depth as it is.
FinishLeaking(e, phase, failed) ==
  /\ work' = [work EXCEPT ![e].phase = phase, ![e].busy = {}, ![e].failed = failed]
  /\ depth' = IF phase = "failed" THEN depth ELSE depth - 1

(* An event whose processing comes to its end (finally).                    *)
Finish(e, phase, failed) ==
  /\ work' = [work EXCEPT ![e].phase = phase, ![e].busy = {}, ![e].failed = failed]
  /\ depth' = depth - 1

\* Mutant of Proceed: an error does not stop the handlers that follow.
ProceedAnyway(e, i, fine) ==
  LET w      == work[e]
      busy   == w.busy \ {i}
      failed == IF fine THEN w.failed ELSE w.failed \cup {i}
  IN  \/ /\ busy = {}
         /\ w.reached = Len(w.plan)
         /\ Finish(e, "handled", failed)
      \/ /\ busy # {} \/ w.reached < Len(w.plan)
         /\ LET end == IF busy = {} THEN ChunkEnd(w.plan, w.reached) ELSE w.reached
            IN  work' = [work EXCEPT ![e].busy = busy \cup (w.reached + 1)..end,
                                     ![e].reached = end, ![e].failed = failed]
         /\ UNCHANGED depth

(* What follows when the i-th handler has ended: the next of the chunk are  *)
(* waited for, the next chunk is called, or the event is done.              *)
Proceed(e, i, fine) ==
  LET w      == work[e]
      busy   == w.busy \ {i}
      failed == IF fine THEN w.failed ELSE w.failed \cup {i}
  IN  \/ /\ ~fine /\ ~Batched(w.plan)
         /\ Finish(e, "failed", failed)
      \/ /\ fine \/ Batched(w.plan)
         /\ busy = {} /\ w.reached = Len(w.plan)
         /\ Finish(e, "handled", failed)
      \/ /\ fine \/ Batched(w.plan)
         /\ busy # {} \/ w.reached < Len(w.plan)
         /\ LET end == IF busy = {} THEN ChunkEnd(w.plan, w.reached) ELSE w.reached
            IN  work' = [work EXCEPT ![e].busy = busy \cup (w.reached + 1)..end,
                                     ![e].reached = end, ![e].failed = failed]
         /\ UNCHANGED depth

(* A handler that returns, whatever it returns, has been used once more.    *)
HandlerEnds(e, i, result) ==
  /\ i \in work[e].busy
  /\ Proceed(e, i, result = "nothing")
  /\ lastUsed' = IF result = "error" THEN lastUsed
                 ELSE [lastUsed EXCEPT ![work[e].plan[i]] = "recent"]
  /\ UNCHANGED <<changes, lists, sweeping, meant, dropped, expected, cut>>

-----------------------------------------------------------------------------
ProcessorNext ==
  \/ \E t \in Lists, h \in Handlers : Register(t, h)
  \/ \E h \in Handlers : GrowStale(h)
  \/ Sweep \/ ClearHandlers \/ Cleanup
  \/ \E e \in Events :
       \/ Refuse(e) \/ Start(e)
       \/ \E i \in work[e].busy, result \in {"nothing", "event", "error"} :
            HandlerEnds(e, i, result)

ProcessorSpec == ProcessorInit /\ [][ProcessorNext]_processorVars

-----------------------------------------------------------------------------
Phases == {"new", "refused", "running", "handled", "failed"}

ProcessorTypeOK ==
  /\ lists \in [Lists -> Seq(Handlers)]
  /\ lastUsed \in [Handlers -> {"never", "recent", "stale"}]
  /\ changes \in 0..MaxChanges
  /\ sweeping \in BOOLEAN
  /\ depth \in Int
  /\ work \in [Events -> [phase : Phases, plan : Seq(Handlers), reached : Nat,
                          busy : SUBSET Nat, failed : SUBSET Nat]]
  /\ meant \in [Lists -> SUBSET Handlers]
  /\ dropped \subseteq Lists \X Handlers
  /\ expected \in [Events -> SUBSET Handlers]
  /\ cut \in Nat

(* The depth counts the events being processed, whichever way they end,     *)
(* less those a cleanup found under way: after it, as many more than        *)
(* maxEventDepth may run at once (processEventInternal, cleanup).           *)
DepthCounts ==
  /\ depth = Cardinality(Active) - cut
  /\ Cardinality(Active) <= MaxDepth + cut

(* An event counts as handled although a handler registered for its type    *)
(* when it started did not see it through only if a sweep had dropped the   *)
(* handler as long unused, or if there were more handlers than a batch,     *)
(* whose errors are ignored (processHandlersBatch, cleanupStaleHandlers).   *)
HandledExplained ==
  \A e \in Events : work[e].phase = "handled" =>
    \A h \in expected[e] : \E i \in 1..Len(work[e].plan) :
      /\ work[e].plan[i] = h
      /\ i \notin work[e].failed \/ Batched(work[e].plan)
=============================================================================
