------------------------ MODULE KernelContextProofs ------------------------
(***************************************************************************)
(* What KernelContext promises, for any keys, any number of concurrent     *)
(* calls and any number of writes.                                         *)
(***************************************************************************)
EXTENDS KernelContext, TLAPS

(* Unless the data were replaced under it, a queued update is the value     *)
(* last written.                                                            *)
QueueCurrent == \A k \in Keys : queue[k] # 0 => queue[k] = data[k] \/ k \in carried

(* Until a resume leaves a timer without a queue, each has the other.       *)
TimerWithQueue == ~orphaned => timer = (IF queue = Empty THEN "off" ELSE "armed")

(* A snapshot no kernel was resumed from holds what it captured, and only   *)
(* one a kernel was resumed from is written through.                        *)
SnapshotsWhole ==
  /\ \A s \in stored : s \notin resumed => content[s] = s
  /\ shared # None /\ shared \in stored => shared \in resumed
  /\ \A c \in Callers : op[c].at = "loading" => op[c].snapshot \in stored

ContextInv ==
  /\ ContextTypeOK
  /\ StaleReadExplained /\ QueueCurrent
  /\ TimerWithQueue
  /\ SnapshotsWhole

-----------------------------------------------------------------------------
LEMMA Bounds == MaxWrites \in Nat /\ MaxFaults \in Nat /\ Empty \in Data /\ Idle.at = "idle"
                /\ Idle \in [at : Steps, snapshot : Data]
BY ContextAssumption DEF Empty, Data, Idle, Steps

(* A value written is in the queue, so that the queue is not empty.         *)
LEMMA WriteQueues ==
  ASSUME ContextTypeOK, NEW k \in Keys, setContext(k)
  PROVE  /\ writes' \in 1..MaxWrites
         /\ data' \in Data /\ queue' \in Data
         /\ data'[k] = writes' /\ queue'[k] = writes' /\ queue' # Empty
         /\ \A j \in Keys \ {k} : data'[j] = data[j] /\ queue'[j] = queue[j]
<1>1. writes' \in 1..MaxWrites /\ writes' \in 0..MaxWrites /\ writes' # 0
  BY Bounds DEF ContextTypeOK, setContext
<1>2. data' = [data EXCEPT ![k] = writes'] /\ queue' = [queue EXCEPT ![k] = writes']
  BY DEF setContext
<1>3. data \in Data /\ queue \in Data
  BY DEF ContextTypeOK
<1>4. queue'[k] # Empty[k]
  BY <1>1, <1>2, <1>3 DEF Data, Empty
<1> QED
  BY <1>1, <1>2, <1>3, <1>4 DEF Data

(* flushContextUpdates moves the queue to the cache and leaves the data.    *)
LEMMA FlushKeeps ==
  ASSUME ContextInv, Flush, UNCHANGED <<data, carried, orphaned>>
  PROVE  /\ cache' \in Data /\ queue' = Empty
         /\ timer' \in {"off", "armed", "fired"}
         /\ StaleReadExplained' /\ QueueCurrent' /\ TimerWithQueue'
<1> USE DEF ContextInv, ContextTypeOK
<1>1. CASE queue = Empty /\ UNCHANGED batchVars
  BY <1>1, Bounds DEF batchVars, StaleReadExplained, QueueCurrent, TimerWithQueue
<1>2. CASE /\ cache' = [k \in Keys |-> IF queue[k] # 0 THEN queue[k] ELSE cache[k]]
           /\ queue' = Empty /\ timer' = "off"
  <2>1. cache' \in Data
    BY <1>2 DEF Data
  <2>2. StaleReadExplained'
    <3> SUFFICES ASSUME NEW k \in Keys, cache'[k] # 0, cache'[k] # data[k]
                 PROVE  k \in carried
      BY DEF StaleReadExplained
    <3>1. CASE queue[k] # 0
      BY <1>2, <3>1 DEF QueueCurrent
    <3>2. CASE queue[k] = 0
      BY <1>2, <3>2 DEF StaleReadExplained
    <3> QED
      BY <3>1, <3>2
  <2>3. QueueCurrent' /\ TimerWithQueue'
    BY <1>2 DEF QueueCurrent, TimerWithQueue, Empty
  <2> QED
    BY <1>2, <2>1, <2>2, <2>3
<1> QED
  BY <1>1, <1>2 DEF Flush

(* cleanupPerformanceOptimizations leaves nothing to be stale.              *)
LEMMA CleanupKeeps ==
  ASSUME ContextInv, CleanupPerformance
  PROVE  /\ cache' \in Data /\ queue' = Empty /\ timer' = "off"
         /\ carried' \subseteq Keys /\ orphaned' \in BOOLEAN
         /\ StaleReadExplained' /\ QueueCurrent' /\ TimerWithQueue'
BY Bounds DEF ContextInv, ContextTypeOK, CleanupPerformance, StaleReadExplained, QueueCurrent,
              TimerWithQueue, Empty

(* A call that goes on keeps its snapshot.                                  *)
LEMMA GoesKeeps ==
  ASSUME ContextInv, NEW c \in Callers, NEW at \in Steps \ {"loading"}, Goes(c, at),
         UNCHANGED <<stored, content, shared, resumed>>
  PROVE  op' \in [Callers -> [at : Steps, snapshot : Data]] /\ SnapshotsWhole'
<1>1. op' \in [Callers -> [at : Steps, snapshot : Data]]
  BY DEF ContextInv, ContextTypeOK, Goes
<1>2. \A d \in Callers : op'[d].at = "loading" => op[d].at = "loading" /\ op'[d] = op[d]
  BY DEF ContextInv, ContextTypeOK, Goes
<1> QED
  BY <1>1, <1>2 DEF ContextInv, SnapshotsWhole

(* So does the end of a call that replaces the data by none.                *)
LEMMA ReplaceKeeps ==
  ASSUME ContextInv, Replace
  PROVE  /\ data' \in Data /\ shared' = None /\ carried' \subseteq Keys
         /\ StaleReadExplained' /\ QueueCurrent' /\ TimerWithQueue'
<1>1. \A k \in Keys : cache[k] # 0 \/ queue[k] # 0 => k \in carried'
  BY DEF Replace
<1>2. UNCHANGED <<cache, queue, timer, orphaned>>
  BY DEF Replace, batchVars
<1>3. StaleReadExplained' /\ QueueCurrent' /\ TimerWithQueue'
  BY <1>1, <1>2 DEF ContextInv, StaleReadExplained, QueueCurrent, TimerWithQueue
<1> QED
  BY <1>3, Bounds DEF Replace

-----------------------------------------------------------------------------
LEMMA InvHolds == ContextSpec => []ContextInv
<1>1. ContextInit => ContextInv
  <2> SUFFICES ASSUME ContextInit PROVE ContextInv
    OBVIOUS
  <2>1. ContextTypeOK
    <3>1. op \in [Callers -> [at : Steps, snapshot : Data]]
      BY Bounds DEF ContextInit
    <3>2. content \in [Data -> Data]
      BY DEF ContextInit
    <3>3. data \in Data /\ cache \in Data /\ queue \in Data /\ shared \in Data \cup {None}
      BY Bounds DEF ContextInit
    <3>4. writes \in 0..MaxWrites /\ faults \in 0..MaxFaults
      BY Bounds DEF ContextInit
    <3> QED
      BY <3>1, <3>2, <3>3, <3>4 DEF ContextInit, ContextTypeOK
  <2>2. StaleReadExplained /\ QueueCurrent /\ TimerWithQueue
    BY DEF ContextInit, StaleReadExplained, QueueCurrent, TimerWithQueue, Empty
  <2>3. SnapshotsWhole
    BY Bounds DEF ContextInit, SnapshotsWhole
  <2> QED
    BY <2>1, <2>2, <2>3 DEF ContextInv
<1>2. ContextInv /\ [ContextNext]_contextVars => ContextInv'
  <2> SUFFICES ASSUME ContextInv, [ContextNext]_contextVars PROVE ContextInv'
    OBVIOUS
  <2> USE DEF dataVars, batchVars, historyVars
  <2>t. ContextTypeOK /\ StaleReadExplained /\ QueueCurrent /\ TimerWithQueue /\ SnapshotsWhole
    BY DEF ContextInv
  <2>1. ASSUME NEW k \in Keys, setContext(k) PROVE ContextInv'
    <3>w. /\ writes' \in 1..MaxWrites
          /\ data' \in Data /\ queue' \in Data
          /\ data'[k] = writes' /\ queue'[k] = writes' /\ queue' # Empty
          /\ \A j \in Keys \ {k} : data'[j] = data[j] /\ queue'[j] = queue[j]
      BY <2>1, <2>t, WriteQueues
    <3>n. shared # None \/ shared \notin stored
      BY <2>t DEF ContextTypeOK, Data, None
    <3>1. ContextTypeOK'
      <4>1. content' \in [Data -> Data]
        BY <2>1, <2>t, <3>w DEF setContext, ContextTypeOK
      <4>2. timer' \in {"off", "armed", "fired"} /\ carried' \subseteq Keys
        BY <2>1, <2>t DEF setContext, ContextTypeOK
      <4> QED
        BY <2>1, <2>t, <3>w, <4>1, <4>2 DEF setContext, ContextTypeOK
    <3>2. StaleReadExplained' /\ QueueCurrent'
      <4>1. UNCHANGED cache /\ carried' = carried \ {k}
        BY <2>1 DEF setContext
      <4>2. writes' # 0
        BY <3>w
      <4> QED
        BY <2>t, <3>w, <4>1, <4>2 DEF StaleReadExplained, QueueCurrent
    <3>3. TimerWithQueue'
      BY <2>1, <2>t, <3>w DEF setContext, TimerWithQueue
    <3>4. SnapshotsWhole'
      <4>1. \A s \in stored : s # shared => content'[s] = content[s]
        BY <2>1, <2>t DEF setContext, ContextTypeOK
      <4> QED
        BY <2>1, <2>t, <3>n, <4>1 DEF setContext, SnapshotsWhole
    <3> QED
      BY <3>1, <3>2, <3>3, <3>4 DEF ContextInv
  <2>2. ASSUME NEW k \in Keys, getContext(k) PROVE ContextInv'
    <3>1. ContextTypeOK'
      BY <2>2, <2>t DEF getContext, ContextTypeOK, Data
    <3>2. StaleReadExplained'
      BY <2>2, <2>t DEF getContext, ContextTypeOK, Data, StaleReadExplained
    <3> QED
      BY <2>2, <2>t, <3>1, <3>2 DEF getContext, ContextInv, QueueCurrent, TimerWithQueue, SnapshotsWhole
  <2>3. ASSUME NEW k \in Keys, Evict(k) PROVE ContextInv'
    <3>1. ContextTypeOK'
      BY <2>3, <2>t, Bounds DEF Evict, ContextTypeOK, Data
    <3>2. StaleReadExplained'
      BY <2>3, <2>t DEF Evict, ContextTypeOK, Data, StaleReadExplained
    <3> QED
      BY <2>3, <2>t, <3>1, <3>2 DEF Evict, ContextInv, QueueCurrent, TimerWithQueue, SnapshotsWhole
  <2>4. ASSUME TimerFires PROVE ContextInv'
    <3>1. CASE queue # Empty /\ Flush
      BY <2>4, <2>t, <3>1, FlushKeeps, Bounds DEF TimerFires, ContextInv, ContextTypeOK, SnapshotsWhole
    <3>2. CASE queue = Empty /\ timer' = "fired" /\ UNCHANGED <<cache, queue>>
      <4>1. orphaned
        BY <2>4, <2>t, <3>2 DEF TimerFires, TimerWithQueue
      <4> QED
        BY <2>4, <2>t, <3>2, <4>1 DEF TimerFires, ContextInv, ContextTypeOK, SnapshotsWhole,
           StaleReadExplained, QueueCurrent, TimerWithQueue
    <3> QED
      BY <2>4, <3>1, <3>2 DEF TimerFires
  <2>5. ASSUME NEW c \in Callers, PauseBegins(c) \/ SnapshotFlushes(c) \/ CompleteBegins(c)
        PROVE  ContextInv'
    <3>1. /\ Flush
          /\ \E at \in Steps \ {"loading"} : Goes(c, at)
          /\ UNCHANGED <<status, dataVars, writes, faults, historyVars>>
      BY <2>5 DEF PauseBegins, SnapshotFlushes, CompleteBegins, Steps
    <3>2. op' \in [Callers -> [at : Steps, snapshot : Data]] /\ SnapshotsWhole'
      BY <3>1, GoesKeeps
    <3> QED
      BY <2>t, <3>1, <3>2, FlushKeeps, Bounds DEF ContextInv, ContextTypeOK
  <2>6. ASSUME NEW c \in Callers, SnapshotCopies(c) PROVE ContextInv'
    <3>1. op' \in [Callers -> [at : Steps, snapshot : Data]]
      BY <2>6, <2>t DEF SnapshotCopies, ContextTypeOK, Steps
    <3>2. \A d \in Callers : op'[d].at = "loading" => op[d].at = "loading" /\ op'[d] = op[d]
      BY <2>6, <2>t DEF SnapshotCopies, ContextTypeOK
    <3>3. SnapshotsWhole'
      BY <2>6, <2>t, <3>2 DEF SnapshotCopies, SnapshotsWhole
    <3> QED
      BY <2>6, <2>t, <3>1, <3>3 DEF SnapshotCopies, ContextInv, ContextTypeOK,
         StaleReadExplained, QueueCurrent, TimerWithQueue
  <2>7. ASSUME NEW c \in Callers, PauseEnds(c) PROVE ContextInv'
    <3> DEFINE s == op[c].snapshot
    <3>0. s \in Data /\ op' = [op EXCEPT ![c] = Idle]
      BY <2>7, <2>t DEF PauseEnds, ContextTypeOK
    <3>1. op' \in [Callers -> [at : Steps, snapshot : Data]]
      BY <2>t, <3>0, Bounds DEF ContextTypeOK
    <3>2. \A d \in Callers : op'[d].at = "loading" => op[d].at = "loading" /\ op'[d] = op[d]
      BY <2>t, <3>0, Bounds DEF ContextTypeOK
    <3>3. UNCHANGED <<data, batchVars, writes, carried, orphaned>>
      BY <2>7 DEF PauseEnds
    <3>4. StaleReadExplained' /\ QueueCurrent' /\ TimerWithQueue'
      BY <2>t, <3>3 DEF StaleReadExplained, QueueCurrent, TimerWithQueue
    <3>5. CASE /\ stored' = stored \cup {s}
               /\ content' = [content EXCEPT ![s] = s]
               /\ shared' = IF shared = s THEN None ELSE shared
               /\ status' = "paused"
               /\ resumed' = resumed \ {s}
               /\ UNCHANGED faults
      <4>1. ContextTypeOK'
        BY <2>t, <3>0, <3>1, <3>3, <3>5 DEF ContextTypeOK
      <4>2. \A x \in stored' : x \notin resumed' => content'[x] = x
        BY <2>t, <3>0, <3>5 DEF ContextTypeOK, SnapshotsWhole
      <4>3. SnapshotsWhole'
        BY <2>t, <3>0, <3>2, <3>5, <4>2 DEF SnapshotsWhole
      <4> QED
        BY <3>4, <4>1, <4>3 DEF ContextInv
    <3>6. CASE /\ faults < MaxFaults
               /\ faults' = faults + 1
               /\ UNCHANGED <<status, stored, content, shared, resumed>>
      <4>1. ContextTypeOK'
        BY <2>t, <3>1, <3>3, <3>6, Bounds DEF ContextTypeOK
      <4> QED
        BY <2>t, <3>2, <3>4, <3>6, <4>1 DEF ContextInv, SnapshotsWhole
    <3> QED
      BY <2>7, <3>5, <3>6 DEF PauseEnds
  <2>8. ASSUME NEW c \in Callers, NEW s \in stored, ResumeBegins(c, s) PROVE ContextInv'
    <3>1. op' \in [Callers -> [at : Steps, snapshot : Data]]
      BY <2>8, <2>t DEF ResumeBegins, ContextTypeOK, Steps
    <3>2. \A d \in Callers : op'[d].at = "loading" => op'[d].snapshot \in stored
      BY <2>8, <2>t DEF ResumeBegins, ContextTypeOK, SnapshotsWhole
    <3>3. SnapshotsWhole'
      BY <2>8, <2>t, <3>2 DEF ResumeBegins, SnapshotsWhole
    <3> QED
      BY <2>8, <2>t, <3>1, <3>3 DEF ResumeBegins, ContextInv, ContextTypeOK,
         StaleReadExplained, QueueCurrent, TimerWithQueue
  <2>9. ASSUME NEW c \in Callers, ResumeEnds(c) PROVE ContextInv'
    <3> DEFINE s == op[c].snapshot
    <3>0. /\ s \in Data /\ op' = [op EXCEPT ![c] = Idle]
          /\ data' = content[s] /\ shared' = s /\ cache' = Empty /\ queue' = Empty
          /\ status' = "running" /\ resumed' = resumed \cup {s} /\ carried' = {}
          /\ orphaned' = (orphaned \/ timer = "armed")
          /\ UNCHANGED <<timer, stored, content, writes, faults>>
      BY <2>9, <2>t DEF ResumeEnds, Restore, ContextTypeOK
    <3>1. op' \in [Callers -> [at : Steps, snapshot : Data]]
      BY <2>t, <3>0, Bounds DEF ContextTypeOK
    <3>2. \A d \in Callers : op'[d].at = "loading" => op[d].at = "loading" /\ op'[d] = op[d]
      BY <2>t, <3>0, Bounds DEF ContextTypeOK
    <3> HIDE DEF s
    <3>3. ContextTypeOK'
      BY <2>t, <3>0, <3>1, Bounds DEF ContextTypeOK
    <3>4. StaleReadExplained' /\ QueueCurrent'
      BY <3>0 DEF StaleReadExplained, QueueCurrent, Empty
    <3>5. TimerWithQueue'
      BY <2>t, <3>0 DEF TimerWithQueue
    <3>6. SnapshotsWhole'
      BY <2>t, <3>0, <3>2 DEF SnapshotsWhole
    <3> QED
      BY <3>3, <3>4, <3>5, <3>6 DEF ContextInv
  <2>10. ASSUME NEW c \in Callers, CompleteEnds(c) PROVE ContextInv'
    <3>1. op' = [op EXCEPT ![c] = Idle] /\ CleanupPerformance /\ status' = "completed"
          /\ UNCHANGED <<dataVars, writes, faults, resumed>>
      BY <2>10 DEF CompleteEnds
    <3>2. op' \in [Callers -> [at : Steps, snapshot : Data]]
      BY <2>t, <3>1, Bounds DEF ContextTypeOK
    <3>3. \A d \in Callers : op'[d].at = "loading" => op[d].at = "loading" /\ op'[d] = op[d]
      BY <2>t, <3>1, Bounds DEF ContextTypeOK
    <3>4. SnapshotsWhole'
      BY <2>t, <3>1, <3>3 DEF SnapshotsWhole
    <3> QED
      BY <2>t, <3>1, <3>2, <3>4, CleanupKeeps, Bounds DEF ContextInv, ContextTypeOK
  <2>11. ASSUME NEW c \in Callers, ResetBegins(c) PROVE ContextInv'
    <3>1. /\ CleanupPerformance /\ Goes(c, "resetting")
          /\ UNCHANGED <<status, dataVars, writes, faults, resumed>>
      BY <2>11 DEF ResetBegins
    <3>2. op' \in [Callers -> [at : Steps, snapshot : Data]] /\ SnapshotsWhole'
      BY <3>1, GoesKeeps DEF Steps
    <3> QED
      BY <2>t, <3>1, <3>2, CleanupKeeps, Bounds DEF ContextInv, ContextTypeOK
  <2>12. ASSUME NEW c \in Callers, ResetEnds(c) PROVE ContextInv'
    <3>1. op' = [op EXCEPT ![c] = Idle] /\ Replace /\ status' = "initialized"
      BY <2>12 DEF ResetEnds
    <3>2. op' \in [Callers -> [at : Steps, snapshot : Data]]
      BY <2>t, <3>1, Bounds DEF ContextTypeOK
    <3>3. \A d \in Callers : op'[d].at = "loading" => op[d].at = "loading" /\ op'[d] = op[d]
      BY <2>t, <3>1, Bounds DEF ContextTypeOK
    <3>4. SnapshotsWhole'
      BY <2>t, <3>1, <3>3 DEF Replace, SnapshotsWhole
    <3> QED
      BY <2>t, <3>1, <3>2, <3>4, ReplaceKeeps DEF Replace, ContextInv, ContextTypeOK
  <2>13. ASSUME Initialize PROVE ContextInv'
    <3>1. UNCHANGED op /\ Replace /\ status' = "running"
      BY <2>13 DEF Initialize
    <3>2. SnapshotsWhole'
      BY <2>t, <3>1 DEF Replace, SnapshotsWhole
    <3> QED
      BY <2>t, <3>1, <3>2, ReplaceKeeps DEF Replace, ContextInv, ContextTypeOK
  <2>14. CASE UNCHANGED contextVars
    BY <2>14, <2>t DEF contextVars, ContextInv, ContextTypeOK, StaleReadExplained, QueueCurrent,
       TimerWithQueue, SnapshotsWhole
  <2> QED
    BY <2>1, <2>2, <2>3, <2>4, <2>5, <2>6, <2>7, <2>8, <2>9, <2>10, <2>11, <2>12, <2>13, <2>14
       DEF ContextNext
<1> QED
  BY <1>1, <1>2, PTL DEF ContextSpec

-----------------------------------------------------------------------------
(* Every variable keeps its type through every interleaving (kernel.ts).    *)
THEOREM ContextTyped == ContextSpec => []ContextTypeOK
<1>1. ContextInv => ContextTypeOK
  BY DEF ContextInv
<1> QED
  BY <1>1, InvHolds, PTL

(* A stale cached read has one of the two reasons, for any number of keys   *)
(* and calls (getContext).                                                  *)
THEOREM StaleReadsHaveReasons == ContextSpec => []StaleReadExplained
<1>1. ContextInv => StaleReadExplained
  BY DEF ContextInv
<1> QED
  BY <1>1, InvHolds, PTL

(* Until a resume has dropped a queue, no queued update is without its      *)
(* timer (setContext, flushContextUpdates).                                 *)
THEOREM UpdatesAreFlushed == ContextSpec => []QueueHasTimer
<1>1. ContextInv => QueueHasTimer
  BY DEF ContextInv, TimerWithQueue, QueueHasTimer
<1> QED
  BY <1>1, InvHolds, PTL

(* The first resume from a snapshot finds what it captured, whatever was    *)
(* written and paused in the meantime (restoreFromSnapshot).                *)
THEOREM FirstResumeExact == ContextSpec => ResumeExplained
<1> DEFINE Exact == \A c \in Callers :
      op[c].at = "loading" /\ op'[c].at = "idle" =>
        \/ data' = op[c].snapshot
        \/ op[c].snapshot \in resumed
<1>1. ContextInv /\ [ContextNext]_contextVars => [Exact]_contextVars
  <2> SUFFICES ASSUME ContextInv, ContextNext, NEW c \in Callers,
                      op[c].at = "loading", op'[c].at = "idle"
               PROVE  data' = op[c].snapshot \/ op[c].snapshot \in resumed
    BY DEF contextVars
  <2>t. op \in [Callers -> [at : Steps, snapshot : Data]] /\ SnapshotsWhole
    BY DEF ContextInv, ContextTypeOK
  <2>1. op'[c] # op[c]
    OBVIOUS
  <2>2. ResumeEnds(c)
    <3>1. ASSUME NEW d \in Callers, op[d].at # "loading" \/ d # c, NEW to, op' = [op EXCEPT ![d] = to]
          PROVE  FALSE
      BY <2>t, <2>1, <3>1
    <3>2. ASSUME NEW d \in Callers, op[d].at # "loading", NEW at, Goes(d, at)
          PROVE  FALSE
      BY <2>t, <2>1, <3>2 DEF Goes
    <3>3. ASSUME UNCHANGED op
          PROVE  FALSE
      BY <2>1, <3>3
    <3>4. ASSUME NEW k \in Keys, setContext(k) \/ getContext(k) \/ Evict(k) PROVE FALSE
      BY <3>3, <3>4 DEF setContext, getContext, Evict
    <3>5. ~TimerFires /\ ~Initialize
      BY <3>3 DEF TimerFires, Initialize
    <3>6. ASSUME NEW d \in Callers, PauseBegins(d) \/ SnapshotFlushes(d) \/ CompleteBegins(d) \/ ResetBegins(d)
          PROVE  FALSE
      BY <3>2, <3>6 DEF PauseBegins, SnapshotFlushes, CompleteBegins, ResetBegins
    <3>7. ASSUME NEW d \in Callers, SnapshotCopies(d) \/ PauseEnds(d) \/ CompleteEnds(d) \/ ResetEnds(d)
          PROVE  FALSE
      BY <3>1, <3>7 DEF SnapshotCopies, PauseEnds, CompleteEnds, ResetEnds
    <3>8. ASSUME NEW d \in Callers, NEW s \in stored, ResumeBegins(d, s) PROVE FALSE
      BY <3>1, <3>8 DEF ResumeBegins
    <3>9. ASSUME NEW d \in Callers, ResumeEnds(d) PROVE d = c
      BY <3>1, <3>9 DEF ResumeEnds
    <3> QED
      BY <3>4, <3>5, <3>6, <3>7, <3>8, <3>9 DEF ContextNext
  <2>3. op[c].snapshot \in stored /\ data' = content[op[c].snapshot]
    BY <2>2, <2>t DEF ResumeEnds, Restore, SnapshotsWhole
  <2> QED
    BY <2>3, <2>t DEF SnapshotsWhole
<1> QED
  BY <1>1, InvHolds, PTL DEF ContextSpec, ResumeExplained
=============================================================================
