---------------------------- MODULE KernelContext ----------------------------
(***************************************************************************)
(* The context data of a kodus-flow kernel as MultiKernelManager sets one  *)
(* up for an agent: with a cache in front of the data, updates that reach  *)
(* the cache in batches (a queue and a debounce timer), snapshots in the   *)
(* in-memory storage, pause, resume, complete and reset.                   *)
(*                                                                         *)
(* A snapshot is filed under the hash of the state it captured, so equal   *)
(* states have one snapshot: its identity is the data captured.  resume    *)
(* makes the stored object itself the data of the kernel.  Every operation *)
(* that awaits is split there, and calls interleave.                       *)
(***************************************************************************)
EXTENDS Integers, FiniteSets

CONSTANTS
  Keys,       \* keys of the context
  Callers,    \* concurrent calls of pause, resume, complete and reset
  MaxWrites,  \* bound on the values written
  MaxFaults   \* bound on the snapshots that cannot be stored

ASSUME ContextAssumption ==
  /\ MaxWrites \in Nat
  /\ MaxFaults \in Nat

VARIABLES
  status,   \* of the kernel
  data,     \* contextData: the value of each key, 0 if it has none
  cache,    \* contextCache, 0 for what is not cached
  queue,    \* contextUpdateQueue, 0 for what is not queued
  timer,    \* contextUpdateTimer: off, armed, or left set after it fired
  stored,   \* snapshots that are stored
  content,  \* what each of them holds by now
  shared,   \* the snapshot whose object is the kernel's data, if any
  op,       \* what each call is at
  writes, faults,
  carried,  \* history: keys cached or queued when their data was replaced
  orphaned, \* history: a resume dropped the queue and left its timer
  resumed   \* history: snapshots the kernel was resumed from

dataVars    == <<data, stored, content, shared>>
batchVars   == <<cache, queue, timer>>
historyVars == <<carried, orphaned, resumed>>
contextVars == <<status, dataVars, batchVars, op, writes, faults, historyVars>>

Data  == [Keys -> 0..MaxWrites]
Empty == [k \in Keys |-> 0]
None  == [k \in Keys |-> -1]
Idle  == [at |-> "idle", snapshot |-> Empty]

ContextInit ==
  /\ status = "running"
  /\ data = Empty /\ cache = Empty /\ queue = Empty
  /\ timer = "off"
  /\ stored = {}
  /\ content = [s \in Data |-> s]
  /\ shared = None
  /\ op = [c \in Callers |-> Idle]
  /\ writes = 0 /\ faults = 0
  /\ carried = {} /\ orphaned = FALSE /\ resumed = {}

-----------------------------------------------------------------------------
(* Reads and writes.  None of them looks at the status.                     *)
setContext(k) ==
  /\ writes < MaxWrites
  /\ writes' = writes + 1
  /\ data' = [data EXCEPT ![k] = writes']
  /\ content' = IF shared \in stored THEN [content EXCEPT ![shared] = data'] ELSE content
  /\ queue' = [queue EXCEPT ![k] = writes']
  /\ timer' = IF timer = "off" THEN "armed" ELSE timer
  /\ carried' = carried \ {k}
  /\ UNCHANGED <<status, cache, stored, shared, op, faults, orphaned, resumed>>

(* Looks in the cache first; only a value that is found is cached.          *)
getContext(k) ==
  /\ cache[k] = 0 /\ data[k] # 0
  /\ cache' = [cache EXCEPT ![k] = data[k]]
  /\ UNCHANGED <<status, dataVars, queue, timer, op, writes, faults, historyVars>>

(* An entry makes room for keys that are not modelled (evictLRU).           *)
Evict(k) ==
  /\ cache[k] # 0
  /\ cache' = [cache EXCEPT ![k] = 0]
  /\ UNCHANGED <<status, dataVars, queue, timer, op, writes, faults, historyVars>>

(* flushContextUpdates; with an empty queue it returns before it forgets    *)
(* the timer.                                                               *)
Flush ==
  \/ queue = Empty /\ UNCHANGED batchVars
  \/ /\ queue # Empty
     /\ cache' = [k \in Keys |-> IF queue[k] # 0 THEN queue[k] ELSE cache[k]]
     /\ queue' = Empty
     /\ timer' = "off"

TimerFires ==
  /\ timer = "armed"
  /\ \/ queue # Empty /\ Flush
     \/ queue = Empty /\ timer' = "fired" /\ UNCHANGED <<cache, queue>>
  /\ UNCHANGED <<status, dataVars, op, writes, faults, historyVars>>

-----------------------------------------------------------------------------
Goes(c, at) == op' = [op EXCEPT ![c].at = at]

(* pause: flush, then createSnapshot, which flushes again and copies, then  *)
(* the append; the status is looked at first and set last.                  *)
PauseBegins(c) ==
  /\ op[c].at = "idle"
  /\ status = "running"
  /\ Flush
  /\ Goes(c, "pausing")
  /\ UNCHANGED <<status, dataVars, writes, faults, historyVars>>

SnapshotFlushes(c) ==
  /\ op[c].at = "pausing"
  /\ Flush
  /\ Goes(c, "copying")
  /\ UNCHANGED <<status, dataVars, writes, faults, historyVars>>

SnapshotCopies(c) ==
  /\ op[c].at = "copying"
  /\ op' = [op EXCEPT ![c] = [at |-> "appending", snapshot |-> data]]
  /\ UNCHANGED <<status, dataVars, batchVars, writes, faults, historyVars>>

(* A snapshot stored once more takes the place of the object that was there. *)
PauseEnds(c) ==
  LET s == op[c].snapshot
  IN  /\ op[c].at = "appending"
      /\ op' = [op EXCEPT ![c] = Idle]
      /\ \/ /\ stored' = stored \cup {s}
            /\ content' = [content EXCEPT ![s] = s]
            /\ shared' = IF shared = s THEN None ELSE shared
            /\ status' = "paused"
            /\ resumed' = resumed \ {s}
            /\ UNCHANGED faults
         \/ /\ faults < MaxFaults
            /\ faults' = faults + 1
            /\ UNCHANGED <<status, stored, content, shared, resumed>>
      /\ UNCHANGED <<data, batchVars, writes, carried, orphaned>>

ResumeBegins(c, s) ==
  /\ op[c].at = "idle"
  /\ status = "paused"
  /\ op' = [op EXCEPT ![c] = [at |-> "loading", snapshot |-> s]]
  /\ UNCHANGED <<status, dataVars, batchVars, writes, faults, historyVars>>

\* Mutants of Restore: the cache is kept; the snapshot is not the one asked for.
RestoreKeepingCache(s) ==
  /\ data' = content[s]
  /\ shared' = s
  /\ queue' = Empty
  /\ UNCHANGED <<cache, timer>>
RestoreLast(s) ==
  /\ data' = data
  /\ shared' = s
  /\ cache' = Empty /\ queue' = Empty
  /\ UNCHANGED timer

(* restoreFromSnapshot                                                      *)
Restore(s) ==
  /\ data' = content[s]
  /\ shared' = s
  /\ cache' = Empty /\ queue' = Empty
  /\ UNCHANGED timer

ResumeEnds(c) ==
  /\ op[c].at = "loading"
  /\ Restore(op[c].snapshot)
  /\ op' = [op EXCEPT ![c] = Idle]
  /\ status' = "running"
  /\ orphaned' = (orphaned \/ timer = "armed")
  /\ resumed' = resumed \cup {op[c].snapshot}
  /\ carried' = {}
  /\ UNCHANGED <<stored, content, writes, faults>>

-----------------------------------------------------------------------------
\* Mutant of CleanupPerformance: the timer is cleared and the queue is not.
CleanupKeepingQueue ==
  /\ cache' = Empty
  /\ timer' = "off"
  /\ carried' = {}
  /\ UNCHANGED <<queue, orphaned>>

(* cleanupPerformanceOptimizations                                          *)
CleanupPerformance ==
  /\ cache' = Empty /\ queue' = Empty
  /\ timer' = "off"
  /\ carried' = {}
  /\ UNCHANGED orphaned

CompleteBegins(c) ==
  /\ op[c].at = "idle"
  /\ status # "completed"
  /\ Flush
  /\ Goes(c, "completing")
  /\ UNCHANGED <<status, dataVars, writes, faults, historyVars>>

CompleteEnds(c) ==
  /\ op[c].at = "completing"
  /\ status' = "completed"
  /\ CleanupPerformance
  /\ op' = [op EXCEPT ![c] = Idle]
  /\ UNCHANGED <<dataVars, writes, faults, resumed>>

ResetBegins(c) ==
  /\ op[c].at = "idle"
  /\ CleanupPerformance
  /\ Goes(c, "resetting")
  /\ UNCHANGED <<status, dataVars, writes, faults, resumed>>

(* The data are replaced, whatever is cached or queued by then.             *)
Replace ==
  /\ data' = Empty
  /\ shared' = None
  /\ carried' = {k \in Keys : cache[k] # 0 \/ queue[k] # 0}
  /\ UNCHANGED <<stored, content, batchVars, writes, faults, orphaned, resumed>>

(* After the runtime's cleanup, which was awaited.                          *)
ResetEnds(c) ==
  /\ op[c].at = "resetting"
  /\ Replace
  /\ status' = "initialized"
  /\ op' = [op EXCEPT ![c] = Idle]

(* initialize gives the kernel data of its own (initializeContextStore).    *)
Initialize ==
  /\ status = "initialized"
  /\ Replace
  /\ status' = "running"
  /\ UNCHANGED op

-----------------------------------------------------------------------------
ContextNext ==
  \/ \E k \in Keys : setContext(k) \/ getContext(k) \/ Evict(k)
  \/ TimerFires
  \/ \E c \in Callers :
       \/ PauseBegins(c) \/ SnapshotFlushes(c) \/ SnapshotCopies(c) \/ PauseEnds(c)
       \/ \E s \in stored : ResumeBegins(c, s)
       \/ ResumeEnds(c)
       \/ CompleteBegins(c) \/ CompleteEnds(c)
       \/ ResetBegins(c) \/ ResetEnds(c)
  \/ Initialize

ContextSpec == ContextInit /\ [][ContextNext]_contextVars

-----------------------------------------------------------------------------
Steps == {"idle", "pausing", "copying", "appending", "loading", "completing", "resetting"}

ContextTypeOK ==
  /\ status \in {"initialized", "running", "paused", "completed"}
  /\ data \in Data /\ cache \in Data /\ queue \in Data
  /\ timer \in {"off", "armed", "fired"}
  /\ stored \subseteq Data
  /\ content \in [Data -> Data]
  /\ shared \in Data \cup {None}
  /\ op \in [Callers -> [at : Steps, snapshot : Data]]
  /\ writes \in 0..MaxWrites /\ faults \in 0..MaxFaults
  /\ carried \subseteq Keys
  /\ orphaned \in BOOLEAN
  /\ resumed \subseteq Data

(* What a read takes from the cache is the value last written, unless that  *)
(* value waits in the queue, or a reset or an initialisation replaced the   *)
(* data under the cache (getContext, setContext, reset).                    *)
StaleReadExplained ==
  \A k \in Keys : cache[k] \notin {0, data[k]} =>
    \/ queue[k] # 0 /\ queue[k] = data[k]
    \/ k \in carried

(* A queued update has a flush to come, unless a resume dropped the queue   *)
(* under its timer: the timer then stays set for good (restoreFromSnapshot, *)
(* flushContextUpdates).                                                    *)
QueueHasTimer == queue # Empty /\ ~orphaned => timer = "armed"

(* A kernel resumes with exactly the data the snapshot captured, unless it  *)
(* had been resumed from that snapshot before: what it wrote since then is  *)
(* in the snapshot too (restoreFromSnapshot).                               *)
ResumeExplained ==
  [][\A c \in Callers :
       op[c].at = "loading" /\ op'[c].at = "idle" =>
         \/ data' = op[c].snapshot
         \/ op[c].snapshot \in resumed]_contextVars
=============================================================================
