-------------------------- MODULE ExecutionLedger --------------------------
(***************************************************************************)
(* What the executions table promises its readers (the next review, the    *)
(* cadence rules, the burst count): an execution is opened once, in         *)
(* progress, closes at most once, and has a watermark only as a success.    *)
(***************************************************************************)
CONSTANTS
  Ids,     \* identities of executions
  Marks    \* what a watermark may be

VARIABLES
  status,  \* status of each execution
  mark     \* watermark of each execution (0: none)

ledger == <<status, mark>>

Init ==
  /\ status = [i \in Ids |-> "none"]
  /\ mark = [i \in Ids |-> 0]

Open(i) ==
  /\ status[i] = "none"
  /\ status' = [status EXCEPT ![i] = "in_progress"]
  /\ UNCHANGED mark

Close(i) ==
  /\ status[i] = "in_progress"
  /\ \/ /\ \E end \in {"success", "error", "skipped"} :
             status' = [status EXCEPT ![i] = end]
        /\ UNCHANGED mark
     \/ /\ status' = [status EXCEPT ![i] = "success"]
        /\ \E m \in Marks : mark' = [mark EXCEPT ![i] = m]

Next == \E i \in Ids : Open(i) \/ Close(i)

Spec == Init /\ [][Next]_ledger
=============================================================================
