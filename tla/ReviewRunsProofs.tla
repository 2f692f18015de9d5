-------------------------- MODULE ReviewRunsProofs --------------------------
(***************************************************************************)
(* What holds of ReviewRuns for every set of runs, number of commits, bound *)
(* and configuration.                                                      *)
(***************************************************************************)
EXTENDS ReviewRuns, FiniteSetTheorems, TLAPS

-----------------------------------------------------------------------------
(* Lemmas about the operators.                                              *)

(* A context stays a context through what the stages write in it.           *)
LEMMA InitialContextType ==
  ASSUME NEW origin \in Origins
  PROVE  InitialContext(origin) \in Contexts
BY DEF InitialContext, Contexts, Origins, Reasons, CadenceStates

LEMMA SkipType ==
  ASSUME NEW c \in Contexts, NEW why \in Reasons
  PROVE  Skip(c, why) \in Contexts /\ Skip(c, why).base = c.base
BY DEF Skip, Contexts

(* The next stage of a run is a place, and only its own context changes.    *)
LEMMA ContinueType ==
  ASSUME ctx \in [Runs -> Contexts], pc \in [Runs -> Places],
         NEW r \in Runs, NEW c \in Contexts, NEW next \in Places,
         Continue(r, c, next)
  PROVE  ctx' \in [Runs -> Contexts] /\ pc' \in [Runs -> Places]
BY DEF Continue, Places, Stages

LEMMA ReturnType ==
  ASSUME ctx \in [Runs -> Contexts], pc \in [Runs -> Places],
         NEW r \in Runs, Return(r)
  PROVE  ctx' \in [Runs -> Contexts] /\ pc' \in [Runs -> Places]
<1>1. ctx[r].origin \in Origins /\ ctx[r].status \in {"in_progress", "skipped"}
  BY DEF Contexts
<1>2. [InitialContext(ctx[r].origin) EXCEPT !.status = ctx[r].status] \in Contexts
  BY <1>1, InitialContextType DEF Contexts
<1> QED
  BY <1>2 DEF Return, Places

LEMMA DecisionType ==
  ASSUME NEW origin, NEW basic, NEW existing, NEW current, NEW n
  PROVE  EvaluateReviewCadence(origin, basic, existing, current, n) \in Decisions
BY DEF EvaluateReviewCadence, HandleManualMode, HandleAutoPauseMode, Proceed,
       Hold, Decisions, CadenceStates

LEMMA LastAnalyzedCommitType ==
  ASSUME row \in [Runs -> Rows]
  PROVE  /\ LastAnalyzedCommit \in Commits \cup {0}
         /\ LastAnalyzedCommit # 0 => \E r \in Runs : LastAnalyzedCommit = row[r].lac
<1>1. CASE \E r \in Runs : Newest(r, Successes)
  <2>1. (CHOOSE r \in Runs : Newest(r, Successes)) \in Runs
    BY <1>1
  <2> QED
    BY <1>1, <2>1 DEF LastAnalyzedCommit, Rows
<1>2. CASE ~ \E r \in Runs : Newest(r, Successes)
  BY <1>2 DEF LastAnalyzedCommit
<1> QED
  BY <1>1, <1>2

LEMMA FaultType ==
  ASSUME faults \in 0..MaxFaults, Fault \/ NoFault
  PROVE  faults' \in 0..MaxFaults
BY RunsAssumption DEF Fault, NoFault

-----------------------------------------------------------------------------
(* Type correctness.                                                        *)

LEMMA InitType == Init => TypeOK
<1> SUFFICES ASSUME Init PROVE TypeOK
  OBVIOUS
<1>1. InitialContext("automation") \in Contexts
  BY InitialContextType DEF Origins
<1>2. NoRow \in Rows
  BY DEF NoRow, Rows, Statuses, CadenceStates
<1>3. head \in Commits /\ faults \in 0..MaxFaults
  BY RunsAssumption DEF Init, Commits
<1>4. /\ summary \in [Runs -> {"none", "started", "completed"}]
      /\ announced \in [Runs -> Nat] /\ created \in [Runs -> Nat]
      /\ entry \in [Runs -> Statuses] /\ pc \in [Runs -> Places]
  BY DEF Init, Statuses, Places
<1>5. row \in [Runs -> Rows] /\ ctx \in [Runs -> Contexts]
  BY <1>1, <1>2 DEF Init
<1> QED
  BY <1>3, <1>4, <1>5 DEF Init, TypeOK, Reviews

(* A commit that can still be pushed is a commit of the model.              *)
LEMMA PushType ==
  ASSUME TypeOK, NEW d \in 1..MaxDate, NEW isMerge \in BOOLEAN, Push(d, isMerge)
  PROVE  TypeOK'
<1>1. head + 1 \in Commits
  BY RunsAssumption DEF TypeOK, Push, Commits
<1>2. date' \in [Commits -> 1..MaxDate]
  BY <1>1 DEF TypeOK, Push
<1>3. /\ merges' \subseteq Commits
      /\ raced' \subseteq Commits
      /\ backdated' \subseteq Commits
  BY <1>1 DEF TypeOK, Push
<1> QED
  BY <1>1, <1>2, <1>3
  DEF TypeOK, Push, postVars, revVars, rowVars

LEMMA CreateExecutionType ==
  ASSUME TypeOK, NEW r \in Runs, NEW origin \in Requests, CreateExecution(r, origin)
  PROVE  TypeOK'
<1>1. InitialContext(origin) \in Contexts
  BY InitialContextType, RunsAssumption
<1>2. ctx' \in [Runs -> Contexts] /\ pc' \in [Runs -> Places]
  BY <1>1 DEF TypeOK, CreateExecution, Places
<1>3. [NoRow EXCEPT !.status = "in_progress"] \in Rows
  BY DEF NoRow, Rows, Statuses, CadenceStates
<1>4. row' \in [Runs -> Rows]
  BY <1>3 DEF TypeOK, CreateExecution
<1>5. Cardinality(Stored) \in Nat
  BY RunsAssumption, FS_Subset, FS_CardinalityType DEF Stored
<1>6. created' \in [Runs -> Nat]
  BY <1>5 DEF TypeOK, CreateExecution
<1> QED
  BY <1>2, <1>4, <1>6
  DEF TypeOK, CreateExecution, NoFault, prVars, postVars, revVars, gapVars

(* One stage of a run: what is typed here is what the stages write besides  *)
(* the context and the place of their run.                                  *)
LEMMA ReviewType ==
  ASSUME TypeOK, NEW r \in Runs, Review(r) \/ InsertFails(r) \/ Crash(r)
  PROVE  TypeOK'
<1> USE DEF TypeOK
<1>0. ctx[r] \in Contexts
  OBVIOUS
<1>1. CASE RecordStart(r)
  BY <1>1, ReturnType, FaultType
  DEF RecordStart, Fault, NoFault, prVars, postVars, revVars, gapVars, Places, Stages, Statuses
<1>2. CASE HandlerFails(r)
  <2>1. [ctx[r] EXCEPT !.crashed = TRUE] \in Contexts
    BY <1>0 DEF Contexts
  <2>2. ctx' \in [Runs -> Contexts]
    BY <1>2, <2>1 DEF HandlerFails
  <2> QED
    BY <1>2, <2>2, FaultType
    DEF HandlerFails, prVars, postVars, revVars, rowVars, gapVars, Places, Stages
<1>3. CASE ValidateNewCommits(r)
  <2>1. "ResolveConfig" \in Places
    BY DEF Places, Stages
  <2>2. ASSUME NEW last \in {LastAnalyzedCommit, 0}
        PROVE  /\ [ctx[r] EXCEPT !.base = last] \in Contexts
               /\ Skip([ctx[r] EXCEPT !.base = last], "no_new_commits") \in Contexts
               /\ Skip([ctx[r] EXCEPT !.base = last], "only_merges") \in Contexts
    <3>1. last \in Commits \cup {0}
      BY <2>2, LastAnalyzedCommitType
    <3>2. [ctx[r] EXCEPT !.base = last] \in Contexts
      BY <1>0, <3>1 DEF Contexts
    <3> QED
      BY <3>2, SkipType DEF Reasons
  <2>3. (Fault \/ NoFault) /\ ctx' \in [Runs -> Contexts] /\ pc' \in [Runs -> Places]
    <3>1. CASE StageFails(r, "ResolveConfig")
      BY <3>1, <2>1, <1>0, ContinueType DEF StageFails
    <3>2. ASSUME NEW last \in {LastAnalyzedCommit, 0},
                 IF last = LastAnalyzedCommit THEN NoFault ELSE Fault,
                 NEW fresh,
                 Continue(r, CASE fresh = {} -> Skip([ctx[r] EXCEPT !.base = last], "no_new_commits")
                               [] fresh # {} /\ fresh \subseteq merges ->
                                    Skip([ctx[r] EXCEPT !.base = last], "only_merges")
                               [] OTHER -> [ctx[r] EXCEPT !.base = last],
                          "ResolveConfig")
          PROVE  (Fault \/ NoFault) /\ ctx' \in [Runs -> Contexts] /\ pc' \in [Runs -> Places]
      BY <3>2, <2>1, <2>2, ContinueType
    <3> QED
      BY <1>3, <3>1, <3>2 DEF ValidateNewCommits
  <2> QED
    BY <1>3, <2>3, FaultType
    DEF ValidateNewCommits, prVars, postVars, revVars, rowVars, gapVars
<1>4. CASE ResolveConfig(r)
  <2>1. "ValidateConfig" \in Places
    BY DEF Places, Stages
  <2>2. Skip(ctx[r], "config") \in Contexts /\ Skip(ctx[r], "no_files") \in Contexts
    BY <1>0, SkipType DEF Reasons
  <2>3. ctx' \in [Runs -> Contexts] /\ pc' \in [Runs -> Places]
    BY <1>0, <1>4, <2>1, <2>2, ContinueType DEF ResolveConfig
  <2> QED
    BY <1>4, <2>3, FaultType
    DEF ResolveConfig, prVars, postVars, revVars, rowVars, gapVars
<1>5. CASE ValidateConfig(r)
  <2>1. "FetchChangedFiles" \in Places
    BY DEF Places, Stages
  <2>2. ASSUME NEW d \in Decisions
        PROVE  /\ [ctx[r] EXCEPT !.cadence = d.next] \in Contexts
               /\ Skip([ctx[r] EXCEPT !.cadence = d.next], "cadence") \in Contexts
    <3>1. [ctx[r] EXCEPT !.cadence = d.next] \in Contexts
      BY <1>0 DEF Contexts, Decisions
    <3> QED
      BY <3>1, SkipType DEF Reasons
  <2>3. ASSUME NEW d \in Decisions,
               Continue(r, IF d.process THEN [ctx[r] EXCEPT !.cadence = d.next]
                           ELSE Skip([ctx[r] EXCEPT !.cadence = d.next], "cadence"),
                        "FetchChangedFiles"),
               paused' = (d.notice \/ (paused /\ ctx[r].origin # "command"))
        PROVE  ctx' \in [Runs -> Contexts] /\ pc' \in [Runs -> Places] /\ paused' \in BOOLEAN
    BY <2>1, <2>2, <2>3, ContinueType
  <2>4. Skip(ctx[r], "config") \in Contexts
    BY <1>0, SkipType DEF Reasons
  <2>5. /\ ctx' \in [Runs -> Contexts] /\ pc' \in [Runs -> Places]
        /\ paused' \in BOOLEAN /\ (Fault \/ NoFault)
    <3>1. CASE Continue(r, Skip(ctx[r], "config"), "FetchChangedFiles") /\ Fault /\ UNCHANGED paused
      BY <3>1, <2>1, <2>4, ContinueType
    <3>2. CASE ~(Continue(r, Skip(ctx[r], "config"), "FetchChangedFiles") /\ Fault /\ UNCHANGED paused)
      <4>1. PICK basic \in {TRUE, ctx[r].origin = "command"}, readable \in BOOLEAN :
              LET d == EvaluateReviewCadence(
                         ctx[r].origin, basic,
                         readable /\ Successes # {},
                         IF readable THEN CurrentPRStatus ELSE "automatic",
                         IF readable THEN Cardinality(recent \cap Successes) ELSE 0)
                  c == [ctx[r] EXCEPT !.cadence = d.next]
              IN  /\ IF readable THEN NoFault ELSE Fault
                  /\ Continue(r, IF d.process THEN c ELSE Skip(c, "cadence"), "FetchChangedFiles")
                  /\ paused' = (d.notice \/ (paused /\ ctx[r].origin # "command"))
        BY <1>5, <3>2 DEF ValidateConfig
      <4> DEFINE d == EvaluateReviewCadence(
                        ctx[r].origin, basic,
                        readable /\ Successes # {},
                        IF readable THEN CurrentPRStatus ELSE "automatic",
                        IF readable THEN Cardinality(recent \cap Successes) ELSE 0)
      <4>2. d \in Decisions
        BY DecisionType
      <4> HIDE DEF d
      <4> QED
        BY <4>1, <4>2, <2>3 DEF d
    <3> QED
      BY <3>1, <3>2
  <2> QED
    BY <1>5, <2>5, FaultType
    DEF ValidateConfig, prVars, postVars, revVars, rowVars, gapVars
<1>6. CASE FetchChangedFiles(r)
  <2>1. "InitialComment" \in Places
    BY DEF Places, Stages
  <2>2. ChangedSince(ctx[r].base) \subseteq Commits
    BY RunsAssumption DEF ChangedSince, Pushed, Commits
  <2>3. /\ [ctx[r] EXCEPT !.files = ChangedSince(ctx[r].base)] \in Contexts
        /\ Skip(ctx[r], "no_files") \in Contexts
    BY <1>0, <2>2, SkipType DEF Contexts, Reasons
  <2>4. /\ ctx' \in [Runs -> Contexts] /\ pc' \in [Runs -> Places]
        /\ lost' \subseteq Commits /\ (Fault \/ NoFault)
    BY <1>0, <1>6, <2>1, <2>2, <2>3, ContinueType DEF FetchChangedFiles, StageFails
  <2> QED
    BY <1>6, <2>4, FaultType
    DEF FetchChangedFiles, prVars, postVars, revVars, rowVars
<1>7. CASE InitialComment(r)
  <2>1. "AnalyzePullRequest" \in Places
    BY DEF Places, Stages
  <2>2. Cardinality({s \in Runs : summary[s] # "none"}) \in Nat
    BY RunsAssumption, FS_Subset, FS_CardinalityType
  <2>3. ctx' \in [Runs -> Contexts] /\ pc' \in [Runs -> Places]
    BY <1>0, <1>7, <2>1, ContinueType DEF InitialComment
  <2>4. /\ minimized' \subseteq Runs /\ (Fault \/ NoFault)
        /\ summary' \in [Runs -> {"none", "started", "completed"}]
        /\ announced' \in [Runs -> Nat]
    BY <1>7, <2>2 DEF InitialComment
  <2> QED
    BY <1>7, <2>3, <2>4, FaultType
    DEF InitialComment, prVars, revVars, gapVars
<1>8. CASE AnalyzePullRequest(r)
  <2>1. "AnalyzeFiles" \in Places
    BY DEF Places, Stages
  <2>2. ASSUME NEW found \in BOOLEAN
        PROVE  [ctx[r] EXCEPT !.prLevel = found] \in Contexts
    BY <1>0 DEF Contexts
  <2>3. ctx' \in [Runs -> Contexts] /\ pc' \in [Runs -> Places]
    BY <1>8, <2>1, <2>2, ContinueType, RunsAssumption DEF AnalyzePullRequest
  <2> QED
    BY <1>8, <2>3
    DEF AnalyzePullRequest, prVars, postVars, revVars, rowVars, gapVars
<1>9. CASE AnalyzeFiles(r)
  <2>1. "CreatePrLevelComments" \in Places
    BY DEF Places, Stages
  <2>2. ctx[r].files \subseteq Commits
    BY <1>0 DEF Contexts
  <2>3. ASSUME NEW sugg \in SUBSET Commits
        PROVE  [ctx[r] EXCEPT !.sugg = sugg] \in Contexts
    BY <1>0 DEF Contexts
  <2>4. PICK failed \in SUBSET ctx[r].files : \E sugg \in SUBSET (ctx[r].files \ failed) :
          /\ IF failed = {} THEN NoFault ELSE Fault
          /\ Continue(r, [ctx[r] EXCEPT !.sugg = sugg], "CreatePrLevelComments")
          /\ seen' = seen \cup (ctx[r].files \ failed)
          /\ lost' = lost \cup failed
    BY <1>9 DEF AnalyzeFiles
  <2>5. /\ ctx' \in [Runs -> Contexts] /\ pc' \in [Runs -> Places]
        /\ seen' \subseteq Commits /\ lost' \subseteq Commits
    BY <2>1, <2>2, <2>3, <2>4, ContinueType
  <2> QED
    BY <1>9, <2>4, <2>5, FaultType
    DEF AnalyzeFiles, prVars, postVars, revVars, rowVars
<1>10. CASE CreatePrLevelComments(r)
  <2>1. "CreateFileComments" \in Places
    BY DEF Places, Stages
  <2>2. ctx' \in [Runs -> Contexts] /\ pc' \in [Runs -> Places]
    BY <1>0, <1>10, <2>1, ContinueType DEF CreatePrLevelComments
  <2> QED
    BY <1>10, <2>2, FaultType
    DEF CreatePrLevelComments, prVars, revVars, rowVars, gapVars
<1>11. CASE CreateFileComments(r)
  <2>1. {"PostComment", "SaveSuggestions", "UpdateComments"} \subseteq Places
    BY DEF Places, Stages
  <2>2. ASSUME NEW last \in Pushed, NEW todo \in SUBSET ctx[r].sugg
        PROVE  /\ [ctx[r] EXCEPT !.lac = last, !.answered = TRUE] \in Contexts
               /\ [ctx[r] EXCEPT !.lac = last, !.todo = todo] \in Contexts
    <3>1. last \in Commits
      BY RunsAssumption DEF Pushed, Commits
    <3>2. todo \subseteq Commits
      BY <1>0 DEF Contexts
    <3> QED
      BY <1>0, <3>1, <3>2 DEF Contexts
  <2>3. /\ [ctx[r] EXCEPT !.lac = LastAnalyzedCommit] \in Contexts
        /\ [ctx[r] EXCEPT !.answered = TRUE] \in Contexts
    BY <1>0, LastAnalyzedCommitType DEF Contexts
  <2>4. ctx' \in [Runs -> Contexts] /\ pc' \in [Runs -> Places] /\ (Fault \/ NoFault)
    <3>1. ASSUME NEW last \in Pushed, NEW todo \in SUBSET ctx[r].sugg, NoFault,
                 IF ctx[r].sugg = {}
                 THEN Continue(r, [ctx[r] EXCEPT !.lac = last, !.answered = TRUE], "UpdateComments")
                 ELSE Continue(r, [ctx[r] EXCEPT !.lac = last, !.todo = todo], "PostComment")
          PROVE  ctx' \in [Runs -> Contexts] /\ pc' \in [Runs -> Places] /\ (Fault \/ NoFault)
      BY <3>1, <2>1, <2>2, ContinueType
    <3>2. ASSUME Fault,
                 IF ctx[r].sugg = {}
                 THEN Continue(r, ctx[r], "UpdateComments")
                 ELSE \/ Continue(r, [ctx[r] EXCEPT !.lac = LastAnalyzedCommit], "SaveSuggestions")
                      \/ Continue(r, [ctx[r] EXCEPT !.answered = TRUE], "UpdateComments")
          PROVE  ctx' \in [Runs -> Contexts] /\ pc' \in [Runs -> Places] /\ (Fault \/ NoFault)
      BY <1>0, <3>2, <2>1, <2>3, ContinueType
    <3> QED
      BY <1>11, <3>1, <3>2 DEF CreateFileComments
  <2> QED
    BY <1>11, <2>4, FaultType
    DEF CreateFileComments, prVars, postVars, revVars, rowVars, gapVars
<1>12. CASE PostComment(r)
  <2>1. PICK c \in ctx[r].todo :
          /\ ctx' = [ctx EXCEPT ![r].todo = @ \ {c}, ![r].results = @ \cup {c}]
          /\ \/ /\ comments' = comments \cup {<<r, c>>}
                /\ review' = "commented"
                /\ NoFault
             \/ UNCHANGED <<comments, review>> /\ Fault
    BY <1>12 DEF PostComment
  <2>2. c \in Commits
    BY <1>0 DEF Contexts
  <2>3. [ctx[r] EXCEPT !.todo = @ \ {c}, !.results = @ \cup {c}] \in Contexts
    BY <1>0, <2>2 DEF Contexts
  <2>4. ctx' \in [Runs -> Contexts]
    BY <2>1, <2>3
  <2>5. comments' \subseteq Runs \X Commits /\ review' \in Reviews /\ (Fault \/ NoFault)
    BY <2>1, <2>2 DEF Reviews
  <2> QED
    BY <1>12, <2>4, <2>5, FaultType DEF PostComment, prVars, rowVars, gapVars
<1>13. CASE PostingEnds(r)
  BY <1>13 DEF PostingEnds, prVars, postVars, revVars, rowVars, gapVars, Places, Stages
<1>14. CASE SaveSuggestions(r)
  <2>1. "UpdateComments" \in Places
    BY DEF Places, Stages
  <2>2. /\ [ctx[r] EXCEPT !.answered = TRUE] \in Contexts
        /\ [ctx[r] EXCEPT !.answered = TRUE, !.results = {}, !.lac = 0] \in Contexts
    BY <1>0 DEF Contexts
  <2>3. ctx' \in [Runs -> Contexts] /\ pc' \in [Runs -> Places]
    BY <1>14, <2>1, <2>2, ContinueType DEF SaveSuggestions
  <2> QED
    BY <1>14, <2>3, FaultType
    DEF SaveSuggestions, prVars, postVars, revVars, rowVars, gapVars
<1>15. CASE UpdateComments(r)
  <2>1. "RequestChanges" \in Places
    BY DEF Places, Stages
  <2>2. ctx' \in [Runs -> Contexts] /\ pc' \in [Runs -> Places]
    BY <1>0, <1>15, <2>1, ContinueType DEF UpdateComments
  <2>3. summary' \in [Runs -> {"none", "started", "completed"}] /\ (Fault \/ NoFault)
    BY <1>15 DEF UpdateComments
  <2> QED
    BY <1>15, <2>2, <2>3, FaultType
    DEF UpdateComments, prVars, revVars, rowVars, gapVars
<1>16. CASE RequestChanges(r)
  <2>1. {"CheckReviewState", "UpdateExecution"} \subseteq Places
    BY DEF Places, Stages
  <2>2. ctx' \in [Runs -> Contexts] /\ pc' \in [Runs -> Places]
    BY <1>0, <1>16, <2>1, ContinueType DEF RequestChanges
  <2> QED
    BY <1>16, <2>2, FaultType
    DEF RequestChanges, Reviews, prVars, postVars, rowVars, gapVars
<1>17. CASE CheckReviewState(r)
  <2>1. {"Approve", "UpdateExecution"} \subseteq Places
    BY DEF Places, Stages
  <2>2. ctx' \in [Runs -> Contexts] /\ pc' \in [Runs -> Places] /\ (Fault \/ NoFault)
    BY <1>0, <1>17, <2>1, ContinueType DEF CheckReviewState, StageFails
  <2> QED
    BY <1>17, <2>2, FaultType
    DEF CheckReviewState, prVars, postVars, revVars, rowVars, gapVars
<1>18. CASE Approve(r)
  <2>1. "UpdateExecution" \in Places
    BY DEF Places, Stages
  <2>2. ctx' \in [Runs -> Contexts] /\ pc' \in [Runs -> Places]
    BY <1>0, <1>18, <2>1, ContinueType DEF Approve
  <2> QED
    BY <1>18, <2>2, FaultType
    DEF Approve, Reviews, prVars, postVars, revVars, rowVars, gapVars
<1>19. CASE UpdateExecution(r)
  <2>1. ExecutionData(ctx[r]) \in Rows
    BY <1>0 DEF ExecutionData, FinalStatus, Rows, Contexts, Statuses, CadenceStates
  <2> QED
    BY <1>19, <2>1
    DEF UpdateExecution, prVars, postVars, revVars, gapVars, Places, Stages
<1>20. CASE UpdateFails(r)
  BY <1>20, ReturnType, FaultType
  DEF UpdateFails, prVars, postVars, revVars, rowVars, gapVars
<1>21. CASE RecordEnd(r)
  <2>1. FinalStatus(ctx[r]) \in Statuses
    BY DEF FinalStatus, Statuses
  <2> QED
    BY <1>21, <2>1, ReturnType, FaultType
    DEF RecordEnd, prVars, postVars, revVars, gapVars
<1>22. CASE InsertFails(r)
  BY <1>22, ReturnType, FaultType
  DEF InsertFails, prVars, postVars, revVars, rowVars, gapVars
<1>23. CASE Crash(r)
  BY <1>23, ReturnType, FaultType
  DEF Crash, prVars, postVars, revVars, rowVars, gapVars
<1> QED
  BY <1>1, <1>2, <1>3, <1>4, <1>5, <1>6, <1>7, <1>8, <1>9, <1>10, <1>11, <1>12,
     <1>13, <1>14, <1>15, <1>16, <1>17, <1>18, <1>19, <1>20, <1>21, <1>22, <1>23
  DEF Review

(* Every variable keeps its type in every behaviour.                        *)
THEOREM TypeCorrect == Spec => []TypeOK
<1>1. TypeOK /\ [Next]_vars => TypeOK'
  <2> SUFFICES ASSUME TypeOK, [Next]_vars PROVE TypeOK'
    OBVIOUS
  <2>1. ASSUME NEW d \in 1..MaxDate, NEW isMerge \in BOOLEAN, Push(d, isMerge)
        PROVE  TypeOK'
    BY <2>1, PushType
  <2>2. CASE WindowPasses
    BY <2>2 DEF TypeOK, WindowPasses, prVars, postVars, revVars, gapVars
  <2>3. ASSUME NEW r \in Runs, NEW origin \in Requests, CreateExecution(r, origin)
        PROVE  TypeOK'
    BY <2>3, CreateExecutionType
  <2>4. ASSUME NEW r \in Runs, InsertFails(r) \/ Review(r) \/ Crash(r)
        PROVE  TypeOK'
    BY <2>4, ReviewType
  <2>5. CASE UNCHANGED vars
    BY <2>5 DEF TypeOK, vars, prVars, postVars, revVars, rowVars, gapVars
  <2> QED
    BY <2>1, <2>2, <2>3, <2>4, <2>5 DEF Next
<1> QED
  BY <1>1, InitType, PTL DEF Spec

-----------------------------------------------------------------------------
(* The coverage of the watermark.                                           *)

(* A mark some run already has.                                             *)
Known(l) == l = 0 \/ \E r \in Runs : l \in {row[r].lac, ctx[r].lac, ctx[r].base}

Others(r) ==
  \A q \in Runs \ {r} : row'[q] = row[q] /\ ctx'[q] = ctx[q] /\ pc'[q] = pc[q]

LEMMA ContinueEffect ==
  ASSUME TypeOK, NEW r \in Runs, NEW c, NEW next, Continue(r, c, next)
  PROVE  /\ ctx'[r] = c
         /\ pc'[r] = IF c.status = "skipped" THEN "UpdateExecution" ELSE next
         /\ \A q \in Runs \ {r} : ctx'[q] = ctx[q] /\ pc'[q] = pc[q]
BY DEF Continue, TypeOK

LEMMA ReturnEffect ==
  ASSUME TypeOK, NEW r \in Runs, Return(r)
  PROVE  /\ ctx'[r].lac = 0 /\ ctx'[r].base = 0
         /\ pc'[r] = "done"
         /\ \A q \in Runs \ {r} : ctx'[q] = ctx[q] /\ pc'[q] = pc[q]
BY DEF Return, TypeOK, InitialContext

LEMMA KnownCovered ==
  ASSUME CoverageInv, NEW l, Known(l)
  PROVE  l \in Pushed \cup {0} /\ Covered(l)
BY DEF CoverageInv, Known, Covered

(* A step of one run keeps the invariant if it records only marks known or  *)
(* covered by all that was pushed, and claims no fetch or analysis it did   *)
(* not do.                                                                  *)
LEMMA StepKeepsCoverage ==
  ASSUME TypeOK, CoverageInv, NEW r \in Runs,
         head' = head, date' = date, Accounted \subseteq Accounted', Others(r),
         \A l \in {row'[r].lac, ctx'[r].lac, ctx'[r].base} :
           Known(l) \/ (l \in Pushed /\ Pushed \subseteq Accounted),
         pc'[r] \in Fetched => \/ pc[r] \in Fetched /\ ctx'[r].files = ctx[r].files
                               \/ Pushed \subseteq Accounted' \cup ctx'[r].files,
         pc'[r] \in Analysed => \/ pc[r] \in Analysed
                                \/ Pushed \subseteq Accounted'
  PROVE  CoverageInv'
<1>1. Pushed' = Pushed
  BY DEF Pushed
<1>2. ASSUME NEW l, Covered(l), l \in Pushed \cup {0} PROVE Covered(l)'
  BY <1>1, <1>2 DEF Covered
<1>3. ASSUME NEW l \in Pushed, Pushed \subseteq Accounted PROVE Covered(l)
  BY <1>3 DEF Covered
<1>4. ASSUME NEW q \in Runs
      PROVE  \A l \in {row'[q].lac, ctx'[q].lac, ctx'[q].base} :
               l \in Pushed \cup {0} /\ Covered(l)
  <2>1. CASE q = r
    BY <2>1, <1>3, KnownCovered
  <2>2. CASE q # r
    BY <2>2 DEF Others, CoverageInv
  <2> QED
    BY <2>1, <2>2
<1>5. ASSUME NEW q \in Runs, pc'[q] \in Fetched
      PROVE  Pushed \subseteq Accounted' \cup ctx'[q].files
  BY <1>5 DEF Others, CoverageInv
<1>6. ASSUME NEW q \in Runs, pc'[q] \in Analysed
      PROVE  Pushed \subseteq Accounted'
  BY <1>6 DEF Others, CoverageInv
<1> QED
  BY <1>1, <1>2, <1>4, <1>5, <1>6 DEF CoverageInv

(* A push is itself accounted for by the runs that have fetched, and is     *)
(* covered by no mark: those that cover it by date make it backdated.       *)
LEMMA PushKeepsCoverage ==
  ASSUME TypeOK, CoverageInv, NEW d \in 1..MaxDate, NEW isMerge \in BOOLEAN,
         Push(d, isMerge)
  PROVE  CoverageInv'
<1>1. /\ head \in Nat /\ head + 1 \in Commits /\ head' = head + 1
      /\ Pushed' = Pushed \cup {head + 1} /\ head + 1 \notin Pushed
  BY RunsAssumption DEF TypeOK, Push, Commits, Pushed
<1>2. \A c \in Pushed : date'[c] = date[c] /\ c \in Commits
  BY <1>1, RunsAssumption DEF TypeOK, Push, Commits, Pushed
<1>3. date'[head + 1] = d
  BY <1>1 DEF TypeOK, Push
<1>4. Accounted \subseteq Accounted'
  BY DEF Accounted, Push
<1>5. ASSUME NEW l \in Pushed \cup {0}, Covered(l) PROVE Covered(l)'
  <2> SUFFICES ASSUME l # 0, NEW c \in Pushed', date'[c] <= date'[l]
               PROVE  c \in Accounted'
    BY DEF Covered
  <2>1. CASE c \in Pushed
    BY <2>1, <1>2, <1>4, <1>5 DEF Covered
  <2>2. CASE c = head + 1
    <3>1. d <= date[l] /\ l \in Pushed
      BY <2>2, <1>2, <1>3
    <3>2. date[l] \in Nat /\ d \in Nat
      BY <3>1, <1>2, RunsAssumption DEF TypeOK
    <3>3. head + 1 \in backdated'
      BY <3>1, <3>2 DEF Push
    <3> QED
      BY <2>2, <3>3 DEF Accounted
  <2> QED
    BY <2>1, <2>2, <1>1
<1>6. \A q \in Runs : pc[q] \in ReviewWindow => head + 1 \in Accounted'
  BY DEF Push, Accounted
<1>7. row' = row /\ ctx' = ctx /\ pc' = pc
  BY DEF Push, rowVars
<1> QED
  BY <1>1, <1>4, <1>5, <1>6, <1>7 DEF CoverageInv, ReviewWindow

(* The first three cases of the next lemma are its point: a fetch leaves    *)
(* out what its base covers, an analysis takes every fetched file or loses  *)
(* it, and the mark is read once everything pushed is accounted for.        *)
LEMMA ReviewKeepsCoverage ==
  ASSUME TypeOK, TypeOK', CoverageInv, NEW r \in Runs,
         Review(r) \/ InsertFails(r) \/ Crash(r)
  PROVE  CoverageInv'
<1> USE DEF Fetched, Analysed
<1>0. /\ ctx[r] \in Contexts /\ Known(0) /\ Known(row[r].lac) /\ Known(ctx[r].lac)
      /\ Known(ctx[r].base) /\ Known(LastAnalyzedCommit)
  <2>1. Known(LastAnalyzedCommit)
    BY LastAnalyzedCommitType DEF TypeOK, Known
  <2> QED
    BY <2>1 DEF TypeOK, Known
<1>1. CASE FetchChangedFiles(r)
  <2> DEFINE files == ChangedSince(ctx[r].base)
  <2>1. Pushed \subseteq Accounted \cup files
    <3>1. CASE ctx[r].base = 0
      BY <3>1 DEF ChangedSince
    <3>2. CASE ctx[r].base # 0
      <4>1. ctx[r].base \in Pushed /\ Covered(ctx[r].base)
        BY <3>2, <1>0, KnownCovered
      <4>2. \A c \in Pushed : date[c] \in Nat
        BY RunsAssumption DEF TypeOK, Pushed, Commits
      <4>3. \A c \in Pushed : date[c] <= date[ctx[r].base] \/ date[c] > date[ctx[r].base]
        BY ONLY <4>1, <4>2
      <4> QED
        BY <3>2, <4>1, <4>3 DEF ChangedSince, Covered
    <3> QED
      BY <3>1, <3>2
  <2>2. /\ head' = head /\ date' = date /\ row' = row /\ Accounted \subseteq Accounted'
    BY <1>1 DEF FetchChangedFiles, prVars, rowVars, Accounted
  <2>3. CASE Continue(r, [ctx[r] EXCEPT !.files = files], "InitialComment")
    <3>1. ctx'[r].files = files /\ ctx'[r].base = ctx[r].base /\ ctx'[r].lac = ctx[r].lac
      BY <1>0, <2>3, ContinueEffect DEF Contexts
    <3>2. pc'[r] \notin Analysed /\ Others(r)
      BY <2>2, <2>3, ContinueEffect DEF Others
    <3> QED
      BY <1>0, <2>1, <2>2, <3>1, <3>2, StepKeepsCoverage
  <2>4. CASE Continue(r, Skip(ctx[r], "no_files"), "InitialComment")
    <3>1. /\ Skip(ctx[r], "no_files").status = "skipped"
          /\ Skip(ctx[r], "no_files").base = ctx[r].base
          /\ Skip(ctx[r], "no_files").lac = ctx[r].lac
      BY <1>0 DEF Skip, Contexts
    <3>2. /\ pc'[r] = "UpdateExecution" /\ Others(r)
          /\ ctx'[r].base = ctx[r].base /\ ctx'[r].lac = ctx[r].lac
      BY <2>2, <2>4, <3>1, ContinueEffect DEF Others
    <3> QED
      BY <1>0, <2>2, <3>2, StepKeepsCoverage
  <2>5. CASE StageFails(r, "InitialComment") /\ lost' = lost \cup files
    <3>1. ctx'[r] = ctx[r] /\ pc'[r] \notin Analysed /\ Others(r)
      BY <2>2, <2>5, ContinueEffect DEF Others, StageFails
    <3>2. Pushed \subseteq Accounted'
      BY <1>1, <2>1, <2>2, <2>5 DEF Accounted
    <3> QED
      BY <1>0, <2>2, <3>1, <3>2, StepKeepsCoverage
  <2> QED
    BY <1>1, <2>3, <2>4, <2>5 DEF FetchChangedFiles
<1>2. CASE AnalyzeFiles(r)
  <2>1. PICK failed \in SUBSET ctx[r].files : \E sugg \in SUBSET (ctx[r].files \ failed) :
          /\ IF failed = {} THEN NoFault ELSE Fault
          /\ Continue(r, [ctx[r] EXCEPT !.sugg = sugg], "CreatePrLevelComments")
          /\ seen' = seen \cup (ctx[r].files \ failed)
          /\ lost' = lost \cup failed
    BY <1>2 DEF AnalyzeFiles
  <2>2. /\ head' = head /\ date' = date /\ row' = row
        /\ Accounted' = Accounted \cup ctx[r].files
    BY <1>2, <2>1 DEF AnalyzeFiles, prVars, rowVars, Accounted
  <2>3. Pushed \subseteq Accounted'
    BY <1>2, <2>2 DEF AnalyzeFiles, CoverageInv
  <2>4. ctx'[r].base = ctx[r].base /\ ctx'[r].lac = ctx[r].lac /\ Others(r)
    BY <1>0, <2>1, <2>2, ContinueEffect DEF Contexts, Others
  <2> QED
    BY <1>0, <2>2, <2>3, <2>4, StepKeepsCoverage
<1>3. CASE CreateFileComments(r)
  <2>1. /\ head' = head /\ date' = date /\ row' = row /\ Accounted' = Accounted
    BY <1>3 DEF CreateFileComments, prVars, rowVars, gapVars, Accounted
  <2>2. Pushed \subseteq Accounted
    BY <1>3 DEF CreateFileComments, CoverageInv
  <2>3. ASSUME NEW c, c.base = ctx[r].base, Known(c.lac) \/ c.lac \in Pushed,
               NEW next \in {"PostComment", "SaveSuggestions", "UpdateComments"},
               Continue(r, c, next)
        PROVE  CoverageInv'
    <3>1. ctx'[r] = c /\ pc'[r] \notin Fetched \cup Analysed /\ Others(r)
      BY <2>1, <2>3, ContinueEffect DEF Others
    <3> QED
      BY <1>0, <2>1, <2>2, <2>3, <3>1, StepKeepsCoverage
  <2>4. ASSUME NEW last \in Pushed, NEW todo,
               IF ctx[r].sugg = {}
               THEN Continue(r, [ctx[r] EXCEPT !.lac = last, !.answered = TRUE], "UpdateComments")
               ELSE Continue(r, [ctx[r] EXCEPT !.lac = last, !.todo = todo], "PostComment")
        PROVE  CoverageInv'
    <3>1. /\ [ctx[r] EXCEPT !.lac = last, !.answered = TRUE].lac = last
          /\ [ctx[r] EXCEPT !.lac = last, !.todo = todo].lac = last
          /\ [ctx[r] EXCEPT !.lac = last, !.answered = TRUE].base = ctx[r].base
          /\ [ctx[r] EXCEPT !.lac = last, !.todo = todo].base = ctx[r].base
      BY <1>0 DEF Contexts
    <3> QED
      BY <2>3, <2>4, <3>1
  <2>5. ASSUME IF ctx[r].sugg = {}
               THEN Continue(r, ctx[r], "UpdateComments")
               ELSE \/ Continue(r, [ctx[r] EXCEPT !.lac = LastAnalyzedCommit], "SaveSuggestions")
                    \/ Continue(r, [ctx[r] EXCEPT !.answered = TRUE], "UpdateComments")
        PROVE  CoverageInv'
    <3>1. /\ [ctx[r] EXCEPT !.lac = LastAnalyzedCommit].lac = LastAnalyzedCommit
          /\ [ctx[r] EXCEPT !.lac = LastAnalyzedCommit].base = ctx[r].base
          /\ [ctx[r] EXCEPT !.answered = TRUE].lac = ctx[r].lac
          /\ [ctx[r] EXCEPT !.answered = TRUE].base = ctx[r].base
      BY <1>0 DEF Contexts
    <3> QED
      BY <1>0, <2>3, <2>5, <3>1
  <2> QED
    BY <1>3, <2>4, <2>5 DEF CreateFileComments
<1>4. CASE ValidateNewCommits(r)
  <2>1. /\ head' = head /\ date' = date /\ row' = row /\ Accounted' = Accounted
    BY <1>4 DEF ValidateNewCommits, prVars, rowVars, gapVars, Accounted
  <2>2. ASSUME NEW c, Known(c.lac), Known(c.base), Continue(r, c, "ResolveConfig")
        PROVE  CoverageInv'
    <3>1. ctx'[r] = c /\ pc'[r] \notin Fetched \cup Analysed /\ Others(r)
      BY <2>1, <2>2, ContinueEffect DEF Others
    <3> QED
      BY <1>0, <2>1, <2>2, <3>1, StepKeepsCoverage
  <2>3. ASSUME NEW last \in {LastAnalyzedCommit, 0}, NEW fresh,
               Continue(r, CASE fresh = {} -> Skip([ctx[r] EXCEPT !.base = last], "no_new_commits")
                             [] fresh # {} /\ fresh \subseteq merges ->
                                  Skip([ctx[r] EXCEPT !.base = last], "only_merges")
                             [] OTHER -> [ctx[r] EXCEPT !.base = last],
                        "ResolveConfig")
        PROVE  CoverageInv'
    <3> DEFINE c == [ctx[r] EXCEPT !.base = last]
    <3>1. /\ c.base = last /\ c.lac = ctx[r].lac
          /\ \A why \in Reasons : Skip(c, why).base = last /\ Skip(c, why).lac = ctx[r].lac
      BY <1>0 DEF Contexts, Skip
    <3>2. Known(last)
      BY <1>0
    <3>3. "no_new_commits" \in Reasons /\ "only_merges" \in Reasons
      BY DEF Reasons
    <3> HIDE DEF c
    <3>4. \/ Continue(r, c, "ResolveConfig")
          \/ \E why \in Reasons : Continue(r, Skip(c, why), "ResolveConfig")
      BY <2>3, <3>3 DEF c
    <3> QED
      BY <1>0, <2>2, <3>1, <3>2, <3>4
  <2> QED
    BY <1>0, <1>4, <2>2, <2>3 DEF ValidateNewCommits, StageFails
<1>5. CASE UpdateExecution(r)
  <2>1. row'[r].lac \in {0, ctx[r].lac}
    BY <1>5 DEF UpdateExecution, ExecutionData, TypeOK
  <2>2. /\ head' = head /\ date' = date /\ ctx' = ctx /\ Accounted' = Accounted
        /\ pc'[r] = "RecordEnd" /\ Others(r)
    BY <1>5 DEF UpdateExecution, prVars, gapVars, Accounted, Others, TypeOK
  <2> QED
    BY <1>0, <2>1, <2>2, StepKeepsCoverage
<1>6. ASSUME head' = head, date' = date, row' = row, Accounted' = Accounted, Others(r),
             ctx'[r].lac \in {0, ctx[r].lac}, ctx'[r].base \in {0, ctx[r].base},
             pc'[r] \in Fetched => pc[r] \in Fetched /\ ctx'[r].files = ctx[r].files,
             pc'[r] \in Analysed => pc[r] \in Analysed
      PROVE  CoverageInv'
  BY <1>0, <1>6, StepKeepsCoverage
<1>7. CASE UpdateFails(r)
  <2>1. head' = head /\ date' = date /\ row' = row /\ Accounted' = Accounted
    BY <1>7 DEF UpdateFails, prVars, rowVars, gapVars, Accounted
  <2> QED
    BY <1>6, <1>7, <2>1, ReturnEffect DEF UpdateFails, Others
<1>8. CASE RecordEnd(r)
  <2>1. head' = head /\ date' = date /\ row' = row /\ Accounted' = Accounted
    BY <1>8 DEF RecordEnd, prVars, rowVars, gapVars, Accounted
  <2> QED
    BY <1>6, <1>8, <2>1, ReturnEffect DEF RecordEnd, Others
<1>9. CASE InsertFails(r)
  <2>1. head' = head /\ date' = date /\ row' = row /\ Accounted' = Accounted
    BY <1>9 DEF InsertFails, prVars, rowVars, gapVars, Accounted
  <2> QED
    BY <1>6, <1>9, <2>1, ReturnEffect DEF InsertFails, Others
<1>10. CASE Crash(r)
  <2>1. head' = head /\ date' = date /\ row' = row /\ Accounted' = Accounted
    BY <1>10 DEF Crash, prVars, rowVars, gapVars, Accounted
  <2> QED
    BY <1>6, <1>10, <2>1, ReturnEffect DEF Crash, Others
<1>11. CASE RecordStart(r)
  <2>1. head' = head /\ date' = date /\ row' = row /\ Accounted' = Accounted
    BY <1>11 DEF RecordStart, prVars, gapVars, Accounted
  <2>2. CASE Return(r)
    BY <1>6, <2>1, <2>2, ReturnEffect DEF Others
  <2>3. CASE pc' = [pc EXCEPT ![r] = "ValidateNewCommits"] /\ ctx' = ctx
    <3>1. pc'[r] = "ValidateNewCommits" /\ Others(r)
      BY <2>1, <2>3 DEF TypeOK, Others
    <3> QED
      BY <1>6, <2>1, <2>3, <3>1
  <2> QED
    BY <1>11, <2>2, <2>3 DEF RecordStart
<1>12. CASE HandlerFails(r)
  <2>1. head' = head /\ date' = date /\ row' = row /\ Accounted' = Accounted
    BY <1>12 DEF HandlerFails, prVars, rowVars, gapVars, Accounted
  <2>2. /\ ctx'[r].lac = ctx[r].lac /\ ctx'[r].base = ctx[r].base
        /\ pc'[r] = "UpdateExecution" /\ Others(r)
    BY <1>12, <2>1 DEF HandlerFails, Others, TypeOK, Contexts
  <2> QED
    BY <1>6, <2>1, <2>2
<1>13. CASE ResolveConfig(r)
  <2>1. head' = head /\ date' = date /\ row' = row /\ Accounted' = Accounted
    BY <1>13 DEF ResolveConfig, prVars, rowVars, gapVars, Accounted
  <2>2. \A why : /\ Skip(ctx[r], why).status = "skipped"
                 /\ Skip(ctx[r], why).lac = ctx[r].lac
                 /\ Skip(ctx[r], why).base = ctx[r].base
    BY <1>0 DEF Contexts, Skip
  <2> QED
    BY <1>6, <1>13, <2>1, <2>2, ContinueEffect DEF ResolveConfig, Others
<1>14. CASE ValidateConfig(r)
  <2>1. head' = head /\ date' = date /\ row' = row /\ Accounted' = Accounted
    BY <1>14 DEF ValidateConfig, prVars, rowVars, gapVars, Accounted
  <2>2. ASSUME NEW c, c.lac = ctx[r].lac, c.base = ctx[r].base,
               Continue(r, c, "FetchChangedFiles")
        PROVE  CoverageInv'
    BY <1>6, <2>1, <2>2, ContinueEffect DEF Others
  <2>3. ASSUME NEW state, NEW why
        PROVE  LET c == [ctx[r] EXCEPT !.cadence = state]
               IN  /\ c.lac = ctx[r].lac /\ c.base = ctx[r].base
                   /\ Skip(c, why).lac = ctx[r].lac /\ Skip(c, why).base = ctx[r].base
                   /\ Skip(ctx[r], why).lac = ctx[r].lac
                   /\ Skip(ctx[r], why).base = ctx[r].base
    BY <1>0 DEF Contexts, Skip
  <2>4. \/ Continue(r, Skip(ctx[r], "config"), "FetchChangedFiles")
        \/ \E d : Continue(r, IF d.process THEN [ctx[r] EXCEPT !.cadence = d.next]
                              ELSE Skip([ctx[r] EXCEPT !.cadence = d.next], "cadence"),
                           "FetchChangedFiles")
    BY <1>14 DEF ValidateConfig
  <2>5. CASE Continue(r, Skip(ctx[r], "config"), "FetchChangedFiles")
    BY <2>2, <2>3, <2>5
  <2>6. ASSUME NEW d,
               Continue(r, IF d.process THEN [ctx[r] EXCEPT !.cadence = d.next]
                           ELSE Skip([ctx[r] EXCEPT !.cadence = d.next], "cadence"),
                        "FetchChangedFiles")
        PROVE  CoverageInv'
    <3> DEFINE k == [ctx[r] EXCEPT !.cadence = d.next]
    <3>1. /\ k.lac = ctx[r].lac /\ k.base = ctx[r].base
          /\ Skip(k, "cadence").lac = ctx[r].lac /\ Skip(k, "cadence").base = ctx[r].base
      BY <2>3
    <3>2. \/ Continue(r, k, "FetchChangedFiles")
          \/ Continue(r, Skip(k, "cadence"), "FetchChangedFiles")
      BY <2>6
    <3> HIDE DEF k
    <3> QED
      BY <2>2, <3>1, <3>2
  <2> QED
    BY <2>4, <2>5, <2>6
<1>15. CASE InitialComment(r)
  <2>1. head' = head /\ date' = date /\ row' = row /\ Accounted' = Accounted
    BY <1>15 DEF InitialComment, prVars, gapVars, Accounted
  <2> QED
    BY <1>6, <1>15, <2>1, ContinueEffect DEF InitialComment, Others
<1>16. CASE AnalyzePullRequest(r)
  <2>1. head' = head /\ date' = date /\ row' = row /\ Accounted' = Accounted
    BY <1>16 DEF AnalyzePullRequest, prVars, rowVars, gapVars, Accounted
  <2>2. \A found : LET c == [ctx[r] EXCEPT !.prLevel = found]
                   IN  c.lac = ctx[r].lac /\ c.base = ctx[r].base /\ c.files = ctx[r].files
    BY <1>0 DEF Contexts, Skip
  <2>3. PICK found : Continue(r, [ctx[r] EXCEPT !.prLevel = found], "AnalyzeFiles")
    BY <1>16 DEF AnalyzePullRequest
  <2> DEFINE c == [ctx[r] EXCEPT !.prLevel = found]
  <2>4. c.lac = ctx[r].lac /\ c.base = ctx[r].base /\ c.files = ctx[r].files
    BY <2>2
  <2> HIDE DEF c
  <2>5. /\ ctx'[r] = c /\ pc'[r] \notin Analysed /\ Others(r)
    BY <2>1, <2>3, ContinueEffect DEF Others, c
  <2> QED
    BY <1>6, <1>16, <2>1, <2>4, <2>5 DEF AnalyzePullRequest
<1>17. CASE CreatePrLevelComments(r)
  <2>1. head' = head /\ date' = date /\ row' = row /\ Accounted' = Accounted
    BY <1>17 DEF CreatePrLevelComments, prVars, rowVars, gapVars, Accounted
  <2> QED
    BY <1>6, <1>17, <2>1, ContinueEffect DEF CreatePrLevelComments, Others
<1>18. CASE PostComment(r)
  <2>1. head' = head /\ date' = date /\ row' = row /\ Accounted' = Accounted
    BY <1>18 DEF PostComment, prVars, rowVars, gapVars, Accounted
  <2>2. PICK c : ctx' = [ctx EXCEPT ![r].todo = @ \ {c}, ![r].results = @ \cup {c}]
    BY <1>18 DEF PostComment
  <2>3. /\ ctx'[r].lac = ctx[r].lac /\ ctx'[r].base = ctx[r].base
        /\ \A q \in Runs \ {r} : ctx'[q] = ctx[q]
    BY <1>0, <2>2 DEF TypeOK, Contexts
  <2> QED
    BY <1>6, <1>18, <2>1, <2>3 DEF PostComment, Others
<1>19. CASE PostingEnds(r)
  <2>1. /\ head' = head /\ date' = date /\ row' = row /\ Accounted' = Accounted
        /\ pc'[r] = "SaveSuggestions" /\ Others(r) /\ ctx' = ctx
    BY <1>19 DEF PostingEnds, prVars, rowVars, gapVars, Accounted, Others, TypeOK
  <2> QED
    BY <1>6, <2>1
<1>20. CASE SaveSuggestions(r)
  <2>1. head' = head /\ date' = date /\ row' = row /\ Accounted' = Accounted
    BY <1>20 DEF SaveSuggestions, prVars, rowVars, gapVars, Accounted
  <2>2. /\ [ctx[r] EXCEPT !.answered = TRUE].lac = ctx[r].lac
        /\ [ctx[r] EXCEPT !.answered = TRUE].base = ctx[r].base
        /\ [ctx[r] EXCEPT !.answered = TRUE, !.results = {}, !.lac = 0].lac = 0
        /\ [ctx[r] EXCEPT !.answered = TRUE, !.results = {}, !.lac = 0].base = ctx[r].base
    BY <1>0 DEF Contexts, Skip
  <2>3. ASSUME NEW c, c.lac \in {0, ctx[r].lac}, c.base = ctx[r].base,
               Continue(r, c, "UpdateComments")
        PROVE  CoverageInv'
    BY <1>6, <2>1, <2>3, ContinueEffect DEF Others
  <2>4. CASE Continue(r, [ctx[r] EXCEPT !.answered = TRUE], "UpdateComments")
    <3> DEFINE c == [ctx[r] EXCEPT !.answered = TRUE]
    <3>1. c.lac \in {0, ctx[r].lac} /\ c.base = ctx[r].base
      BY <2>2
    <3>2. Continue(r, c, "UpdateComments")
      BY <2>4
    <3> HIDE DEF c
    <3> QED
      BY <2>3, <3>1, <3>2
  <2>5. CASE Continue(r, [ctx[r] EXCEPT !.answered = TRUE, !.results = {}, !.lac = 0],
                      "UpdateComments")
    <3> DEFINE c == [ctx[r] EXCEPT !.answered = TRUE, !.results = {}, !.lac = 0]
    <3>1. c.lac \in {0, ctx[r].lac} /\ c.base = ctx[r].base
      BY <2>2
    <3>2. Continue(r, c, "UpdateComments")
      BY <2>5
    <3> HIDE DEF c
    <3> QED
      BY <2>3, <3>1, <3>2
  <2> QED
    BY <1>20, <2>4, <2>5 DEF SaveSuggestions
<1>21. CASE UpdateComments(r)
  <2>1. head' = head /\ date' = date /\ row' = row /\ Accounted' = Accounted
    BY <1>21 DEF UpdateComments, prVars, rowVars, gapVars, Accounted
  <2> QED
    BY <1>6, <1>21, <2>1, ContinueEffect DEF UpdateComments, Others
<1>22. CASE RequestChanges(r)
  <2>1. head' = head /\ date' = date /\ row' = row /\ Accounted' = Accounted
    BY <1>22 DEF RequestChanges, prVars, rowVars, gapVars, Accounted
  <2> QED
    BY <1>6, <1>22, <2>1, ContinueEffect DEF RequestChanges, Others
<1>23. CASE CheckReviewState(r)
  <2>1. head' = head /\ date' = date /\ row' = row /\ Accounted' = Accounted
    BY <1>23 DEF CheckReviewState, prVars, rowVars, gapVars, Accounted
  <2> QED
    BY <1>6, <1>23, <2>1, ContinueEffect DEF CheckReviewState, Others, StageFails
<1>24. CASE Approve(r)
  <2>1. head' = head /\ date' = date /\ row' = row /\ Accounted' = Accounted
    BY <1>24 DEF Approve, prVars, rowVars, gapVars, Accounted
  <2> QED
    BY <1>6, <1>24, <2>1, ContinueEffect DEF Approve, Others
<1> QED
  BY <1>1, <1>2, <1>3, <1>4, <1>5, <1>7, <1>8, <1>9, <1>10, <1>11, <1>12, <1>13, <1>14, <1>15, <1>16, <1>17, <1>18, <1>19, <1>20, <1>21, <1>22, <1>23, <1>24 DEF Review

(* Nothing recorded covers a commit the code did not have, was not told of, *)
(* or could not take for new: for every number of runs, commits, failures.  *)
THEOREM CoverageInvariant == Spec => []CoverageInv
<1>1. Init => CoverageInv
  BY DEF Init, CoverageInv, Covered, NoRow, InitialContext, Fetched, Analysed
<1>2. TypeOK /\ TypeOK' /\ CoverageInv /\ [Next]_vars => CoverageInv'
  <2> SUFFICES ASSUME TypeOK, TypeOK', CoverageInv, [Next]_vars PROVE CoverageInv'
    OBVIOUS
  <2>1. ASSUME NEW d \in 1..MaxDate, NEW isMerge \in BOOLEAN, Push(d, isMerge)
        PROVE  CoverageInv'
    BY <2>1, PushKeepsCoverage
  <2>2. ASSUME NEW r \in Runs, InsertFails(r) \/ Review(r) \/ Crash(r)
        PROVE  CoverageInv'
    BY <2>2, ReviewKeepsCoverage
  <2>3. ASSUME NEW r \in Runs, NEW origin \in Requests, CreateExecution(r, origin)
        PROVE  CoverageInv'
    <3>1. /\ head' = head /\ date' = date /\ Accounted' = Accounted
          /\ row'[r].lac = 0 /\ ctx'[r].lac = 0 /\ ctx'[r].base = 0
          /\ pc'[r] = "RecordStart" /\ Others(r)
      BY <2>3 DEF CreateExecution, prVars, gapVars, Accounted, Others, TypeOK,
                  InitialContext, NoRow
    <3> QED
      BY <3>1, StepKeepsCoverage DEF Known, Fetched, Analysed
  <2>4. CASE WindowPasses \/ UNCHANGED vars
    <3>1. UNCHANGED <<head, date, row, ctx, pc, seen, lost, raced, backdated>>
      BY <2>4 DEF WindowPasses, vars, prVars, rowVars, gapVars
    <3> QED
      BY <3>1 DEF CoverageInv, Covered, Accounted, Pushed
  <2> QED
    BY <2>1, <2>2, <2>3, <2>4 DEF Next
<1> QED
  BY <1>1, <1>2, TypeCorrect, PTL DEF Spec

(* The watermark of every row covers only commits that are accounted for    *)
(* (lastAnalyzedCommit of createLineComments, against the fetch of changes).*)
THEOREM WatermarkCorrect == Spec => []WatermarkCovered
<1>1. CoverageInv => WatermarkCovered
  BY DEF CoverageInv, WatermarkCovered
<1> QED
  BY <1>1, CoverageInvariant, PTL

-----------------------------------------------------------------------------
(* No other stage than ValidateNewCommits stops a run for want of new       *)
(* commits, and none touches the reason of another run.                     *)
LEMMA ReasonKept ==
  ASSUME TypeOK, NEW r \in Runs, Review(r) \/ InsertFails(r) \/ Crash(r),
         ~ValidateNewCommits(r)
  PROVE  /\ ctx'[r].reason = ctx[r].reason \/ ctx'[r].reason # "no_new_commits"
         /\ \A q \in Runs \ {r} : ctx'[q] = ctx[q]
<1>c. ctx \in [Runs -> Contexts] /\ ctx[r] \in Contexts
  BY DEF TypeOK
<1>s. ASSUME NEW why PROVE Skip(ctx[r], why).reason = why
  BY <1>c DEF Skip, Contexts
<1>r. Return(r) => /\ ctx'[r].reason = "none"
                   /\ \A q \in Runs \ {r} : ctx'[q] = ctx[q]
  BY <1>c DEF Return, InitialContext
<1>1. CASE RecordStart(r)
  BY <1>1, <1>r DEF RecordStart
<1>2. CASE HandlerFails(r)
  BY <1>2, <1>c DEF HandlerFails, Contexts
<1>3. CASE ResolveConfig(r)
  BY <1>3, <1>c, <1>s, ContinueEffect DEF ResolveConfig, StageFails, Contexts
<1>4. CASE ValidateConfig(r)
  <2>1. ASSUME NEW cadence PROVE [ctx[r] EXCEPT !.cadence = cadence].reason = ctx[r].reason
    BY <1>c DEF Contexts
  <2>2. ASSUME NEW cadence
        PROVE  Skip([ctx[r] EXCEPT !.cadence = cadence], "cadence").reason = "cadence"
    BY <1>c DEF Contexts, Skip
  <2> DEFINE Decided(d) ==
        Continue(r, IF d.process THEN [ctx[r] EXCEPT !.cadence = d.next]
                    ELSE Skip([ctx[r] EXCEPT !.cadence = d.next], "cadence"),
                 "FetchChangedFiles")
  <2>3. \/ \E d : Decided(d)
        \/ Continue(r, Skip(ctx[r], "config"), "FetchChangedFiles")
    BY <1>4 DEF ValidateConfig
  <2>4. ASSUME NEW d, Decided(d)
        PROVE  /\ ctx'[r].reason = ctx[r].reason \/ ctx'[r].reason = "cadence"
               /\ \A q \in Runs \ {r} : ctx'[q] = ctx[q]
    <3>1. CASE d.process
      <4>1. Continue(r, [ctx[r] EXCEPT !.cadence = d.next], "FetchChangedFiles")
        BY <2>4, <3>1
      <4>2. ctx'[r] = [ctx[r] EXCEPT !.cadence = d.next] /\ \A q \in Runs \ {r} : ctx'[q] = ctx[q]
        BY <4>1, ContinueEffect
      <4> QED
        BY <2>1, <4>2
    <3>2. CASE ~d.process
      <4>1. Continue(r, Skip([ctx[r] EXCEPT !.cadence = d.next], "cadence"), "FetchChangedFiles")
        BY <2>4, <3>2
      <4>2. /\ ctx'[r] = Skip([ctx[r] EXCEPT !.cadence = d.next], "cadence")
            /\ \A q \in Runs \ {r} : ctx'[q] = ctx[q]
        BY <4>1, ContinueEffect
      <4> QED
        BY <2>2, <4>2
    <3> QED
      BY <3>1, <3>2
  <2>5. CASE Continue(r, Skip(ctx[r], "config"), "FetchChangedFiles")
    BY <1>s, <2>5, ContinueEffect
  <2> QED
    BY <2>3, <2>4, <2>5
<1>5. CASE FetchChangedFiles(r)
  BY <1>5, <1>c, <1>s, ContinueEffect DEF FetchChangedFiles, StageFails, Contexts
<1>6. CASE InitialComment(r)
  BY <1>6, <1>c, <1>s, ContinueEffect DEF InitialComment, StageFails, Contexts
<1>7. CASE AnalyzePullRequest(r)
  BY <1>7, <1>c, <1>s, ContinueEffect DEF AnalyzePullRequest, StageFails, Contexts
<1>8. CASE AnalyzeFiles(r)
  BY <1>8, <1>c, <1>s, ContinueEffect DEF AnalyzeFiles, StageFails, Contexts
<1>9. CASE CreatePrLevelComments(r)
  BY <1>9, <1>c, <1>s, ContinueEffect DEF CreatePrLevelComments, StageFails, Contexts
<1>10. CASE CreateFileComments(r)
  <2>1. ASSUME NEW last, NEW todo
        PROVE  /\ [ctx[r] EXCEPT !.lac = last, !.answered = TRUE].reason = ctx[r].reason
               /\ [ctx[r] EXCEPT !.lac = last, !.todo = todo].reason = ctx[r].reason
               /\ [ctx[r] EXCEPT !.lac = last].reason = ctx[r].reason
               /\ [ctx[r] EXCEPT !.answered = TRUE].reason = ctx[r].reason
    BY <1>c DEF Contexts
  <2>2. \E c, next : Continue(r, c, next) /\ c.reason = ctx[r].reason
    <3>1. CASE \E last \in Pushed, todo \in SUBSET ctx[r].sugg :
                  IF ctx[r].sugg = {}
                  THEN Continue(r, [ctx[r] EXCEPT !.lac = last, !.answered = TRUE], "UpdateComments")
                  ELSE Continue(r, [ctx[r] EXCEPT !.lac = last, !.todo = todo], "PostComment")
      <4>1. PICK last \in Pushed, todo \in SUBSET ctx[r].sugg :
              \/ Continue(r, [ctx[r] EXCEPT !.lac = last, !.answered = TRUE], "UpdateComments")
              \/ Continue(r, [ctx[r] EXCEPT !.lac = last, !.todo = todo], "PostComment")
        BY <3>1
      <4> DEFINE a == [ctx[r] EXCEPT !.lac = last, !.answered = TRUE]
                 b == [ctx[r] EXCEPT !.lac = last, !.todo = todo]
      <4>2. a.reason = ctx[r].reason /\ b.reason = ctx[r].reason
        BY <2>1
      <4>3. Continue(r, a, "UpdateComments") \/ Continue(r, b, "PostComment")
        BY <4>1
      <4> HIDE DEF a, b
      <4> QED
        BY <4>2, <4>3
    <3>2. CASE \/ Continue(r, ctx[r], "UpdateComments")
               \/ Continue(r, [ctx[r] EXCEPT !.lac = LastAnalyzedCommit], "SaveSuggestions")
               \/ Continue(r, [ctx[r] EXCEPT !.answered = TRUE], "UpdateComments")
      BY <2>1, <3>2
    <3> QED
      BY <1>10, <3>1, <3>2 DEF CreateFileComments
  <2> QED
    BY <2>2, ContinueEffect
<1>11. CASE PostComment(r)
  BY <1>11, <1>c DEF PostComment, Contexts
<1>12. CASE PostingEnds(r)
  BY <1>12 DEF PostingEnds
<1>13. CASE SaveSuggestions(r)
  <2>1. /\ [ctx[r] EXCEPT !.answered = TRUE].reason = ctx[r].reason
        /\ [ctx[r] EXCEPT !.answered = TRUE, !.results = {}, !.lac = 0].reason = ctx[r].reason
    BY <1>c DEF Contexts
  <2>2. \E c, next : Continue(r, c, next) /\ c.reason = ctx[r].reason
    BY <1>13, <2>1 DEF SaveSuggestions
  <2> QED
    BY <2>2, ContinueEffect
<1>14. CASE UpdateComments(r)
  BY <1>14, <1>c, <1>s, ContinueEffect DEF UpdateComments, StageFails, Contexts
<1>15. CASE RequestChanges(r)
  BY <1>15, <1>c, <1>s, ContinueEffect DEF RequestChanges, StageFails, Contexts
<1>16. CASE CheckReviewState(r)
  BY <1>16, <1>c, <1>s, ContinueEffect DEF CheckReviewState, StageFails, Contexts
<1>17. CASE Approve(r)
  BY <1>17, <1>c, <1>s, ContinueEffect DEF Approve, StageFails, Contexts
<1>18. CASE UpdateExecution(r)
  BY <1>18 DEF UpdateExecution
<1>19. CASE UpdateFails(r)
  BY <1>19, <1>r DEF UpdateFails
<1>20. CASE RecordEnd(r)
  BY <1>20, <1>r DEF RecordEnd
<1>21. CASE InsertFails(r)
  BY <1>21, <1>r DEF InsertFails
<1>22. CASE Crash(r)
  BY <1>22, <1>r DEF Crash
<1> QED
  BY <1>1, <1>2, <1>3, <1>4, <1>5, <1>6, <1>7, <1>8, <1>9, <1>10, <1>11, <1>12, <1>13, <1>14, <1>15, <1>16, <1>17, <1>18, <1>19, <1>20, <1>21, <1>22 DEF Review

(* What a run finds in the list when it finds nothing new: either no commit *)
(* at all, which cannot be, or none beyond a mark that is covered.          *)
LEMMA NothingNew ==
  ASSUME TypeOK, CoverageInv, NEW last \in {LastAnalyzedCommit, 0},
         NewCommitsSince(last) = {}
  PROVE  Pushed \subseteq Accounted
<1>1. last # 0
  <2>1. 1 \in Pushed
    BY RunsAssumption DEF TypeOK, Commits, Pushed
  <2> QED
    BY <2>1 DEF NewCommitsSince
<1>2. \E r \in Runs : last = row[r].lac
  BY <1>1, LastAnalyzedCommitType DEF TypeOK
<1>3. last \in Pushed /\ Covered(last)
  BY <1>1, <1>2 DEF CoverageInv
<1>4. ASSUME NEW c \in Pushed PROVE date[c] <= date[last]
  <2>1. c \in Commits /\ last \in Commits
    BY <1>3, RunsAssumption DEF TypeOK, Commits, Pushed
  <2>2. date[c] \in Nat /\ date[last] \in Nat
    BY <2>1, RunsAssumption DEF TypeOK
  <2>3. ~ListedAfter(c, last)
    BY <1>1 DEF NewCommitsSince
  <2> QED
    BY <2>2, <2>3 DEF ListedAfter
<1> QED
  BY <1>1, <1>3, <1>4 DEF Covered

(* A run that stops for want of new commits leaves none unaccounted for,    *)
(* for any number of concurrent runs, commits and failures                  *)
(* (getNewCommitsSinceLastExecution).                                       *)
THEOREM SkipsAccounted == Spec => SkipMeansAccounted
<1> DEFINE Told ==
      \A r \in Runs :
        ctx[r].reason # "no_new_commits" /\ ctx'[r].reason = "no_new_commits"
          => Pushed \subseteq Accounted
<1>1. TypeOK /\ CoverageInv /\ [Next]_vars => [Told]_vars
  <2> SUFFICES ASSUME TypeOK, CoverageInv, Next PROVE Told
    BY DEF vars
  <2>1. ASSUME NEW r \in Runs, ValidateNewCommits(r) PROVE Told
    <3>c. ctx \in [Runs -> Contexts] /\ ctx[r] \in Contexts
      BY DEF TypeOK
    <3>1. CASE StageFails(r, "ResolveConfig")
      BY <3>1, ContinueEffect DEF StageFails
    <3>2. ASSUME NEW last \in {LastAnalyzedCommit, 0}, NewCommitsSince(last) = {} PROVE Told
      BY <3>2, NothingNew
    <3>3. ASSUME NEW last \in {LastAnalyzedCommit, 0}, NewCommitsSince(last) # {},
                 NEW c, c = [ctx[r] EXCEPT !.base = last],
                 Continue(r, CASE NewCommitsSince(last) = {} -> Skip(c, "no_new_commits")
                               [] NewCommitsSince(last) # {} /\ NewCommitsSince(last) \subseteq merges
                                    -> Skip(c, "only_merges")
                               [] OTHER -> c, "ResolveConfig")
          PROVE  Told
      <4>1. c.reason = ctx[r].reason /\ Skip(c, "only_merges").reason = "only_merges"
        BY <3>c, <3>3 DEF Contexts, Skip
      <4>2. Continue(r, IF NewCommitsSince(last) \subseteq merges
                        THEN Skip(c, "only_merges") ELSE c, "ResolveConfig")
        BY <3>3
      <4>3. /\ ctx'[r] = IF NewCommitsSince(last) \subseteq merges THEN Skip(c, "only_merges") ELSE c
            /\ \A q \in Runs \ {r} : ctx'[q] = ctx[q]
        BY <4>2, ContinueEffect
      <4> QED
        BY <4>1, <4>3
    <3> QED
      BY <2>1, <3>1, <3>2, <3>3 DEF ValidateNewCommits
  <2>2. ASSUME NEW r \in Runs, InsertFails(r) \/ Review(r) \/ Crash(r), ~ValidateNewCommits(r)
        PROVE  Told
    BY <2>2, ReasonKept
  <2>3. ASSUME NEW r \in Runs, NEW origin \in Requests, CreateExecution(r, origin) PROVE Told
    <3>1. ctx' = [ctx EXCEPT ![r] = InitialContext(origin)]
      BY <2>3 DEF CreateExecution
    <3>2. InitialContext(origin).reason = "none"
      BY DEF InitialContext
    <3> QED
      BY <3>1, <3>2 DEF TypeOK
  <2>4. ASSUME NEW d \in 1..MaxDate, NEW isMerge \in BOOLEAN, Push(d, isMerge) PROVE Told
    BY <2>4 DEF Push
  <2>5. CASE WindowPasses
    BY <2>5 DEF WindowPasses
  <2> QED
    BY <2>1, <2>2, <2>3, <2>4, <2>5 DEF Next
<1> QED
  BY <1>1, TypeCorrect, CoverageInvariant, PTL DEF Spec, SkipMeansAccounted

-----------------------------------------------------------------------------
(* Where a run is, and what it has left so far on the pull request, in its  *)
(* row and in the timeline.                                                 *)
Before == {"idle", "RecordStart", "ValidateNewCommits", "ResolveConfig",
           "ValidateConfig", "FetchChangedFiles", "InitialComment"}
During == {"InitialComment", "AnalyzePullRequest", "AnalyzeFiles",
           "CreatePrLevelComments", "CreateFileComments", "PostComment",
           "SaveSuggestions", "UpdateComments", "RequestChanges",
           "CheckReviewState", "Approve"}
Over   == {"UpdateExecution", "RecordEnd", "done"}

NoTrace(r) ==
  /\ r \notin prComments \cup approvers
  /\ summary[r] = "none"
  /\ \A c \in Commits : <<r, c>> \notin comments

(* A run is skipped before its announcement or never, so that a skipped run *)
(* has neither a trace nor a mark; its row is open until the last stage but *)
(* one, and closed with the status the timeline then repeats.               *)
StageOf(r) ==
  /\ ctx[r].status = "skipped" => pc[r] \in Over
  /\ pc[r] \in Before \/ ctx[r].status = "skipped" => NoTrace(r) /\ ctx[r].lac = 0
  /\ pc[r] = "idle" => row[r].status = "none" /\ row[r].lac = 0
  /\ pc[r] \notin {"idle", "RecordEnd", "done"} =>
       row[r].status = "in_progress" /\ row[r].lac = 0
  /\ pc[r] = "RecordEnd" => row[r].status = FinalStatus(ctx[r])
  /\ entry[r] \in Terminal => pc[r] = "done" /\ row[r].status = entry[r]

StageInv == \A r \in Runs : StageOf(r)

(* A step of one run leaves what the others have.                           *)
Aside(r) ==
  \A q \in Runs \ {r} :
    /\ row'[q] = row[q] /\ ctx'[q] = ctx[q] /\ pc'[q] = pc[q]
    /\ entry'[q] = entry[q] /\ summary'[q] = summary[q]
    /\ (q \in prComments') = (q \in prComments)
    /\ (q \in approvers') = (q \in approvers)
    /\ \A c \in Commits : (<<q, c>> \in comments') = (<<q, c>> \in comments)

LEMMA AsideKeepsStages ==
  ASSUME StageInv, NEW r \in Runs, Aside(r), StageOf(r)'
  PROVE  StageInv'
<1> SUFFICES ASSUME NEW q \in Runs \ {r} PROVE StageOf(q)'
  BY DEF StageInv
<1>1. StageOf(q)
  BY DEF StageInv
<1> QED
  BY <1>1 DEF Aside, StageOf, NoTrace, FinalStatus

(* A run that goes on before its announcement, skipped or not.              *)
LEMMA BeforeGoesOn ==
  ASSUME TypeOK, StageInv, NEW r \in Runs, pc[r] \in Before \ {"idle"},
         NEW c, c.lac = ctx[r].lac, NEW next \in Before \ {"idle"}, Continue(r, c, next),
         UNCHANGED <<postVars, revVars, rowVars>>
  PROVE  StageInv'
<1>1. /\ ctx'[r] = c
      /\ pc'[r] = IF c.status = "skipped" THEN "UpdateExecution" ELSE next
      /\ Aside(r)
  BY ContinueEffect DEF Aside, postVars, revVars, rowVars
<1>2. StageOf(r)
  BY DEF StageInv
<1>3. StageOf(r)'
  BY <1>1, <1>2 DEF StageOf, NoTrace, Before, Over, postVars, revVars, rowVars
<1> QED
  BY <1>1, <1>3, AsideKeepsStages

(* A run that goes on from there: it is not skipped any more.               *)
LEMMA DuringGoesOn ==
  ASSUME TypeOK, StageInv, NEW r \in Runs, pc[r] \in During,
         ctx'[r].status = ctx[r].status,
         pc'[r] \in (During \cup {"UpdateExecution"}) \ {"InitialComment"},
         row' = row, entry' = entry, Aside(r)
  PROVE  StageInv'
<1>1. StageOf(r)
  BY DEF StageInv
<1>2. ctx'[r].status # "skipped"
  BY <1>1 DEF StageOf, During, Over
<1>3. StageOf(r)'
  BY <1>1, <1>2 DEF StageOf, During, Before
<1> QED
  BY <1>3, AsideKeepsStages

(* A run that returns, whatever becomes of its timeline entry.              *)
LEMMA ReturnKeepsStages ==
  ASSUME TypeOK, StageInv, NEW r \in Runs, Return(r), pc[r] # "done",
         row' = row, UNCHANGED <<postVars, revVars>>,
         \/ entry' = entry
         \/ entry' = [entry EXCEPT ![r] = row[r].status]
  PROVE  StageInv'
<1>1. /\ ctx'[r].lac = 0 /\ pc'[r] = "done" /\ ctx'[r].status = ctx[r].status
      /\ Aside(r)
  BY ReturnEffect DEF Return, InitialContext, TypeOK, Aside, postVars, revVars
<1>2. StageOf(r)
  BY DEF StageInv
<1>3. entry'[r] = entry[r] \/ entry'[r] = row[r].status
  BY DEF TypeOK
<1>4. StageOf(r)'
  BY <1>1, <1>2, <1>3 DEF StageOf, NoTrace, Before, Over, postVars, revVars
<1> QED
  BY <1>1, <1>4, AsideKeepsStages

LEMMA ReviewKeepsStages ==
  ASSUME TypeOK, StageInv, NEW r \in Runs, Review(r) \/ InsertFails(r) \/ Crash(r)
  PROVE  StageInv'
<1>0. ctx[r] \in Contexts /\ StageOf(r)
  BY DEF TypeOK, StageInv
<1>s. ASSUME NEW c \in Contexts, NEW why PROVE Skip(c, why).lac = c.lac
  BY DEF Skip, Contexts
<1>1. CASE RecordStart(r)
  <2>1. CASE Return(r) /\ UNCHANGED entry
    <3>1. row' = row /\ UNCHANGED <<postVars, revVars>> /\ pc[r] # "done"
      BY <1>1 DEF RecordStart
    <3> QED
      BY <2>1, <3>1, ReturnKeepsStages
  <2>2. CASE /\ entry' = [entry EXCEPT ![r] = "in_progress"]
             /\ pc' = [pc EXCEPT ![r] = "ValidateNewCommits"]
             /\ ctx' = ctx
    <3>1. Aside(r) /\ pc'[r] = "ValidateNewCommits" /\ entry'[r] = "in_progress"
      BY <1>1, <2>2 DEF RecordStart, Aside, TypeOK, postVars, revVars
    <3>2. StageOf(r)'
      BY <1>0, <1>1, <2>2, <3>1
         DEF RecordStart, StageOf, NoTrace, Before, Over, Terminal, postVars, revVars
    <3> QED
      BY <3>1, <3>2, AsideKeepsStages
  <2> QED
    BY <1>1, <2>1, <2>2 DEF RecordStart
<1>2. CASE HandlerFails(r)
  <2>1. /\ ctx'[r].status = ctx[r].status /\ ctx'[r].lac = ctx[r].lac
        /\ pc'[r] = "UpdateExecution" /\ Aside(r)
    BY <1>0, <1>2 DEF HandlerFails, Aside, TypeOK, Contexts, postVars, revVars, rowVars
  <2>2. StageOf(r)'
    BY <1>0, <1>2, <2>1
       DEF HandlerFails, StageOf, NoTrace, Before, Over, postVars, revVars, rowVars
  <2> QED
    BY <2>1, <2>2, AsideKeepsStages
<1>3. CASE ValidateNewCommits(r)
  <2>1. PICK c : c.lac = ctx[r].lac /\ Continue(r, c, "ResolveConfig")
    <3>1. CASE StageFails(r, "ResolveConfig")
      BY <3>1 DEF StageFails
    <3>2. ASSUME NEW last \in {LastAnalyzedCommit, 0},
                 Continue(r, CASE NewCommitsSince(last) = {} ->
                                    Skip([ctx[r] EXCEPT !.base = last], "no_new_commits")
                               [] NewCommitsSince(last) # {} /\ NewCommitsSince(last) \subseteq merges ->
                                    Skip([ctx[r] EXCEPT !.base = last], "only_merges")
                               [] OTHER -> [ctx[r] EXCEPT !.base = last], "ResolveConfig")
          PROVE  \E c : c.lac = ctx[r].lac /\ Continue(r, c, "ResolveConfig")
      <4> DEFINE b == [ctx[r] EXCEPT !.base = last]
      <4>1. b \in Contexts /\ b.lac = ctx[r].lac
        <5>1. last \in Commits \cup {0}
          BY LastAnalyzedCommitType DEF TypeOK
        <5> QED
          BY <1>0, <5>1 DEF Contexts
      <4>2. \A why : Skip(b, why).lac = ctx[r].lac
        BY <1>s, <4>1
      <4> HIDE DEF b
      <4>3. \/ Continue(r, Skip(b, "no_new_commits"), "ResolveConfig")
            \/ Continue(r, Skip(b, "only_merges"), "ResolveConfig")
            \/ Continue(r, b, "ResolveConfig")
        BY <3>2 DEF b
      <4> QED
        BY <4>1, <4>2, <4>3
    <3> QED
      BY <1>3, <3>1, <3>2 DEF ValidateNewCommits
  <2> QED
    BY <1>3, <2>1, BeforeGoesOn DEF ValidateNewCommits, Before
<1>4. CASE ResolveConfig(r)
  <2>1. PICK c : c.lac = ctx[r].lac /\ Continue(r, c, "ValidateConfig")
    BY <1>0, <1>s, <1>4 DEF ResolveConfig
  <2> QED
    BY <1>4, <2>1, BeforeGoesOn DEF ResolveConfig, Before
<1>5. CASE ValidateConfig(r)
  <2> DEFINE Decided(d) ==
        Continue(r, IF d.process THEN [ctx[r] EXCEPT !.cadence = d.next]
                    ELSE Skip([ctx[r] EXCEPT !.cadence = d.next], "cadence"),
                 "FetchChangedFiles")
  <2>1. \/ \E d \in Decisions : Decided(d)
        \/ Continue(r, Skip(ctx[r], "config"), "FetchChangedFiles")
    BY <1>5, DecisionType DEF ValidateConfig
  <2>2. ASSUME NEW d \in Decisions, Decided(d)
        PROVE  \E c : c.lac = ctx[r].lac /\ Continue(r, c, "FetchChangedFiles")
    <3> DEFINE k == [ctx[r] EXCEPT !.cadence = d.next]
    <3>1. k \in Contexts /\ k.lac = ctx[r].lac
      BY <1>0 DEF Contexts, Decisions
    <3>2. Skip(k, "cadence").lac = ctx[r].lac
      BY <1>s, <3>1
    <3>3. Continue(r, k, "FetchChangedFiles") \/ Continue(r, Skip(k, "cadence"), "FetchChangedFiles")
      BY <2>2
    <3> HIDE DEF k
    <3> QED
      BY <3>1, <3>2, <3>3
  <2>3. PICK c : c.lac = ctx[r].lac /\ Continue(r, c, "FetchChangedFiles")
    BY <1>0, <1>s, <2>1, <2>2
  <2> QED
    BY <1>5, <2>3, BeforeGoesOn DEF ValidateConfig, Before
<1>6. CASE FetchChangedFiles(r)
  <2>1. PICK c : c.lac = ctx[r].lac /\ Continue(r, c, "InitialComment")
    <3>1. [ctx[r] EXCEPT !.files = ChangedSince(ctx[r].base)].lac = ctx[r].lac
      BY <1>0 DEF Contexts
    <3> QED
      BY <1>0, <1>s, <1>6, <3>1 DEF FetchChangedFiles, StageFails
  <2> QED
    BY <1>6, <2>1, BeforeGoesOn DEF FetchChangedFiles, Before
<1>7. CASE InitialComment(r)
  <2>0. ctx[r].status # "skipped"
    BY <1>0, <1>7 DEF InitialComment, StageOf, Over
  <2>1. /\ ctx'[r].status = ctx[r].status /\ Aside(r)
        /\ pc'[r] \in (During \cup {"UpdateExecution"}) \ {"InitialComment"}
    BY <1>0, <1>7, <2>0, ContinueEffect
       DEF InitialComment, Aside, During, Contexts, TypeOK, postVars, revVars, rowVars
  <2> QED
    BY <1>0, <1>7, <2>1, DuringGoesOn DEF InitialComment, StageOf, During, Over, rowVars, postVars
<1>8. CASE AnalyzePullRequest(r)
  <2>0. ctx[r].status # "skipped"
    BY <1>0, <1>8 DEF AnalyzePullRequest, StageOf, Over
  <2>1. /\ ctx'[r].status = ctx[r].status /\ Aside(r)
        /\ pc'[r] \in (During \cup {"UpdateExecution"}) \ {"InitialComment"}
    BY <1>0, <1>8, <2>0, ContinueEffect
       DEF AnalyzePullRequest, Aside, During, Contexts, TypeOK, postVars, revVars, rowVars
  <2> QED
    BY <1>0, <1>8, <2>1, DuringGoesOn DEF AnalyzePullRequest, StageOf, During, Over, rowVars, postVars
<1>9. CASE AnalyzeFiles(r)
  <2>0. ctx[r].status # "skipped"
    BY <1>0, <1>9 DEF AnalyzeFiles, StageOf, Over
  <2>1. /\ ctx'[r].status = ctx[r].status /\ Aside(r)
        /\ pc'[r] \in (During \cup {"UpdateExecution"}) \ {"InitialComment"}
    BY <1>0, <1>9, <2>0, ContinueEffect
       DEF AnalyzeFiles, Aside, During, Contexts, TypeOK, postVars, revVars, rowVars
  <2> QED
    BY <1>0, <1>9, <2>1, DuringGoesOn DEF AnalyzeFiles, StageOf, During, Over, rowVars, postVars
<1>10. CASE CreatePrLevelComments(r)
  <2>0. ctx[r].status # "skipped"
    BY <1>0, <1>10 DEF CreatePrLevelComments, StageOf, Over
  <2>1. /\ ctx'[r].status = ctx[r].status /\ Aside(r)
        /\ pc'[r] \in (During \cup {"UpdateExecution"}) \ {"InitialComment"}
    BY <1>0, <1>10, <2>0, ContinueEffect
       DEF CreatePrLevelComments, Aside, During, Contexts, TypeOK, postVars, revVars, rowVars
  <2> QED
    BY <1>0, <1>10, <2>1, DuringGoesOn DEF CreatePrLevelComments, StageOf, During, Over, rowVars, postVars
<1>11. CASE CreateFileComments(r)
  <2>0. ctx[r].status # "skipped"
    BY <1>0, <1>11 DEF CreateFileComments, StageOf, Over
  <2>1. \E c, next : /\ Continue(r, c, next) /\ c.status = ctx[r].status
                     /\ next \in (During \cup {"UpdateExecution"}) \ {"InitialComment"}
    <3>s. ASSUME NEW last, NEW todo
          PROVE  /\ [ctx[r] EXCEPT !.lac = last, !.answered = TRUE].status = ctx[r].status
                 /\ [ctx[r] EXCEPT !.lac = last, !.todo = todo].status = ctx[r].status
                 /\ [ctx[r] EXCEPT !.lac = last].status = ctx[r].status
                 /\ [ctx[r] EXCEPT !.answered = TRUE].status = ctx[r].status
      BY <1>0 DEF Contexts
    <3>1. CASE \E last \in Pushed, todo \in SUBSET ctx[r].sugg :
                  IF ctx[r].sugg = {}
                  THEN Continue(r, [ctx[r] EXCEPT !.lac = last, !.answered = TRUE], "UpdateComments")
                  ELSE Continue(r, [ctx[r] EXCEPT !.lac = last, !.todo = todo], "PostComment")
      <4>1. PICK last \in Pushed, todo \in SUBSET ctx[r].sugg :
              \/ Continue(r, [ctx[r] EXCEPT !.lac = last, !.answered = TRUE], "UpdateComments")
              \/ Continue(r, [ctx[r] EXCEPT !.lac = last, !.todo = todo], "PostComment")
        BY <3>1
      <4> DEFINE a == [ctx[r] EXCEPT !.lac = last, !.answered = TRUE]
                 b == [ctx[r] EXCEPT !.lac = last, !.todo = todo]
      <4>2. a.status = ctx[r].status /\ b.status = ctx[r].status
        BY <3>s
      <4>3. Continue(r, a, "UpdateComments") \/ Continue(r, b, "PostComment")
        BY <4>1
      <4> HIDE DEF a, b
      <4> QED
        BY <4>2, <4>3 DEF During
    <3>2. CASE \/ Continue(r, ctx[r], "UpdateComments")
               \/ Continue(r, [ctx[r] EXCEPT !.lac = LastAnalyzedCommit], "SaveSuggestions")
               \/ Continue(r, [ctx[r] EXCEPT !.answered = TRUE], "UpdateComments")
      <4> DEFINE a == [ctx[r] EXCEPT !.lac = LastAnalyzedCommit]
                 b == [ctx[r] EXCEPT !.answered = TRUE]
      <4>1. a.status = ctx[r].status /\ b.status = ctx[r].status
        BY <3>s
      <4>2. \/ Continue(r, ctx[r], "UpdateComments")
            \/ Continue(r, a, "SaveSuggestions") \/ Continue(r, b, "UpdateComments")
        BY <3>2
      <4> HIDE DEF a, b
      <4> QED
        BY <4>1, <4>2 DEF During
    <3> QED
      BY <1>11, <3>1, <3>2 DEF CreateFileComments
  <2>2. /\ ctx'[r].status = ctx[r].status /\ Aside(r)
        /\ pc'[r] \in (During \cup {"UpdateExecution"}) \ {"InitialComment"}
    BY <1>11, <2>0, <2>1, ContinueEffect DEF CreateFileComments, Aside, postVars, revVars, rowVars
  <2> QED
    BY <1>11, <2>2, DuringGoesOn DEF CreateFileComments, During, rowVars
<1>12. CASE PostComment(r)
  <2>1. /\ ctx'[r].status = ctx[r].status /\ Aside(r)
        /\ pc'[r] \in (During \cup {"UpdateExecution"}) \ {"InitialComment"}
    BY <1>0, <1>12 DEF PostComment, Aside, During, Contexts, TypeOK, postVars, revVars, rowVars
  <2> QED
    BY <1>0, <1>12, <2>1, DuringGoesOn DEF PostComment, StageOf, During, Over, rowVars, postVars
<1>13. CASE PostingEnds(r)
  <2>1. /\ ctx'[r].status = ctx[r].status /\ Aside(r)
        /\ pc'[r] \in (During \cup {"UpdateExecution"}) \ {"InitialComment"}
    BY <1>0, <1>13 DEF PostingEnds, Aside, During, Contexts, TypeOK, postVars, revVars, rowVars
  <2> QED
    BY <1>0, <1>13, <2>1, DuringGoesOn DEF PostingEnds, StageOf, During, Over, rowVars, postVars
<1>14. CASE SaveSuggestions(r)
  <2>0. ctx[r].status # "skipped"
    BY <1>0, <1>14 DEF SaveSuggestions, StageOf, Over
  <2>1. /\ [ctx[r] EXCEPT !.answered = TRUE].status = ctx[r].status
        /\ [ctx[r] EXCEPT !.answered = TRUE, !.results = {}, !.lac = 0].status = ctx[r].status
    BY <1>0 DEF Contexts
  <2>2. \E c : Continue(r, c, "UpdateComments") /\ c.status = ctx[r].status
    BY <1>14, <2>1 DEF SaveSuggestions
  <2>3. /\ ctx'[r].status = ctx[r].status /\ pc'[r] = "UpdateComments" /\ Aside(r)
    BY <1>14, <2>0, <2>2, ContinueEffect DEF SaveSuggestions, Aside, postVars, revVars, rowVars
  <2> QED
    BY <1>14, <2>3, DuringGoesOn DEF SaveSuggestions, During, rowVars
<1>15. CASE UpdateComments(r)
  <2>0. ctx[r].status # "skipped"
    BY <1>0, <1>15 DEF UpdateComments, StageOf, Over
  <2>1. /\ ctx'[r].status = ctx[r].status /\ Aside(r)
        /\ pc'[r] \in (During \cup {"UpdateExecution"}) \ {"InitialComment"}
    BY <1>0, <1>15, <2>0, ContinueEffect
       DEF UpdateComments, Aside, During, Contexts, TypeOK, postVars, revVars, rowVars
  <2> QED
    BY <1>0, <1>15, <2>1, DuringGoesOn DEF UpdateComments, StageOf, During, Over, rowVars, postVars
<1>16. CASE RequestChanges(r)
  <2>0. ctx[r].status # "skipped"
    BY <1>0, <1>16 DEF RequestChanges, StageOf, Over
  <2>1. /\ ctx'[r].status = ctx[r].status /\ Aside(r)
        /\ pc'[r] \in (During \cup {"UpdateExecution"}) \ {"InitialComment"}
    BY <1>0, <1>16, <2>0, ContinueEffect
       DEF RequestChanges, Aside, During, Contexts, TypeOK, postVars, revVars, rowVars
  <2> QED
    BY <1>0, <1>16, <2>1, DuringGoesOn DEF RequestChanges, StageOf, During, Over, rowVars, postVars
<1>17. CASE CheckReviewState(r)
  <2>0. ctx[r].status # "skipped"
    BY <1>0, <1>17 DEF CheckReviewState, StageOf, Over
  <2>1. /\ ctx'[r].status = ctx[r].status /\ Aside(r)
        /\ pc'[r] \in (During \cup {"UpdateExecution"}) \ {"InitialComment"}
    BY <1>0, <1>17, <2>0, ContinueEffect
       DEF CheckReviewState, StageFails, Aside, During, Contexts, TypeOK, postVars, revVars, rowVars
  <2> QED
    BY <1>0, <1>17, <2>1, DuringGoesOn DEF CheckReviewState, StageOf, During, Over, rowVars, postVars
<1>18. CASE Approve(r)
  <2>0. ctx[r].status # "skipped"
    BY <1>0, <1>18 DEF Approve, StageOf, Over
  <2>1. /\ ctx'[r].status = ctx[r].status /\ Aside(r)
        /\ pc'[r] \in (During \cup {"UpdateExecution"}) \ {"InitialComment"}
    BY <1>0, <1>18, <2>0, ContinueEffect
       DEF Approve, Aside, During, Contexts, TypeOK, postVars, revVars, rowVars
  <2> QED
    BY <1>0, <1>18, <2>1, DuringGoesOn DEF Approve, StageOf, During, Over, rowVars, postVars
<1>19. CASE UpdateExecution(r)
  <2>1. ExecutionData(ctx[r]).status = FinalStatus(ctx[r])
    BY DEF ExecutionData
  <2>2. /\ row'[r] = ExecutionData(ctx[r]) /\ pc'[r] = "RecordEnd" /\ ctx' = ctx
        /\ entry' = entry /\ Aside(r)
    BY <1>19 DEF UpdateExecution, Aside, TypeOK, postVars, revVars
  <2>3. StageOf(r)'
    BY <1>0, <1>19, <2>1, <2>2
       DEF UpdateExecution, StageOf, NoTrace, Before, Over, FinalStatus, postVars, revVars
  <2> QED
    BY <2>2, <2>3, AsideKeepsStages
<1>20. CASE UpdateFails(r)
  BY <1>20, ReturnKeepsStages DEF UpdateFails, rowVars
<1>21. CASE InsertFails(r)
  BY <1>21, ReturnKeepsStages DEF InsertFails, rowVars
<1>22. CASE Crash(r)
  <2>1. pc[r] # "done"
    BY <1>22 DEF Crash, Active
  <2> QED
    BY <1>22, <2>1, ReturnKeepsStages DEF Crash, rowVars
<1>23. CASE RecordEnd(r)
  <2>1. row[r].status = FinalStatus(ctx[r])
    BY <1>0, <1>23 DEF RecordEnd, StageOf
  <2> QED
    BY <1>23, <2>1, ReturnKeepsStages DEF RecordEnd
<1> QED
  BY <1>1, <1>2, <1>3, <1>4, <1>5, <1>6, <1>7, <1>8, <1>9, <1>10, <1>11, <1>12,
     <1>13, <1>14, <1>15, <1>16, <1>17, <1>18, <1>19, <1>20, <1>21, <1>22, <1>23 DEF Review

LEMMA StagesHold == Spec => []StageInv
<1>1. Init => StageInv
  <2> SUFFICES ASSUME Init, NEW r \in Runs PROVE StageOf(r)
    BY DEF StageInv
  <2> QED
    BY DEF Init, StageOf, NoTrace, NoRow, InitialContext, Before, Terminal
<1>2. TypeOK /\ StageInv /\ [Next]_vars => StageInv'
  <2> SUFFICES ASSUME TypeOK, StageInv, [Next]_vars PROVE StageInv'
    OBVIOUS
  <2>1. ASSUME NEW r \in Runs, InsertFails(r) \/ Review(r) \/ Crash(r) PROVE StageInv'
    BY <2>1, ReviewKeepsStages
  <2>2. ASSUME NEW r \in Runs, NEW origin \in Requests, CreateExecution(r, origin)
        PROVE  StageInv'
    <3>1. /\ ctx'[r].status = "in_progress" /\ ctx'[r].lac = 0
          /\ row'[r].status = "in_progress" /\ row'[r].lac = 0
          /\ pc'[r] = "RecordStart" /\ entry' = entry /\ Aside(r)
      BY <2>2 DEF CreateExecution, Aside, TypeOK, InitialContext, NoRow, postVars, revVars
    <3>2. StageOf(r)
      BY DEF StageInv
    <3>3. StageOf(r)'
      BY <2>2, <3>1, <3>2 DEF CreateExecution, StageOf, NoTrace, Before, postVars, revVars
    <3> QED
      BY <3>1, <3>3, AsideKeepsStages
  <2>3. ASSUME \/ \E d \in 1..MaxDate, isMerge \in BOOLEAN : Push(d, isMerge)
               \/ WindowPasses \/ UNCHANGED vars
        PROVE  StageInv'
    <3>1. UNCHANGED <<row, ctx, pc, entry, postVars, revVars>>
      BY <2>3 DEF Push, WindowPasses, vars, rowVars
    <3> QED
      BY <3>1 DEF StageInv, StageOf, NoTrace, FinalStatus, postVars, revVars
  <2> QED
    BY <2>1, <2>2, <2>3 DEF Next
<1> QED
  BY <1>1, <1>2, TypeCorrect, PTL DEF Spec

(* A skipped run stays off the pull request, however its end and a crash    *)
(* fall (PipelineExecutor.execute).                                         *)
THEOREM SkippedRunsLeaveNothing == Spec => []SkippedLeavesNoTrace
<1>1. StageInv => SkippedLeavesNoTrace
  BY DEF StageInv, StageOf, NoTrace, SkippedLeavesNoTrace
<1> QED
  BY <1>1, StagesHold, PTL

(* The timeline repeats the row, whatever write fails                       *)
(* (AutomationExecutionService.updateCodeReview).                           *)
THEOREM TimelineAgrees == Spec => []TimelineFollowsRow
<1>1. StageInv => TimelineFollowsRow
  BY DEF StageInv, StageOf, TimelineFollowsRow
<1> QED
  BY <1>1, StagesHold, PTL

-----------------------------------------------------------------------------
(* A run closes its row once, and a mark comes with a success only.         *)
LEMMA ClosingImplementsLedger ==
  ASSUME TypeOK, StageInv, NEW r \in Runs, UpdateExecution(r)
  PROVE  Ledger!Close(r)
<1> DEFINE end == ExecutionData(ctx[r])
<1>1. /\ row[r].status = "in_progress" /\ row[r].lac = 0
      /\ ctx[r].status = "skipped" => ctx[r].lac = 0
  BY DEF StageInv, StageOf, UpdateExecution
<1>2. row' = [row EXCEPT ![r] = end] /\ row \in [Runs -> Rows] /\ ctx[r] \in Contexts
  BY DEF UpdateExecution, TypeOK
<1>3. \/ end.status \in {"success", "error", "skipped"} /\ end.lac = 0
      \/ end.status = "success" /\ end.lac \in Commits
  BY <1>1, <1>2 DEF ExecutionData, FinalStatus, Contexts
<1> HIDE DEF end
<1>4. [q \in Runs |-> row[q].status]' = [[q \in Runs |-> row[q].status] EXCEPT ![r] = end.status]
  BY <1>2
<1>5. [q \in Runs |-> row[q].lac]' = [[q \in Runs |-> row[q].lac] EXCEPT ![r] = end.lac]
  BY <1>2
<1>6. end.lac = 0 => [q \in Runs |-> row[q].lac]' = [q \in Runs |-> row[q].lac]
  BY <1>1, <1>5
<1> QED
  BY <1>1, <1>3, <1>4, <1>5, <1>6 DEF Ledger!Close

LEMMA OpeningImplementsLedger ==
  ASSUME TypeOK, StageInv, NEW r \in Runs, NEW origin \in Requests, CreateExecution(r, origin)
  PROVE  Ledger!Open(r)
<1>1. row[r].status = "none" /\ row[r].lac = 0
  BY DEF StageInv, StageOf, CreateExecution
<1>2. /\ row \in [Runs -> Rows]
      /\ row' = [row EXCEPT ![r] = [NoRow EXCEPT !.status = "in_progress"]]
  BY DEF TypeOK, CreateExecution
<1>3. [NoRow EXCEPT !.status = "in_progress"].status = "in_progress"
      /\ [NoRow EXCEPT !.status = "in_progress"].lac = 0
  BY DEF NoRow
<1>4. [q \in Runs |-> row[q].status]' = [[q \in Runs |-> row[q].status] EXCEPT ![r] = "in_progress"]
  BY <1>2, <1>3
<1>5. [q \in Runs |-> row[q].lac]' = [q \in Runs |-> row[q].lac]
  BY <1>1, <1>2, <1>3
<1> QED
  BY <1>1, <1>4, <1>5 DEF Ledger!Open

(* The runs implement the executions table: a row is opened once and closed *)
(* once, and only a success leaves a mark, for any number of concurrent     *)
(* runs and failures (AutomationExecutionService).                          *)
THEOREM RunsImplementLedger == Spec => LedgerSpec
<1>1. Init => Ledger!Init
  BY DEF Init, NoRow, Ledger!Init
<1>2. TypeOK /\ StageInv /\ [Next]_vars => [Ledger!Next]_(Ledger!ledger)
  <2> SUFFICES ASSUME TypeOK, StageInv, [Next]_vars
               PROVE  Ledger!Next \/ UNCHANGED Ledger!ledger
    OBVIOUS
  <2>1. ASSUME row' = row PROVE UNCHANGED Ledger!ledger
    BY <2>1 DEF Ledger!ledger
  <2>2. ASSUME NEW r \in Runs, UpdateExecution(r) PROVE Ledger!Next
    BY <2>2, ClosingImplementsLedger DEF Ledger!Next
  <2>3. ASSUME NEW r \in Runs, NEW origin \in Requests, CreateExecution(r, origin)
        PROVE  Ledger!Next
    BY <2>3, OpeningImplementsLedger DEF Ledger!Next
  <2>4. ASSUME NEW r \in Runs, InsertFails(r) \/ Review(r) \/ Crash(r), ~UpdateExecution(r)
        PROVE  row' = row
    BY <2>4 DEF Review, rowVars, InsertFails, Crash, RecordStart, HandlerFails,
       ValidateNewCommits, ResolveConfig, ValidateConfig, FetchChangedFiles, InitialComment,
       AnalyzePullRequest, AnalyzeFiles, CreatePrLevelComments, CreateFileComments, PostComment,
       PostingEnds, SaveSuggestions, UpdateComments, RequestChanges, CheckReviewState, Approve,
       UpdateFails, RecordEnd
  <2>5. ASSUME \/ \E d \in 1..MaxDate, isMerge \in BOOLEAN : Push(d, isMerge)
               \/ WindowPasses \/ UNCHANGED vars
        PROVE  row' = row
    BY <2>5 DEF Push, WindowPasses, vars, rowVars
  <2> QED
    BY <2>1, <2>2, <2>3, <2>4, <2>5 DEF Next
<1> QED
  BY <1>1, <1>2, TypeCorrect, StagesHold, PTL DEF Spec, LedgerSpec, Ledger!Spec

-----------------------------------------------------------------------------
(***************************************************************************)
(* Runs that follow one another, with no failure so far: what one step of   *)
(* such a run may do, field by field.                                      *)
(***************************************************************************)
Based  == {"ResolveConfig", "ValidateConfig", "FetchChangedFiles", "PostComment"}
            \cup ReviewWindow
Marked == {"PostComment", "SaveSuggestions", "UpdateComments", "RequestChanges",
           "CheckReviewState", "Approve"}

(* The run has read its last commit and will record it.                     *)
Marking(r) == pc[r] \in Marked \/ (pc[r] = "UpdateExecution" /\ ctx[r].status # "skipped")

(* The cadence rules have let the run go on.                                *)
PastCadence(r) ==
  \/ pc[r] \in {"FetchChangedFiles"} \cup During
  \/ pc[r] = "UpdateExecution" /\ ctx[r].status # "skipped"

CadenceAllows(origin) ==
  origin = "automation" =>
    /\ Cadence = "manual" => Successes = {}
    /\ Cadence = "auto_pause" =>
         Successes = {} \/ Cardinality(recent \cap Successes) < PushesToTrigger

Apart(r) ==
  /\ head' = head /\ date' = date /\ created' = created /\ recent' = recent
  /\ \A q \in Runs \ {r} :
       /\ pc'[q] = pc[q] /\ ctx'[q] = ctx[q] /\ row'[q] = row[q]
       /\ summary'[q] = summary[q] /\ announced'[q] = announced[q]

RowMoves(r) ==
  IF pc[r] = "UpdateExecution"
  THEN pc'[r] = "RecordEnd" /\ ctx'[r] = ctx[r] /\ row'[r] = ExecutionData(ctx[r])
  ELSE pc'[r] \notin {"RecordEnd", "idle"} /\ row'[r] = row[r]

BaseMoves(r) ==
  pc'[r] \in Based => \/ pc[r] \in Based /\ ctx'[r].base = ctx[r].base
                     \/ ctx'[r].base = LastAnalyzedCommit

FilesMove(r) ==
  pc'[r] \in ReviewWindow =>
    /\ ctx'[r].base = ctx[r].base
    /\ \/ pc[r] \in ReviewWindow /\ ctx'[r].files = ctx[r].files
       \/ ctx'[r].files = ChangedSince(ctx[r].base)

SuggestionsMove(r) ==
  pc'[r] \in Analysed =>
    /\ ctx'[r].base = ctx[r].base
    /\ \/ pc[r] \in Analysed /\ ctx'[r].sugg = ctx[r].sugg
       \/ pc[r] \in ReviewWindow /\ ctx'[r].sugg \subseteq ctx[r].files

TodoMoves(r) ==
  pc'[r] = "PostComment" =>
    /\ ctx'[r].base = ctx[r].base
    /\ \/ /\ pc[r] = "PostComment" /\ ctx'[r].lac = ctx[r].lac
          /\ ctx'[r].todo \subseteq ctx[r].todo
       \/ /\ pc[r] \in Analysed /\ ctx'[r].todo \subseteq ctx[r].sugg
          /\ ctx'[r].lac \in Pushed /\ IsLastCommit(ctx'[r].lac)

MarkMoves(r) ==
  /\ pc[r] \in Marked => Marking(r)'
  /\ Marking(r)' =>
       \/ pc[r] \in Marked /\ ctx'[r].lac = ctx[r].lac
       \/ pc[r] \in Analysed /\ ctx'[r].lac \in Pushed /\ IsLastCommit(ctx'[r].lac)

CommentsMove(r) ==
  \/ comments' = comments
  \/ pc[r] = "PostComment" /\ \E c \in ctx[r].todo : comments' = comments \cup {<<r, c>>}

SummaryMoves(r) ==
  \/ UNCHANGED <<summary, announced, minimized>>
  \/ /\ pc[r] = "InitialComment" /\ pc'[r] = "AnalyzePullRequest"
     /\ ctx'[r] = ctx[r]
     /\ summary' = [summary EXCEPT ![r] = "started"]
     /\ announced' = [announced EXCEPT ![r] =
                        Cardinality({s \in Runs : summary[s] # "none"}) + 1]
     /\ minimized' = IF ctx[r].base = 0 THEN minimized
                     ELSE minimized \cup {s \in Runs : LatestSummary(s)}
  \/ /\ pc[r] = "UpdateComments" /\ pc'[r] = "RequestChanges"
     /\ summary[r] = "started" /\ summary' = [summary EXCEPT ![r] = "completed"]
     /\ announced' = announced /\ minimized' = minimized

CadenceMoves(r) == PastCadence(r)' => PastCadence(r) \/ CadenceAllows(ctx[r].origin)

CleanStep(r) ==
  /\ Apart(r)
  /\ ctx'[r].origin = ctx[r].origin /\ ~ctx'[r].crashed
  /\ RowMoves(r) /\ BaseMoves(r) /\ FilesMove(r) /\ SuggestionsMove(r)
  /\ TodoMoves(r) /\ MarkMoves(r) /\ CommentsMove(r) /\ SummaryMoves(r)
  /\ CadenceMoves(r)

LEMMA FaultOrNot ==
  ASSUME NEW r \in Runs, Review(r) \/ InsertFails(r) \/ Crash(r)
  PROVE  Fault \/ NoFault
BY DEF Review, NoFault, InsertFails, Crash, RecordStart, HandlerFails, StageFails,
   ValidateNewCommits, ResolveConfig, ValidateConfig, FetchChangedFiles, InitialComment,
   AnalyzePullRequest, AnalyzeFiles, CreatePrLevelComments, CreateFileComments, PostComment,
   PostingEnds, SaveSuggestions, UpdateComments, RequestChanges, CheckReviewState, Approve,
   UpdateExecution, UpdateFails, RecordEnd

LEMMA CleanSteps ==
  ASSUME TypeOK, StageInv, NEW r \in Runs, Review(r) \/ InsertFails(r) \/ Crash(r),
         faults' = 0, ~ctx[r].crashed
  PROVE  CleanStep(r) /\ faults = 0 /\ r \in Active
<1> USE DEF CleanStep, Apart, RowMoves, BaseMoves, FilesMove, SuggestionsMove, TodoMoves,
      MarkMoves, CommentsMove, SummaryMoves, CadenceMoves, Marking, PastCadence,
      Based, Marked, During, ReviewWindow, Fetched, Analysed
<1>t. faults \in Nat
  BY RunsAssumption DEF TypeOK
<1>f. ~Fault
  BY <1>t DEF Fault
<1>n. faults = 0
  BY <1>f, FaultOrNot DEF NoFault
<1>c. /\ ctx[r] \in Contexts /\ row \in [Runs -> Rows] /\ pc \in [Runs -> Places]
      /\ StageOf(r)
  BY DEF TypeOK, StageInv
<1>1. CASE RecordStart(r)
  <2>1. /\ pc[r] = "RecordStart" /\ pc' = [pc EXCEPT ![r] = "ValidateNewCommits"]
        /\ ctx' = ctx
        /\ UNCHANGED <<prVars, postVars, row, created, recent>>
    BY <1>1, <1>f DEF RecordStart
  <2> QED
    BY <1>c, <1>n, <2>1 DEF Active, prVars, postVars
<1>2. CASE ValidateNewCommits(r)
  <2>1. LastAnalyzedCommit \in Commits \cup {0}
    BY LastAnalyzedCommitType DEF TypeOK
  <2>2. PICK c : /\ Continue(r, c, "ResolveConfig") /\ c.base = LastAnalyzedCommit
                 /\ c.origin = ctx[r].origin /\ c.crashed = ctx[r].crashed
    <3> DEFINE b == [ctx[r] EXCEPT !.base = LastAnalyzedCommit]
    <3>1. /\ b \in Contexts /\ b.base = LastAnalyzedCommit
          /\ b.origin = ctx[r].origin /\ b.crashed = ctx[r].crashed
      BY <1>c, <2>1 DEF Contexts
    <3>2. \A why : /\ Skip(b, why).base = b.base /\ Skip(b, why).origin = b.origin
                   /\ Skip(b, why).crashed = b.crashed
      BY <3>1 DEF Skip, Contexts
    <3>3. Continue(r, IF NewCommitsSince(LastAnalyzedCommit) = {} THEN Skip(b, "no_new_commits")
                      ELSE IF NewCommitsSince(LastAnalyzedCommit) \subseteq merges
                           THEN Skip(b, "only_merges") ELSE b, "ResolveConfig")
      BY <1>2, <1>f DEF ValidateNewCommits, StageFails
    <3> HIDE DEF b
    <3> QED
      BY <3>1, <3>2, <3>3
  <2>3. /\ pc[r] = "ValidateNewCommits" /\ UNCHANGED <<prVars, postVars, row, created, recent>>
    BY <1>2 DEF ValidateNewCommits, rowVars
  <2>4. /\ ctx'[r] = c
        /\ pc'[r] = IF c.status = "skipped" THEN "UpdateExecution" ELSE "ResolveConfig"
        /\ \A q \in Runs \ {r} : ctx'[q] = ctx[q] /\ pc'[q] = pc[q]
    BY <2>2, ContinueEffect
  <2> QED
    BY <1>c, <1>n, <2>2, <2>3, <2>4 DEF Active, prVars, postVars
<1>3. CASE ResolveConfig(r)
  <2>1. PICK c : /\ Continue(r, c, "ValidateConfig")
                 /\ \/ c = ctx[r]
                    \/ c = Skip(ctx[r], "no_files")
    BY <1>3, <1>f DEF ResolveConfig
  <2>2. /\ pc[r] = "ResolveConfig"
        /\ UNCHANGED <<prVars, postVars, row, created, recent>>
    BY <1>3, <1>f DEF ResolveConfig, rowVars, postVars, revVars
  <2>3. /\ ctx'[r] = c
        /\ pc'[r] = IF c.status = "skipped" THEN "UpdateExecution" ELSE "ValidateConfig"
        /\ \A q \in Runs \ {r} : ctx'[q] = ctx[q] /\ pc'[q] = pc[q]
    BY <2>1, ContinueEffect
  <2>4. /\ c.origin = ctx[r].origin /\ c.crashed = ctx[r].crashed
        /\ c.base = ctx[r].base /\ c.files = ctx[r].files
        /\ c.sugg = ctx[r].sugg /\ c.todo = ctx[r].todo /\ c.lac = ctx[r].lac
    BY <1>c, <2>1 DEF Skip, Contexts
  <2> QED
    BY <1>c, <1>n, <2>2, <2>3, <2>4 DEF Active, prVars, postVars, StageOf, Over
<1>4. CASE ValidateConfig(r)
  <2>1. PICK c : /\ Continue(r, c, "FetchChangedFiles") /\ c.base = ctx[r].base
                 /\ c.origin = ctx[r].origin /\ c.crashed = ctx[r].crashed
                 /\ c.status # "skipped" => CadenceAllows(ctx[r].origin)
    <3>1. PICK basic \in {TRUE, ctx[r].origin = "command"} :
            LET d == EvaluateReviewCadence(ctx[r].origin, basic, Successes # {},
                       CurrentPRStatus, Cardinality(recent \cap Successes))
                b == [ctx[r] EXCEPT !.cadence = d.next]
            IN  Continue(r, IF d.process THEN b ELSE Skip(b, "cadence"), "FetchChangedFiles")
      BY <1>4, <1>f DEF ValidateConfig
    <3> DEFINE d == EvaluateReviewCadence(ctx[r].origin, basic, Successes # {},
                      CurrentPRStatus, Cardinality(recent \cap Successes))
               b == [ctx[r] EXCEPT !.cadence = d.next]
    <3>2. d.process => CadenceAllows(ctx[r].origin)
      <4>1. Cardinality(recent \cap Successes) \in Nat
        BY RunsAssumption, FS_Subset, FS_CardinalityType DEF Successes
      <4> QED
        BY <4>1, CadenceAssumption DEF EvaluateReviewCadence, HandleManualMode,
           HandleAutoPauseMode,
           Proceed, Hold, CadenceAllows
    <3>3. d \in Decisions
      BY DecisionType
    <3> HIDE DEF d
    <3>4. /\ b.base = ctx[r].base /\ b.origin = ctx[r].origin /\ b.crashed = ctx[r].crashed
          /\ Skip(b, "cadence").base = ctx[r].base /\ Skip(b, "cadence").origin = ctx[r].origin
          /\ Skip(b, "cadence").crashed = ctx[r].crashed
          /\ Skip(b, "cadence").status = "skipped"
      BY <1>c, <3>3 DEF Skip, Contexts
    <3>5. Continue(r, IF d.process THEN b ELSE Skip(b, "cadence"), "FetchChangedFiles")
      BY <3>1 DEF d
    <3> QED
      BY <3>2, <3>4, <3>5
  <2>2. /\ pc[r] = "ValidateConfig" /\ UNCHANGED <<prVars, postVars, row, created, recent>>
    BY <1>4 DEF ValidateConfig, rowVars
  <2>3. /\ ctx'[r] = c
        /\ pc'[r] = IF c.status = "skipped" THEN "UpdateExecution" ELSE "FetchChangedFiles"
        /\ \A q \in Runs \ {r} : ctx'[q] = ctx[q] /\ pc'[q] = pc[q]
    BY <2>1, ContinueEffect
  <2> QED
    BY <1>c, <1>n, <2>1, <2>2, <2>3 DEF Active, prVars, postVars
<1>5. CASE FetchChangedFiles(r)
  <2>1. PICK c : /\ Continue(r, c, "InitialComment")
                 /\ \/ c = [ctx[r] EXCEPT !.files = ChangedSince(ctx[r].base)]
                    \/ c = Skip(ctx[r], "no_files")
    BY <1>5, <1>f DEF FetchChangedFiles, StageFails
  <2>2. /\ pc[r] = "FetchChangedFiles"
        /\ UNCHANGED <<prVars, postVars, row, created, recent>>
    BY <1>5, <1>f DEF FetchChangedFiles, rowVars, postVars, revVars
  <2>3. /\ ctx'[r] = c
        /\ pc'[r] = IF c.status = "skipped" THEN "UpdateExecution" ELSE "InitialComment"
        /\ \A q \in Runs \ {r} : ctx'[q] = ctx[q] /\ pc'[q] = pc[q]
    BY <2>1, ContinueEffect
  <2>4. /\ c.base = ctx[r].base /\ c.origin = ctx[r].origin /\ c.crashed = ctx[r].crashed
        /\ c.status = "skipped" \/ c.files = ChangedSince(ctx[r].base)
    BY <1>c, <2>1 DEF Skip, Contexts
  <2> QED
    BY <1>c, <1>n, <2>2, <2>3, <2>4 DEF Active, prVars, postVars, StageOf, Over
<1>6. CASE InitialComment(r)
  <2>1. PICK c : Continue(r, c, "AnalyzePullRequest") /\ (c = ctx[r])
    BY <1>6, <1>f DEF InitialComment
  <2>2. /\ pc[r] = "InitialComment"
        /\ UNCHANGED <<prVars, comments, row, created, recent>>
    BY <1>6, <1>f DEF InitialComment, rowVars, postVars, revVars
  <2>3. /\ ctx'[r] = c
        /\ pc'[r] = IF c.status = "skipped" THEN "UpdateExecution" ELSE "AnalyzePullRequest"
        /\ \A q \in Runs \ {r} : ctx'[q] = ctx[q] /\ pc'[q] = pc[q]
    BY <2>1, ContinueEffect
  <2>4. \/ UNCHANGED <<summary, announced, minimized>>
        \/ /\ summary' = [summary EXCEPT ![r] = "started"]
           /\ announced' = [announced EXCEPT ![r] =
                              Cardinality({s \in Runs : summary[s] # "none"}) + 1]
           /\ minimized' = IF ctx[r].base = 0 THEN minimized
                           ELSE minimized \cup {s \in Runs : LatestSummary(s)}
    BY <1>6, <1>f DEF InitialComment
  <2>5. \A q \in Runs \ {r} : summary'[q] = summary[q] /\ announced'[q] = announced[q]
    BY <1>6 DEF InitialComment, TypeOK
  <2> QED
    BY <1>c, <1>n, <2>1, <2>2, <2>3, <2>4, <2>5 DEF Active, prVars, postVars,
       StageOf, Over
<1>7. CASE AnalyzePullRequest(r)
  <2>1. PICK c : /\ Continue(r, c, "AnalyzeFiles")
                 /\ \E found : c = [ctx[r] EXCEPT !.prLevel = found]
    BY <1>7, <1>f DEF AnalyzePullRequest
  <2>2. /\ pc[r] = "AnalyzePullRequest"
        /\ UNCHANGED <<prVars, postVars, row, created, recent>>
    BY <1>7, <1>f DEF AnalyzePullRequest, rowVars, postVars, revVars
  <2>3. /\ ctx'[r] = c
        /\ pc'[r] = IF c.status = "skipped" THEN "UpdateExecution" ELSE "AnalyzeFiles"
        /\ \A q \in Runs \ {r} : ctx'[q] = ctx[q] /\ pc'[q] = pc[q]
    BY <2>1, ContinueEffect
  <2>4. /\ c.status = ctx[r].status /\ c.origin = ctx[r].origin
        /\ c.crashed = ctx[r].crashed /\ c.base = ctx[r].base
        /\ c.files = ctx[r].files /\ c.sugg = ctx[r].sugg
        /\ c.todo = ctx[r].todo /\ c.lac = ctx[r].lac
    BY <1>c, <2>1 DEF Skip, Contexts
  <2> QED
    BY <1>c, <1>n, <2>2, <2>3, <2>4 DEF Active, prVars, postVars, StageOf, Over
<1>8. CASE AnalyzeFiles(r)
  <2>1. PICK c : /\ Continue(r, c, "CreatePrLevelComments")
                 /\ \E sugg \in SUBSET ctx[r].files : c = [ctx[r] EXCEPT !.sugg = sugg]
    BY <1>8, <1>f DEF AnalyzeFiles
  <2>2. /\ pc[r] = "AnalyzeFiles"
        /\ UNCHANGED <<prVars, postVars, row, created, recent>>
    BY <1>8, <1>f DEF AnalyzeFiles, rowVars, postVars, revVars
  <2>3. /\ ctx'[r] = c
        /\ pc'[r] = IF c.status = "skipped" THEN "UpdateExecution" ELSE "CreatePrLevelComments"
        /\ \A q \in Runs \ {r} : ctx'[q] = ctx[q] /\ pc'[q] = pc[q]
    BY <2>1, ContinueEffect
  <2>4. /\ c.status = ctx[r].status /\ c.origin = ctx[r].origin
        /\ c.crashed = ctx[r].crashed /\ c.base = ctx[r].base
        /\ c.files = ctx[r].files /\ c.todo = ctx[r].todo /\ c.lac = ctx[r].lac
        /\ c.sugg \subseteq ctx[r].files
    BY <1>c, <2>1 DEF Skip, Contexts
  <2> QED
    BY <1>c, <1>n, <2>2, <2>3, <2>4 DEF Active, prVars, postVars, StageOf, Over
<1>9. CASE CreatePrLevelComments(r)
  <2>1. PICK c : Continue(r, c, "CreateFileComments") /\ (c = ctx[r])
    BY <1>9, <1>f DEF CreatePrLevelComments
  <2>2. /\ pc[r] = "CreatePrLevelComments"
        /\ UNCHANGED <<prVars, comments, summary, announced, minimized, row, created, recent>>
    BY <1>9, <1>f DEF CreatePrLevelComments, rowVars, postVars, revVars
  <2>3. /\ ctx'[r] = c
        /\ pc'[r] = IF c.status = "skipped" THEN "UpdateExecution" ELSE "CreateFileComments"
        /\ \A q \in Runs \ {r} : ctx'[q] = ctx[q] /\ pc'[q] = pc[q]
    BY <2>1, ContinueEffect
  <2>4. /\ c.status = ctx[r].status /\ c.origin = ctx[r].origin
        /\ c.crashed = ctx[r].crashed /\ c.base = ctx[r].base
        /\ c.files = ctx[r].files /\ c.sugg = ctx[r].sugg
        /\ c.todo = ctx[r].todo /\ c.lac = ctx[r].lac
    BY <1>c, <2>1 DEF Skip, Contexts
  <2> QED
    BY <1>c, <1>n, <2>2, <2>3, <2>4 DEF Active, prVars, postVars, StageOf, Over
<1>10. CASE CreateFileComments(r)
  <2>1. PICK last, todo, c, next :
          /\ last \in Pushed /\ todo \in SUBSET ctx[r].sugg
          /\ IsLastCommit(last)
          /\ \/ c = [ctx[r] EXCEPT !.lac = last, !.answered = TRUE] /\ next = "UpdateComments"
             \/ c = [ctx[r] EXCEPT !.lac = last, !.todo = todo] /\ next = "PostComment"
          /\ Continue(r, c, next)
    BY <1>10, <1>f DEF CreateFileComments
  <2>2. /\ pc[r] = "CreateFileComments" /\ UNCHANGED <<prVars, postVars, row, created, recent>>
    BY <1>10 DEF CreateFileComments, rowVars
  <2>3. /\ ctx'[r] = c
        /\ pc'[r] = IF c.status = "skipped" THEN "UpdateExecution" ELSE next
        /\ \A q \in Runs \ {r} : ctx'[q] = ctx[q] /\ pc'[q] = pc[q]
    BY <2>1, ContinueEffect
  <2>4. /\ c.base = ctx[r].base /\ c.origin = ctx[r].origin /\ c.crashed = ctx[r].crashed
        /\ c.status = ctx[r].status /\ c.lac = last
        /\ next = "PostComment" => c.todo = todo
    BY <1>c, <2>1 DEF Contexts
  <2> QED
    BY <1>c, <1>n, <2>1, <2>2, <2>3, <2>4 DEF Active, prVars, postVars, StageOf, Over
<1>11. CASE PostComment(r)
  <2>1. PICK k \in ctx[r].todo :
          /\ ctx' = [ctx EXCEPT ![r].todo = @ \ {k}, ![r].results = @ \cup {k}]
          /\ comments' = comments \cup {<<r, k>>}
    BY <1>11, <1>f DEF PostComment
  <2>2. /\ pc[r] = "PostComment" /\ pc' = pc
        /\ UNCHANGED <<prVars, summary, announced, minimized, row, created, recent>>
    BY <1>11 DEF PostComment, rowVars
  <2>3. /\ \A q \in Runs \ {r} : ctx'[q] = ctx[q]
        /\ ctx'[r].base = ctx[r].base /\ ctx'[r].origin = ctx[r].origin
        /\ ctx'[r].crashed = ctx[r].crashed /\ ctx'[r].lac = ctx[r].lac
        /\ ctx'[r].todo \subseteq ctx[r].todo
    BY <1>c, <2>1 DEF Contexts, TypeOK
  <2> QED
    BY <1>c, <1>n, <2>1, <2>2, <2>3 DEF Active, prVars, postVars, StageOf, Over
<1>12. CASE PostingEnds(r)
  <2>1. /\ pc[r] = "PostComment" /\ pc' = [pc EXCEPT ![r] = "SaveSuggestions"] /\ ctx' = ctx
        /\ UNCHANGED <<prVars, postVars, row, created, recent>>
    BY <1>12 DEF PostingEnds, rowVars
  <2> QED
    BY <1>c, <1>n, <2>1 DEF Active, prVars, postVars
<1>13. CASE SaveSuggestions(r)
  <2>1. PICK c : /\ Continue(r, c, "UpdateComments")
                 /\ c = [ctx[r] EXCEPT !.answered = TRUE]
    BY <1>13, <1>f DEF SaveSuggestions
  <2>2. /\ pc[r] = "SaveSuggestions"
        /\ UNCHANGED <<prVars, postVars, row, created, recent>>
    BY <1>13, <1>f DEF SaveSuggestions, rowVars, postVars, revVars
  <2>3. /\ ctx'[r] = c
        /\ pc'[r] = IF c.status = "skipped" THEN "UpdateExecution" ELSE "UpdateComments"
        /\ \A q \in Runs \ {r} : ctx'[q] = ctx[q] /\ pc'[q] = pc[q]
    BY <2>1, ContinueEffect
  <2>4. /\ c.status = ctx[r].status /\ c.origin = ctx[r].origin
        /\ c.crashed = ctx[r].crashed /\ c.base = ctx[r].base
        /\ c.files = ctx[r].files /\ c.sugg = ctx[r].sugg
        /\ c.todo = ctx[r].todo /\ c.lac = ctx[r].lac
    BY <1>c, <2>1 DEF Skip, Contexts
  <2> QED
    BY <1>c, <1>n, <2>2, <2>3, <2>4 DEF Active, prVars, postVars, StageOf, Over
<1>14. CASE UpdateComments(r)
  <2>1. PICK c : Continue(r, c, "RequestChanges") /\ (c = ctx[r])
    BY <1>14, <1>f DEF UpdateComments
  <2>2. /\ pc[r] = "UpdateComments"
        /\ UNCHANGED <<prVars, comments, announced, minimized, row, created, recent>>
    BY <1>14, <1>f DEF UpdateComments, rowVars, postVars, revVars
  <2>3. /\ ctx'[r] = c
        /\ pc'[r] = IF c.status = "skipped" THEN "UpdateExecution" ELSE "RequestChanges"
        /\ \A q \in Runs \ {r} : ctx'[q] = ctx[q] /\ pc'[q] = pc[q]
    BY <2>1, ContinueEffect
  <2>4. \/ summary' = summary
        \/ summary[r] = "started" /\ summary' = [summary EXCEPT ![r] = "completed"]
    <3>1. summary' = [summary EXCEPT ![r] = IF @ = "started" THEN "completed" ELSE @]
      BY <1>14, <1>f DEF UpdateComments
    <3>2. summary \in [Runs -> {"none", "started", "completed"}]
      BY DEF TypeOK
    <3>3. CASE summary[r] = "started"
      BY <3>1, <3>3
    <3>4. CASE summary[r] # "started"
      BY <3>1, <3>2, <3>4
    <3> QED
      BY <3>3, <3>4
  <2>5. \A q \in Runs \ {r} : summary'[q] = summary[q] /\ announced'[q] = announced[q]
    BY <2>2, <2>4 DEF TypeOK
  <2> QED
    BY <1>c, <1>n, <2>1, <2>2, <2>3, <2>4, <2>5 DEF Active, prVars, postVars,
       StageOf, Over
<1>15. CASE RequestChanges(r)
  <2>1. PICK next \in {"CheckReviewState", "UpdateExecution"} : Continue(r, ctx[r], next)
    BY <1>15, <1>f DEF RequestChanges
  <2>2. /\ pc[r] = "RequestChanges" /\ UNCHANGED <<prVars, postVars, row, created, recent>>
    BY <1>15 DEF RequestChanges, rowVars
  <2>3. /\ ctx'[r] = ctx[r]
        /\ pc'[r] = IF ctx[r].status = "skipped" THEN "UpdateExecution" ELSE next
        /\ \A q \in Runs \ {r} : ctx'[q] = ctx[q] /\ pc'[q] = pc[q]
    BY <2>1, ContinueEffect
  <2> QED
    BY <1>c, <1>n, <2>1, <2>2, <2>3 DEF Active, prVars, postVars, StageOf, Over
<1>16. CASE CheckReviewState(r)
  <2>1. PICK next \in {"Approve", "UpdateExecution"} : Continue(r, ctx[r], next)
    BY <1>16, <1>f DEF CheckReviewState, StageFails
  <2>2. /\ pc[r] = "CheckReviewState" /\ UNCHANGED <<prVars, postVars, row, created, recent>>
    BY <1>16 DEF CheckReviewState, rowVars
  <2>3. /\ ctx'[r] = ctx[r]
        /\ pc'[r] = IF ctx[r].status = "skipped" THEN "UpdateExecution" ELSE next
        /\ \A q \in Runs \ {r} : ctx'[q] = ctx[q] /\ pc'[q] = pc[q]
    BY <2>1, ContinueEffect
  <2> QED
    BY <1>c, <1>n, <2>1, <2>2, <2>3 DEF Active, prVars, postVars, StageOf, Over
<1>17. CASE Approve(r)
  <2>1. PICK next \in {"UpdateExecution"} : Continue(r, ctx[r], next)
    BY <1>17, <1>f DEF Approve
  <2>2. /\ pc[r] = "Approve" /\ UNCHANGED <<prVars, postVars, row, created, recent>>
    BY <1>17 DEF Approve, rowVars
  <2>3. /\ ctx'[r] = ctx[r]
        /\ pc'[r] = IF ctx[r].status = "skipped" THEN "UpdateExecution" ELSE next
        /\ \A q \in Runs \ {r} : ctx'[q] = ctx[q] /\ pc'[q] = pc[q]
    BY <2>1, ContinueEffect
  <2> QED
    BY <1>c, <1>n, <2>1, <2>2, <2>3 DEF Active, prVars, postVars, StageOf, Over
<1>18. CASE UpdateExecution(r)
  <2>1. /\ pc[r] = "UpdateExecution" /\ pc' = [pc EXCEPT ![r] = "RecordEnd"] /\ ctx' = ctx
        /\ row' = [row EXCEPT ![r] = ExecutionData(ctx[r])]
        /\ UNCHANGED <<prVars, postVars, created, recent>>
    BY <1>18 DEF UpdateExecution
  <2> QED
    BY <1>c, <1>n, <2>1 DEF Active, prVars, postVars
<1>19. CASE RecordEnd(r)
  <2>1. /\ pc[r] = "RecordEnd" /\ Return(r)
        /\ UNCHANGED <<prVars, postVars, row, created, recent>>
    BY <1>19 DEF RecordEnd
  <2>2. /\ pc'[r] = "done" /\ \A q \in Runs \ {r} : ctx'[q] = ctx[q] /\ pc'[q] = pc[q]
    BY <2>1, ReturnEffect
  <2>3. ctx'[r].origin = ctx[r].origin /\ ctx'[r].crashed = FALSE
    BY <2>1 DEF Return, InitialContext, TypeOK
  <2> QED
    BY <1>c, <1>n, <2>1, <2>2, <2>3 DEF Active, prVars, postVars
<1> QED
  BY <1>f, <1>1, <1>2, <1>3, <1>4, <1>5, <1>6, <1>7, <1>8, <1>9, <1>10, <1>11,
     <1>12, <1>13, <1>14, <1>15, <1>16, <1>17, <1>18, <1>19 DEF Review,
     HandlerFails, UpdateFails,
     InsertFails, Crash

-----------------------------------------------------------------------------
(* While one run at most may be in progress, there is one at most.          *)
Alone == MaxActive = 1 => \A p, q \in Active : p = q

LEMMA OthersStay ==
  ASSUME TypeOK, NEW r \in Runs, Review(r) \/ InsertFails(r) \/ Crash(r)
  PROVE  /\ \A q \in Runs \ {r} : pc'[q] = pc[q]
         /\ r \in Active \/ (InsertFails(r) /\ pc'[r] = "done")
         /\ created' = created /\ recent' = recent /\ (row' = row \/ UpdateExecution(r))
<1>1. \A q \in Runs \ {r} : pc'[q] = pc[q]
  <2>0. pc \in [Runs -> Places]
    BY DEF TypeOK
  <2>1. CASE RecordStart(r)
    BY <2>0, <2>1 DEF RecordStart, Return
  <2>2. CASE HandlerFails(r)
    BY <2>0, <2>2 DEF HandlerFails
  <2>3. CASE ValidateNewCommits(r)
    BY <2>0, <2>3 DEF ValidateNewCommits, StageFails, Continue
  <2>4. CASE ResolveConfig(r)
    BY <2>0, <2>4 DEF ResolveConfig, Continue
  <2>5. CASE ValidateConfig(r)
    BY <2>0, <2>5 DEF ValidateConfig, Continue
  <2>6. CASE FetchChangedFiles(r)
    BY <2>0, <2>6 DEF FetchChangedFiles, StageFails, Continue
  <2>7. CASE InitialComment(r)
    BY <2>0, <2>7 DEF InitialComment, Continue
  <2>8. CASE AnalyzePullRequest(r)
    BY <2>0, <2>8 DEF AnalyzePullRequest, Continue
  <2>9. CASE AnalyzeFiles(r)
    BY <2>0, <2>9 DEF AnalyzeFiles, Continue
  <2>10. CASE CreatePrLevelComments(r)
    BY <2>0, <2>10 DEF CreatePrLevelComments, Continue
  <2>11. CASE CreateFileComments(r)
    BY <2>0, <2>11 DEF CreateFileComments, Continue
  <2>12. CASE PostComment(r)
    BY <2>0, <2>12 DEF PostComment
  <2>13. CASE PostingEnds(r)
    BY <2>0, <2>13 DEF PostingEnds
  <2>14. CASE SaveSuggestions(r)
    BY <2>0, <2>14 DEF SaveSuggestions, Continue
  <2>15. CASE UpdateComments(r)
    BY <2>0, <2>15 DEF UpdateComments, Continue
  <2>16. CASE RequestChanges(r)
    BY <2>0, <2>16 DEF RequestChanges, Continue
  <2>17. CASE CheckReviewState(r)
    BY <2>0, <2>17 DEF CheckReviewState, StageFails, Continue
  <2>18. CASE Approve(r)
    BY <2>0, <2>18 DEF Approve, Continue
  <2>19. CASE UpdateExecution(r)
    BY <2>0, <2>19 DEF UpdateExecution
  <2>20. CASE UpdateFails(r)
    BY <2>0, <2>20 DEF UpdateFails, Return
  <2>21. CASE RecordEnd(r)
    BY <2>0, <2>21 DEF RecordEnd, Return
  <2>22. CASE InsertFails(r)
    BY <2>0, <2>22 DEF InsertFails, Return
  <2>23. CASE Crash(r)
    BY <2>0, <2>23 DEF Crash, Return
  <2> QED
    BY <2>1, <2>2, <2>3, <2>4, <2>5, <2>6, <2>7, <2>8, <2>9, <2>10, <2>11, <2>12,
       <2>13, <2>14, <2>15, <2>16, <2>17, <2>18, <2>19, <2>20, <2>21, <2>22, <2>23
       DEF Review
<1>2. created' = created /\ recent' = recent /\ (row' = row \/ UpdateExecution(r))
  BY DEF Review, rowVars, InsertFails, Crash, RecordStart, HandlerFails,
     ValidateNewCommits, ResolveConfig, ValidateConfig, FetchChangedFiles, InitialComment,
     AnalyzePullRequest, AnalyzeFiles, CreatePrLevelComments, CreateFileComments, PostComment,
     PostingEnds, SaveSuggestions, UpdateComments, RequestChanges, CheckReviewState, Approve,
     UpdateExecution, UpdateFails, RecordEnd
<1>3. r \in Active \/ InsertFails(r)
  BY DEF Active, Review, Crash, RecordStart, HandlerFails,
     ValidateNewCommits, ResolveConfig, ValidateConfig, FetchChangedFiles, InitialComment,
     AnalyzePullRequest, AnalyzeFiles, CreatePrLevelComments, CreateFileComments, PostComment,
     PostingEnds, SaveSuggestions, UpdateComments, RequestChanges, CheckReviewState, Approve,
     UpdateExecution, UpdateFails, RecordEnd
<1>4. InsertFails(r) => pc'[r] = "done"
  BY ReturnEffect DEF InsertFails
<1> QED
  BY <1>1, <1>2, <1>3, <1>4 DEF TypeOK

LEMMA NobodyActive ==
  ASSUME MaxActive = 1, Cardinality(Active) < MaxActive
  PROVE  Active = {}
<1>1. IsFiniteSet(Active)
  BY RunsAssumption, FS_Subset DEF Active
<1>2. Cardinality(Active) \in Nat
  BY <1>1, FS_CardinalityType
<1>3. Cardinality(Active) = 0
  BY <1>2
<1> QED
  BY <1>1, <1>3, FS_EmptySet

LEMMA StaysAlone == Spec => []Alone
<1>1. Init => Alone
  BY DEF Init, Alone, Active
<1>2. TypeOK /\ Alone /\ [Next]_vars => Alone'
  <2> SUFFICES ASSUME TypeOK, Alone, [Next]_vars PROVE Alone'
    OBVIOUS
  <2>1. ASSUME NEW r \in Runs, InsertFails(r) \/ Review(r) \/ Crash(r) PROVE Alone'
    <3>1. Active' \subseteq Active
      BY <2>1, OthersStay DEF Active
    <3> QED
      BY <3>1 DEF Alone
  <2>2. ASSUME NEW r \in Runs, NEW origin \in Requests, CreateExecution(r, origin)
        PROVE  Alone'
    <3>1. Active' \subseteq Active \cup {r}
      BY <2>2 DEF CreateExecution, Active, TypeOK
    <3>2. MaxActive = 1 => Active = {}
      BY <2>2, NobodyActive DEF CreateExecution
    <3> QED
      BY <3>1, <3>2 DEF Alone
  <2>3. ASSUME \/ \E d \in 1..MaxDate, isMerge \in BOOLEAN : Push(d, isMerge)
               \/ WindowPasses \/ UNCHANGED vars
        PROVE  Alone'
    BY <2>3 DEF Push, WindowPasses, vars, Alone, Active
  <2> QED
    BY <2>1, <2>2, <2>3 DEF Next
<1> QED
  BY <1>1, <1>2, TypeCorrect, PTL DEF Spec

(* Rows are created one after another, and one of the successes is the      *)
(* newest.                                                                  *)
RankInv ==
  /\ \A q \in Stored : created[q] <= Cardinality(Stored)
  /\ \A p, q \in Stored : created[p] = created[q] => p = q
  /\ Successes # {} => \E n \in Runs : Newest(n, Successes)

LEMMA OpenedLast ==
  ASSUME TypeOK, StageInv, RankInv, NEW r \in Runs, NEW origin \in Requests,
         CreateExecution(r, origin)
  PROVE  /\ r \notin Stored /\ Stored' = Stored \cup {r} /\ Successes' = Successes
         /\ r \notin Successes
         /\ \A q \in Runs \ {r} : created'[q] = created[q] /\ row'[q] = row[q]
         /\ created'[r] = Cardinality(Stored) + 1
         /\ Cardinality(Stored) \in Nat /\ Cardinality(Stored') = Cardinality(Stored) + 1
         /\ \A q \in Stored : created'[q] < created'[r]
<1>1. /\ row[r].status = "none" /\ pc[r] = "idle"
      /\ row' = [row EXCEPT ![r] = [NoRow EXCEPT !.status = "in_progress"]]
      /\ created' = [created EXCEPT ![r] = Cardinality(Stored) + 1]
  BY DEF CreateExecution, StageInv, StageOf
<1>2. [NoRow EXCEPT !.status = "in_progress"].status = "in_progress"
  BY DEF NoRow
<1>3. /\ r \notin Stored /\ Stored' = Stored \cup {r} /\ Successes' = Successes
      /\ r \notin Successes
      /\ \A q \in Runs \ {r} : created'[q] = created[q] /\ row'[q] = row[q]
      /\ created'[r] = Cardinality(Stored) + 1
  BY <1>1, <1>2 DEF TypeOK, Stored, Successes
<1>4. IsFiniteSet(Stored) /\ Cardinality(Stored) \in Nat
  BY RunsAssumption, FS_Subset, FS_CardinalityType DEF Stored
<1>5. Cardinality(Stored') = Cardinality(Stored) + 1
  BY <1>3, <1>4, FS_AddElement
<1>6. ASSUME NEW q \in Stored PROVE created'[q] < created'[r]
  <2>1. q \in Runs \ {r} /\ created[q] \in Nat /\ created[q] <= Cardinality(Stored)
    BY <1>3 DEF Stored, RankInv, TypeOK
  <2> QED
    BY <2>1, <1>3, <1>4
<1> QED
  BY <1>3, <1>4, <1>5, <1>6

(* What closing a row does to the successes.                                *)
LEMMA ClosedRow ==
  ASSUME TypeOK, StageInv, NEW r \in Runs, pc[r] = "UpdateExecution",
         row'[r] = ExecutionData(ctx[r]), \A q \in Runs \ {r} : row'[q] = row[q]
  PROVE  /\ Stored' = Stored /\ r \in Stored /\ r \notin Successes
         /\ Successes' = IF FinalStatus(ctx[r]) = "success" THEN Successes \cup {r} ELSE Successes
         /\ ~ctx[r].crashed =>
              /\ row'[r].lac = ctx[r].lac
              /\ (FinalStatus(ctx[r]) = "success") = (ctx[r].status # "skipped")
<1>1. row[r].status = "in_progress"
  BY DEF StageInv, StageOf
<1>2. ExecutionData(ctx[r]).status = FinalStatus(ctx[r]) /\ FinalStatus(ctx[r]) # "none"
  BY DEF ExecutionData, FinalStatus
<1>3. ~ctx[r].crashed =>
        /\ ExecutionData(ctx[r]).lac = ctx[r].lac
        /\ (FinalStatus(ctx[r]) = "success") = (ctx[r].status # "skipped")
  BY DEF ExecutionData, FinalStatus, TypeOK, Contexts
<1> QED
  BY <1>1, <1>2, <1>3 DEF Stored, Successes

LEMMA RanksHold == Spec => []RankInv
<1>1. Init => RankInv
  BY DEF Init, RankInv, Stored, Successes, NoRow
<1>2. TypeOK /\ StageInv /\ RankInv /\ [Next]_vars => RankInv'
  <2> SUFFICES ASSUME TypeOK, StageInv, RankInv, [Next]_vars PROVE RankInv'
    OBVIOUS
  <2>c. created \in [Runs -> Nat]
    BY DEF TypeOK
  <2>1. ASSUME NEW r \in Runs, UpdateExecution(r) PROVE RankInv'
    <3>1. created' = created
      BY <2>1 DEF UpdateExecution
    <3>2. /\ Stored' = Stored
          /\ Successes' = Successes \/ Successes' = Successes \cup {r}
      <4>1. /\ pc[r] = "UpdateExecution" /\ row'[r] = ExecutionData(ctx[r])
            /\ \A q \in Runs \ {r} : row'[q] = row[q]
        BY <2>1 DEF UpdateExecution, TypeOK
      <4> QED
        BY <4>1, ClosedRow
    <3>3. Successes' # {} => \E n \in Runs : Newest(n, Successes)'
      <4>1. CASE Successes' = Successes
        BY <4>1, <3>1 DEF RankInv, Newest
      <4>2. CASE Successes' = Successes \cup {r} /\ Successes = {}
        BY <4>2, <3>1, <2>c DEF Newest
      <4>3. CASE Successes' = Successes \cup {r} /\ Successes # {}
        <5>1. PICK n \in Runs : Newest(n, Successes)
          BY <4>3 DEF RankInv
        <5>2. Successes \subseteq Runs
          BY DEF Successes
        <5>3. CASE created[r] <= created[n]
          BY <4>3, <5>1, <5>3, <3>1 DEF Newest
        <5>4. CASE created[n] <= created[r]
          BY <4>3, <5>1, <5>2, <5>4, <3>1, <2>c DEF Newest
        <5> QED
          BY <5>3, <5>4, <2>c
      <4> QED
        BY <3>2, <4>1, <4>2, <4>3
    <3> QED
      BY <3>1, <3>2, <3>3 DEF RankInv
  <2>2. ASSUME NEW r \in Runs, NEW origin \in Requests, CreateExecution(r, origin)
        PROVE  RankInv'
    <3>0. Stored \subseteq Runs /\ Successes \subseteq Stored
      BY DEF Stored, Successes
    <3>1. \A q \in Stored' : created'[q] <= Cardinality(Stored')
      <4> SUFFICES ASSUME NEW q \in Stored' PROVE created'[q] <= Cardinality(Stored')
        OBVIOUS
      <4>1. CASE q = r
        BY <2>2, <4>1, OpenedLast
      <4>2. CASE q # r
        <5>1. q \in Stored /\ created'[q] = created[q] /\ created[q] \in Nat
          BY <2>2, <4>2, <2>c, <3>0, OpenedLast
        <5> QED
          BY <2>2, <5>1, OpenedLast DEF RankInv
      <4> QED
        BY <4>1, <4>2
    <3>2. \A p, q \in Stored' : created'[p] = created'[q] => p = q
      <4> SUFFICES ASSUME NEW p \in Stored', NEW q \in Stored', created'[p] = created'[q]
                   PROVE  p = q
        OBVIOUS
      <4>1. /\ \A s \in Stored : created'[s] < created'[r] /\ created'[s] = created[s]
            /\ \A s \in Stored' : s = r \/ s \in Stored
            /\ created'[r] \in Nat
        BY <2>2, <3>0, OpenedLast
      <4>2. ~ created'[r] < created'[r]
        BY <4>1
      <4> QED
        BY <4>1, <4>2 DEF RankInv
    <3>3. Successes' # {} => \E n \in Runs : Newest(n, Successes)'
      <4>1. Successes' = Successes /\ \A q \in Successes : created'[q] = created[q]
        BY <2>2, <3>0, OpenedLast
      <4> QED
        BY <4>1 DEF RankInv, Newest
    <3> QED
      BY <3>1, <3>2, <3>3 DEF RankInv
  <2>3. ASSUME row' = row, created' = created PROVE RankInv'
    BY <2>3 DEF RankInv, Stored, Successes, Newest
  <2>4. ASSUME NEW r \in Runs, InsertFails(r) \/ Review(r) \/ Crash(r) PROVE RankInv'
    BY <2>1, <2>3, <2>4, OthersStay
  <2>5. ASSUME \/ \E d \in 1..MaxDate, isMerge \in BOOLEAN : Push(d, isMerge)
               \/ WindowPasses \/ UNCHANGED vars
        PROVE  RankInv'
    BY <2>3, <2>5 DEF Push, WindowPasses, vars, rowVars
  <2> QED
    BY <2>2, <2>4, <2>5 DEF Next
<1> QED
  BY <1>1, <1>2, TypeCorrect, StagesHold, PTL DEF Spec

(* The mark the next run starts from is that of the newest success.         *)
LEMMA LastIsNewest ==
  ASSUME TypeOK, RankInv
  PROVE  /\ Successes = {} => LastAnalyzedCommit = 0
         /\ \A n \in Runs : Newest(n, Successes) => LastAnalyzedCommit = row[n].lac
<1>1. Successes = {} => ~ \E n \in Runs : Newest(n, Successes)
  BY DEF Newest
<1>2. ASSUME NEW n \in Runs, NEW m \in Runs, Newest(n, Successes), Newest(m, Successes)
      PROVE  n = m
  <2>1. n \in Stored /\ m \in Stored /\ created[n] \in Nat /\ created[m] \in Nat
    BY <1>2 DEF Newest, Successes, Stored, TypeOK
  <2>2. created[n] = created[m]
    BY <1>2, <2>1 DEF Newest
  <2> QED
    BY <2>1, <2>2 DEF RankInv
<1> QED
  BY <1>1, <1>2 DEF LastAnalyzedCommit

-----------------------------------------------------------------------------
(* Runs that follow one another: what each has decided so far, in terms of  *)
(* the marks of the runs that succeeded before it.                          *)

(* The commit d stands at c or after it in the list of commits.             *)
Upto(c, d) == c = d \/ ListedAfter(d, c)

LatestOf(r) ==
  r \in Active => ~ctx[r].crashed /\ \A q \in Stored : created[q] <= created[r]

(* It starts from the last of their marks, and works on later commits only; *)
BaseOf(r) ==
  pc[r] \in Based =>
    IF ctx[r].base = 0 THEN Successes = {}
    ELSE ctx[r].base \in Pushed /\ \A s \in Successes : Upto(row[s].lac, ctx[r].base)

WorkOf(r) ==
  /\ pc[r] \in ReviewWindow => ctx[r].files \subseteq ChangedSince(ctx[r].base)
  /\ pc[r] \in Analysed => ctx[r].sugg \subseteq ChangedSince(ctx[r].base)
  /\ pc[r] = "PostComment" =>
       /\ ctx[r].todo \subseteq ChangedSince(ctx[r].base)
       /\ \A c \in ctx[r].todo : date[c] <= date[ctx[r].lac]

(* the mark it will leave is no earlier than theirs;                        *)
MarkOf(r) ==
  Marking(r) => ctx[r].lac \in Pushed /\ \A s \in Successes : Upto(row[s].lac, ctx[r].lac)

MarksOrdered ==
  /\ \A s \in Successes : row[s].lac \in Pushed
  /\ \A p, s \in Successes : created[p] <= created[s] => Upto(row[p].lac, row[s].lac)

(* and no comment is on a commit dated after the mark of its run.           *)
CommentOf(r, c) ==
  /\ c \in Pushed
  /\ \/ Marking(r) /\ date[c] <= date[ctx[r].lac]
     \/ r \in Successes /\ date[c] <= date[row[r].lac]

CommentsOrdered == \A r \in Runs, c \in Commits : <<r, c>> \in comments => CommentOf(r, c)
NoneRepeated    == \A p, q \in comments : p[2] = q[2] => p = q

OrderInv ==
  /\ \A r \in Runs : LatestOf(r) /\ BaseOf(r) /\ WorkOf(r) /\ MarkOf(r)
  /\ MarksOrdered /\ CommentsOrdered /\ NoneRepeated

SeqInv == Sequential => OrderInv

(* The turn of the only run in progress.                                    *)
Turn(r) ==
  /\ TypeOK /\ StageInv /\ RankInv /\ Alone /\ MaxActive = 1 /\ OrderInv
  /\ r \in Active /\ CleanStep(r)

LEMMA DatesOrdered ==
  ASSUME TypeOK
  PROVE  /\ Pushed \subseteq Commits /\ 0 \notin Pushed
         /\ \A c \in Pushed : date[c] \in Nat
         /\ \A c, d \in Pushed : Upto(c, d) => date[c] <= date[d]
<1>1. Pushed \subseteq Commits /\ 0 \notin Pushed
  BY RunsAssumption DEF TypeOK, Pushed, Commits
<1>2. \A c \in Pushed : date[c] \in Nat
  BY <1>1, RunsAssumption DEF TypeOK
<1>3. ASSUME NEW c \in Pushed, NEW d \in Pushed, Upto(c, d) PROVE date[c] <= date[d]
  BY <1>2, <1>3 DEF Upto, ListedAfter
<1> QED
  BY <1>1, <1>2, <1>3

LEMMA TurnFacts ==
  ASSUME NEW r \in Runs, Turn(r)
  PROVE  /\ Pushed' = Pushed /\ date' = date /\ created' = created
         /\ \A c : (ChangedSince(c))' = ChangedSince(c)
         /\ \A q \in Runs \ {r} : /\ row'[q] = row[q] /\ q \notin Active /\ q \notin Active'
                                  /\ pc'[q] \notin Based /\ ~Marking(q) /\ ~Marking(q)'
         /\ Stored' = Stored /\ r \in Stored
         /\ pc[r] # "UpdateExecution" => Successes' = Successes /\ row'[r] = row[r]
         /\ pc[r] = "UpdateExecution" =>
              /\ pc'[r] = "RecordEnd" /\ row'[r].lac = ctx[r].lac /\ r \notin Successes
              /\ Successes' = IF Marking(r) THEN Successes \cup {r} ELSE Successes
<1>1. /\ head' = head /\ date' = date /\ created' = created
      /\ \A q \in Runs \ {r} : pc'[q] = pc[q] /\ row'[q] = row[q] /\ ctx'[q] = ctx[q]
  BY DEF Turn, CleanStep, Apart
<1>2. Pushed' = Pushed
  BY <1>1 DEF Pushed
<1>3. \A c : (ChangedSince(c))' = ChangedSince(c)
  BY <1>1, <1>2 DEF ChangedSince
<1>4. \A q \in Runs \ {r} : q \notin Active /\ q \notin Active'
  BY <1>1 DEF Turn, Alone, Active
<1>5. \A q \in Runs \ {r} : pc[q] \in {"idle", "done"} /\ pc'[q] \in {"idle", "done"}
  BY <1>4 DEF Active
<1>6. \A q \in Runs \ {r} : pc'[q] \notin Based /\ ~Marking(q) /\ ~Marking(q)'
  BY <1>5 DEF Based, ReviewWindow, Fetched, Analysed, Marking, Marked
<1>7. r \in Stored
  BY DEF Turn, StageInv, StageOf, Active, Stored, FinalStatus
<1>8. CASE pc[r] # "UpdateExecution"
  <2>1. row'[r] = row[r]
    BY <1>8 DEF Turn, CleanStep, RowMoves
  <2>2. Stored' = Stored /\ Successes' = Successes
    BY <1>1, <2>1 DEF Stored, Successes
  <2> QED
    BY <1>1, <1>2, <1>3, <1>4, <1>6, <1>7, <1>8, <2>1, <2>2
<1>9. CASE pc[r] = "UpdateExecution"
  <2>1. pc'[r] = "RecordEnd" /\ row'[r] = ExecutionData(ctx[r])
    BY <1>9 DEF Turn, CleanStep, RowMoves
  <2>2. ~ctx[r].crashed
    BY DEF Turn, OrderInv, LatestOf
  <2>3. TypeOK /\ StageInv
    BY DEF Turn
  <2>4. /\ Stored' = Stored /\ r \in Stored /\ r \notin Successes
        /\ Successes' = IF FinalStatus(ctx[r]) = "success" THEN Successes \cup {r} ELSE Successes
        /\ row'[r].lac = ctx[r].lac
        /\ (FinalStatus(ctx[r]) = "success") = (ctx[r].status # "skipped")
    BY <1>1, <1>9, <2>1, <2>2, <2>3, ClosedRow
  <2>5. Marking(r) = (ctx[r].status # "skipped")
    BY <1>9 DEF Marking, Marked
  <2> QED
    BY <1>1, <1>2, <1>3, <1>4, <1>6, <1>9, <2>1, <2>4, <2>5
<1> QED
  BY <1>8, <1>9

LEMMA TurnKeepsLatest ==
  ASSUME NEW r \in Runs, Turn(r), NEW q \in Runs
  PROVE  LatestOf(q)'
<1>1. CASE q # r
  BY <1>1, TurnFacts DEF LatestOf
<1>2. CASE q = r
  <2>1. ~ctx'[r].crashed /\ \A s \in Stored : created[s] <= created[r]
    BY DEF Turn, CleanStep, OrderInv, LatestOf
  <2> QED
    BY <1>2, <2>1, TurnFacts DEF LatestOf
<1> QED
  BY <1>1, <1>2

LEMMA TurnKeepsBase ==
  ASSUME NEW r \in Runs, Turn(r), NEW q \in Runs
  PROVE  BaseOf(q)'
<1>1. CASE q # r
  BY <1>1, TurnFacts DEF BaseOf
<1>2. CASE q = r
  <2> SUFFICES ASSUME pc'[r] \in Based
               PROVE  IF ctx'[r].base = 0 THEN Successes' = {}
                      ELSE /\ ctx'[r].base \in Pushed'
                           /\ \A s \in Successes' : (Upto(row[s].lac, ctx[r].base))'
    BY <1>2 DEF BaseOf
  <2>1. pc[r] # "UpdateExecution"
    BY DEF Turn, CleanStep, RowMoves, Based, ReviewWindow, Fetched, Analysed
  <2>2. /\ Successes' = Successes /\ Pushed' = Pushed /\ date' = date
        /\ \A s \in Runs : row'[s] = row[s]
    BY <2>1, TurnFacts
  <2>3. CASE pc[r] \in Based /\ ctx'[r].base = ctx[r].base
    <3>1. BaseOf(r)
      BY DEF Turn, OrderInv
    <3> QED
      BY <2>2, <2>3, <3>1 DEF BaseOf, Upto, ListedAfter, Successes
  <2>4. CASE ctx'[r].base = LastAnalyzedCommit
    <3>1. TypeOK /\ RankInv /\ MarksOrdered
      BY DEF Turn, OrderInv
    <3>2. CASE Successes = {}
      BY <2>2, <2>4, <3>1, <3>2, LastIsNewest
    <3>3. CASE Successes # {}
      <4>1. PICK n \in Runs : Newest(n, Successes)
        BY <3>1, <3>3 DEF RankInv
      <4>2. LastAnalyzedCommit = row[n].lac
        BY <3>1, <4>1, LastIsNewest
      <4>3. row[n].lac \in Pushed /\ \A s \in Successes : Upto(row[s].lac, row[n].lac)
        BY <3>1, <4>1 DEF MarksOrdered, Newest
      <4>4. row[n].lac # 0
        BY <3>1, <4>3, DatesOrdered
      <4> QED
        BY <2>2, <2>4, <4>2, <4>3, <4>4 DEF Upto, ListedAfter, Successes
    <3> QED
      BY <3>2, <3>3
  <2> QED
    BY <2>3, <2>4 DEF Turn, CleanStep, BaseMoves
<1> QED
  BY <1>1, <1>2

LEMMA TurnKeepsWork ==
  ASSUME NEW r \in Runs, Turn(r), NEW q \in Runs
  PROVE  WorkOf(q)'
<1>0. /\ TypeOK /\ WorkOf(r)
  BY DEF Turn, OrderInv
<1>1. CASE q # r
  BY <1>1, TurnFacts DEF WorkOf, Based, ReviewWindow, Fetched, Analysed
<1>2. ASSUME pc'[r] \in ReviewWindow PROVE ctx'[r].files \subseteq (ChangedSince(ctx[r].base))'
  BY <1>0, <1>2, TurnFacts DEF Turn, CleanStep, FilesMove, WorkOf
<1>3. ASSUME pc'[r] \in Analysed PROVE ctx'[r].sugg \subseteq (ChangedSince(ctx[r].base))'
  BY <1>0, <1>3, TurnFacts DEF Turn, CleanStep, SuggestionsMove, WorkOf
<1>4. ASSUME pc'[r] = "PostComment"
      PROVE  /\ ctx'[r].todo \subseteq (ChangedSince(ctx[r].base))'
             /\ \A c \in ctx'[r].todo : date'[c] <= date'[ctx'[r].lac]
  <2>1. /\ (ChangedSince(ctx[r].base))' = ChangedSince(ctx[r].base) /\ date' = date
        /\ ctx'[r].base = ctx[r].base
    BY <1>4, TurnFacts DEF Turn, CleanStep, TodoMoves
  <2>2. CASE /\ pc[r] = "PostComment" /\ ctx'[r].lac = ctx[r].lac
             /\ ctx'[r].todo \subseteq ctx[r].todo
    BY <1>0, <2>1, <2>2 DEF WorkOf
  <2>3. CASE /\ pc[r] \in Analysed /\ ctx'[r].todo \subseteq ctx[r].sugg
             /\ ctx'[r].lac \in Pushed /\ IsLastCommit(ctx'[r].lac)
    <3>1. ctx'[r].todo \subseteq ChangedSince(ctx[r].base)
      BY <1>0, <2>3 DEF WorkOf
    <3>2. ChangedSince(ctx[r].base) \subseteq Pushed
      BY DEF ChangedSince
    <3>3. \A c \in Pushed : date[c] <= date[ctx'[r].lac]
      <4>1. \A c \in Pushed : date[c] \in Nat
        BY <1>0, DatesOrdered
      <4> QED
        BY <2>3, <4>1 DEF IsLastCommit, ListedAfter
    <3> QED
      BY <2>1, <3>1, <3>2, <3>3
  <2> QED
    BY <1>4, <2>2, <2>3 DEF Turn, CleanStep, TodoMoves
<1> QED
  BY <1>1, <1>2, <1>3, <1>4 DEF WorkOf

LEMMA TurnKeepsMark ==
  ASSUME NEW r \in Runs, Turn(r), NEW q \in Runs
  PROVE  MarkOf(q)'
<1>1. CASE q # r
  BY <1>1, TurnFacts DEF MarkOf
<1>2. CASE q = r
  <2> SUFFICES ASSUME Marking(r)'
               PROVE  /\ ctx'[r].lac \in Pushed'
                      /\ \A s \in Successes' : (Upto(row[s].lac, ctx[r].lac))'
    BY <1>2 DEF MarkOf
  <2>1. pc[r] # "UpdateExecution"
    BY DEF Turn, CleanStep, RowMoves, Marking, Marked
  <2>2. /\ Successes' = Successes /\ Pushed' = Pushed /\ date' = date
        /\ \A s \in Runs : row'[s] = row[s]
    BY <2>1, TurnFacts
  <2>3. Successes \subseteq Runs /\ MarkOf(r) /\ MarksOrdered
    BY DEF Turn, OrderInv, Successes
  <2>4. CASE pc[r] \in Marked /\ ctx'[r].lac = ctx[r].lac
    BY <2>2, <2>3, <2>4 DEF MarkOf, Marking, Upto, ListedAfter
  <2>5. CASE ctx'[r].lac \in Pushed /\ IsLastCommit(ctx'[r].lac)
    BY <2>2, <2>3, <2>5 DEF MarksOrdered, IsLastCommit, Upto, ListedAfter
  <2> QED
    BY <2>4, <2>5 DEF Turn, CleanStep, MarkMoves
<1> QED
  BY <1>1, <1>2

LEMMA TurnKeepsMarksOrdered ==
  ASSUME NEW r \in Runs, Turn(r)
  PROVE  MarksOrdered'
<1>0. /\ TypeOK /\ RankInv /\ MarksOrdered /\ MarkOf(r) /\ LatestOf(r) /\ r \in Active
      /\ Successes \subseteq Stored /\ Stored \subseteq Runs /\ created \in [Runs -> Nat]
  BY DEF Turn, OrderInv, Successes, Stored, TypeOK
<1>1. CASE Successes' = Successes /\ (r \in Successes => row'[r] = row[r])
  <2>1. /\ Pushed' = Pushed /\ date' = date /\ created' = created
        /\ \A s \in Successes : row'[s] = row[s]
    BY <1>0, <1>1, TurnFacts
  <2> QED
    BY <1>0, <1>1, <2>1 DEF MarksOrdered, Upto, ListedAfter
<1>2. CASE pc[r] = "UpdateExecution" /\ Marking(r)
  <2>1. /\ Successes' = Successes \cup {r} /\ r \notin Successes /\ r \in Stored
        /\ row'[r].lac = ctx[r].lac
    BY <1>2, TurnFacts
  <2>2. /\ Pushed' = Pushed /\ date' = date /\ created' = created
        /\ \A s \in Successes : row'[s] = row[s]
    BY <1>0, <2>1, TurnFacts
  <2>3. ctx[r].lac \in Pushed /\ \A s \in Successes : Upto(row[s].lac, ctx[r].lac)
    BY <1>0, <1>2 DEF MarkOf
  <2>4. \A s \in Successes : ~ created[r] <= created[s]
    <3> SUFFICES ASSUME NEW s \in Successes, created[r] <= created[s] PROVE FALSE
      OBVIOUS
    <3>1. created[s] <= created[r] /\ created[s] \in Nat /\ created[r] \in Nat
      BY <1>0 DEF LatestOf
    <3>2. created[s] = created[r] /\ s \in Stored
      BY <1>0, <3>1
    <3> QED
      BY <1>0, <2>1, <3>2 DEF RankInv
  <2>5. \A s \in Successes' : row'[s].lac \in Pushed'
    BY <1>0, <2>1, <2>2, <2>3 DEF MarksOrdered
  <2>6. ASSUME NEW p \in Successes', NEW s \in Successes', created'[p] <= created'[s]
        PROVE  (Upto(row[p].lac, row[s].lac))'
    <3>1. CASE s = r
      BY <2>1, <2>2, <2>3, <3>1 DEF Upto, ListedAfter
    <3>2. CASE s # r
      <4>1. s \in Successes /\ p \in Successes /\ created[p] <= created[s]
        BY <2>1, <2>2, <2>4, <2>6, <3>2
      <4> QED
        BY <1>0, <2>2, <4>1 DEF MarksOrdered, Upto, ListedAfter
    <3> QED
      BY <3>1, <3>2
  <2> QED
    BY <2>5, <2>6 DEF MarksOrdered
<1> QED
  BY <1>1, <1>2, TurnFacts

(* A comment of another run is under that run's mark; a new one is over the *)
(* base of its run, where no such comment is.                               *)
LEMMA TurnKeepsComments ==
  ASSUME NEW r \in Runs, Turn(r)
  PROVE  CommentsOrdered' /\ NoneRepeated'
<1>0. /\ TypeOK /\ CommentsOrdered /\ NoneRepeated /\ BaseOf(r) /\ WorkOf(r) /\ MarksOrdered
      /\ Pushed' = Pushed /\ date' = date /\ comments \subseteq Runs \X Commits
      /\ Successes \subseteq Runs
  BY TurnFacts DEF Turn, OrderInv, TypeOK, Successes
<1>1. ASSUME NEW q \in Runs, NEW c \in Commits, <<q, c>> \in comments
      PROVE  CommentOf(q, c)'
  <2>1. CommentOf(q, c)
    BY <1>0, <1>1 DEF CommentsOrdered
  <2>2. CASE q # r
    <3>1. q \in Successes /\ date[c] <= date[row[q].lac]
      BY <2>1, <2>2, TurnFacts DEF CommentOf
    <3>2. q \in Successes' /\ row'[q] = row[q]
      BY <2>2, <3>1, TurnFacts
    <3> QED
      BY <1>0, <2>1, <3>1, <3>2 DEF CommentOf
  <2>3. CASE q = r /\ pc[r] = "UpdateExecution"
    BY <1>0, <2>1, <2>3, TurnFacts DEF CommentOf
  <2>4. CASE q = r /\ pc[r] # "UpdateExecution" /\ r \in Successes /\ date[c] <= date[row[r].lac]
    BY <1>0, <2>1, <2>4, TurnFacts DEF CommentOf
  <2>5. CASE q = r /\ pc[r] \in Marked /\ date[c] <= date[ctx[r].lac]
    <3>1. Marking(r)' /\ ctx'[r].lac = ctx[r].lac
      BY <2>5 DEF Turn, CleanStep, MarkMoves, Marked, Analysed
    <3> QED
      BY <1>0, <2>1, <2>5, <3>1 DEF CommentOf
  <2> QED
    BY <2>1, <2>2, <2>3, <2>4, <2>5 DEF CommentOf, Marking
<1>2. CASE comments' = comments
  BY <1>0, <1>1, <1>2 DEF CommentsOrdered, NoneRepeated
<1>3. ASSUME NEW k \in ctx[r].todo, pc[r] = "PostComment", comments' = comments \cup {<<r, k>>}
      PROVE  CommentsOrdered' /\ NoneRepeated'
  <2>1. k \in ChangedSince(ctx[r].base) /\ k \in Pushed /\ date[k] <= date[ctx[r].lac]
    BY <1>0, <1>3 DEF WorkOf, ChangedSince
  <2>2. Marking(r)' /\ ctx'[r].lac = ctx[r].lac
    BY <1>3 DEF Turn, CleanStep, MarkMoves, Marked, Analysed
  <2>3. CommentOf(r, k)'
    BY <1>0, <2>1, <2>2 DEF CommentOf
  <2>4. ASSUME NEW q \in Runs, <<q, k>> \in comments PROVE q = r
    <3> SUFFICES ASSUME q # r PROVE FALSE
      OBVIOUS
    <3>1. k \in Commits
      BY <1>0, <2>1, DatesOrdered
    <3>2. q \in Successes /\ date[k] <= date[row[q].lac]
      BY <1>0, <2>4, <3>1, TurnFacts DEF CommentsOrdered, CommentOf
    <3>3. ctx[r].base # 0 /\ ctx[r].base \in Pushed /\ Upto(row[q].lac, ctx[r].base)
      BY <1>0, <1>3, <3>2 DEF BaseOf, Based
    <3>4. row[q].lac \in Pushed
      BY <1>0, <3>2 DEF MarksOrdered
    <3>5. /\ date[row[q].lac] <= date[ctx[r].base]
          /\ date[k] \in Nat /\ date[row[q].lac] \in Nat /\ date[ctx[r].base] \in Nat
      BY <1>0, <2>1, <3>3, <3>4, DatesOrdered
    <3>6. date[k] > date[ctx[r].base]
      BY <2>1, <3>3 DEF ChangedSince
    <3> QED
      BY <3>2, <3>5, <3>6
  <2>5. CommentsOrdered'
    BY <1>1, <1>3, <2>3 DEF CommentsOrdered
  <2>6. NoneRepeated'
    <3> SUFFICES ASSUME NEW p \in comments', NEW q \in comments', p[2] = q[2] PROVE p = q
      BY DEF NoneRepeated
    <3>1. CASE p \in comments /\ q \in comments
      BY <1>0, <3>1 DEF NoneRepeated
    <3>2. CASE p \in comments /\ q = <<r, k>>
      BY <1>0, <2>4, <3>2
    <3>3. CASE q \in comments /\ p = <<r, k>>
      BY <1>0, <2>4, <3>3
    <3> QED
      BY <1>3, <3>1, <3>2, <3>3
  <2> QED
    BY <2>5, <2>6
<1> QED
  BY <1>2, <1>3 DEF Turn, CleanStep, CommentsMove

LEMMA TurnKeepsOrder ==
  ASSUME NEW r \in Runs, Turn(r)
  PROVE  OrderInv'
BY TurnKeepsLatest, TurnKeepsBase, TurnKeepsWork, TurnKeepsMark, TurnKeepsMarksOrdered,
   TurnKeepsComments DEF OrderInv

(* The push and the opening of a row.                                       *)
LEMMA PushKeepsOrder ==
  ASSUME TypeOK, OrderInv, NEW d \in 1..MaxDate, NEW isMerge \in BOOLEAN, Push(d, isMerge)
  PROVE  OrderInv'
<1>1. /\ head' = head + 1 /\ date' = [date EXCEPT ![head + 1] = d]
      /\ UNCHANGED <<comments, row, created, pc, ctx>>
  BY DEF Push, postVars, rowVars
<1>2. /\ Pushed \subseteq Pushed' /\ head + 1 \notin Pushed /\ Pushed \subseteq Commits
      /\ 0 \notin Pushed
  BY <1>1, RunsAssumption DEF TypeOK, Pushed, Commits
<1>3. \A c \in Pushed : date'[c] = date[c]
  BY <1>1, <1>2 DEF TypeOK
<1>4. \A c, e \in Pushed : Upto(c, e) => Upto(c, e)'
  BY <1>3 DEF Upto, ListedAfter
<1>5. Successes' = Successes /\ Stored' = Stored /\ Active' = Active
  BY <1>1 DEF Successes, Stored, Active
<1>6. \A q \in Runs : Marking(q)' = Marking(q)
  BY <1>1 DEF Marking
<1>7. ASSUME NEW q \in Runs PROVE LatestOf(q)' /\ BaseOf(q)' /\ WorkOf(q)' /\ MarkOf(q)'
  <2>1. LatestOf(q) /\ BaseOf(q) /\ WorkOf(q) /\ MarkOf(q) /\ MarksOrdered
    BY DEF OrderInv
  <2>2. LatestOf(q)'
    BY <1>1, <1>5, <2>1 DEF LatestOf
  <2>3. BaseOf(q)'
    BY <1>1, <1>2, <1>4, <1>5, <2>1 DEF BaseOf, MarksOrdered
  <2>4. MarkOf(q)'
    BY <1>1, <1>2, <1>4, <1>5, <1>6, <2>1 DEF MarkOf, MarksOrdered
  <2>5. ASSUME pc[q] \in Based PROVE ChangedSince(ctx[q].base) \subseteq (ChangedSince(ctx[q].base))'
    <3>1. ctx[q].base = 0 \/ ctx[q].base \in Pushed
      BY <2>1, <2>5 DEF BaseOf
    <3> QED
      BY <1>1, <1>2, <1>3, <3>1 DEF ChangedSince
  <2>6. WorkOf(q)'
    <3>1. ASSUME pc[q] = "PostComment"
          PROVE  \A c \in ctx[q].todo : date'[c] <= date'[ctx[q].lac]
      <4>1. ctx[q].lac \in Pushed
        BY <2>1, <3>1 DEF MarkOf, Marking, Marked
      <4>2. ctx[q].todo \subseteq Pushed
        BY <2>1, <3>1 DEF WorkOf, ChangedSince
      <4> QED
        BY <1>3, <2>1, <3>1, <4>1, <4>2 DEF WorkOf
    <3> QED
      BY <1>1, <2>1, <2>5, <3>1 DEF WorkOf, Based, ReviewWindow
  <2> QED
    BY <2>2, <2>3, <2>4, <2>6
<1>8. MarksOrdered'
  BY <1>1, <1>2, <1>4, <1>5 DEF OrderInv, MarksOrdered
<1>9. CommentsOrdered' /\ NoneRepeated'
  <2>1. ASSUME NEW q \in Runs, NEW c \in Commits, <<q, c>> \in comments PROVE CommentOf(q, c)'
    <3>1. CommentOf(q, c) /\ MarkOf(q) /\ MarksOrdered
      BY <2>1 DEF OrderInv, CommentsOrdered
    <3>2. /\ Marking(q) => ctx[q].lac \in Pushed
          /\ q \in Successes => row[q].lac \in Pushed
      BY <3>1 DEF MarkOf, MarksOrdered
    <3> QED
      BY <1>1, <1>2, <1>3, <1>5, <1>6, <3>1, <3>2 DEF CommentOf
  <2> QED
    BY <1>1, <2>1 DEF OrderInv, CommentsOrdered, NoneRepeated
<1> QED
  BY <1>7, <1>8, <1>9 DEF OrderInv

LEMMA OpeningKeepsOrder ==
  ASSUME TypeOK, StageInv, RankInv, OrderInv, MaxActive = 1,
         NEW r \in Runs, NEW origin \in Requests, CreateExecution(r, origin)
  PROVE  OrderInv'
<1>1. Active = {}
  BY NobodyActive DEF CreateExecution
<1>2. /\ pc[r] = "idle" /\ pc'[r] = "RecordStart" /\ ctx'[r].crashed = FALSE
      /\ \A q \in Runs \ {r} : pc'[q] = pc[q] /\ ctx'[q] = ctx[q]
      /\ UNCHANGED <<head, date, comments>>
  BY DEF CreateExecution, TypeOK, InitialContext, prVars, postVars
<1>3. /\ r \notin Stored /\ Stored' = Stored \cup {r} /\ Successes' = Successes
      /\ r \notin Successes
      /\ \A q \in Runs \ {r} : created'[q] = created[q] /\ row'[q] = row[q]
      /\ \A q \in Stored : created'[q] < created'[r]
      /\ created'[r] \in Nat
  BY OpenedLast
<1>4. \A q \in Runs : pc'[q] \in {"idle", "done", "RecordStart"} /\ pc[q] \in {"idle", "done"}
  BY <1>1, <1>2 DEF Active
<1>5. Pushed' = Pushed
  BY <1>2 DEF Pushed
<1>6. \A q \in Runs : pc'[q] \notin Based /\ ~Marking(q)' /\ ~Marking(q)
  BY <1>4 DEF Based, ReviewWindow, Fetched, Analysed, Marking, Marked
<1>7. ASSUME NEW q \in Runs PROVE LatestOf(q)' /\ BaseOf(q)' /\ WorkOf(q)' /\ MarkOf(q)'
  <2>1. LatestOf(q)'
    <3>1. CASE q = r
      <4>1. \A s \in Stored : created'[s] \in Nat
        BY <1>3 DEF Stored, TypeOK
      <4> QED
        BY <1>2, <1>3, <3>1, <4>1 DEF LatestOf
    <3>2. CASE q # r
      BY <1>1, <1>2, <3>2 DEF LatestOf, Active
    <3> QED
      BY <3>1, <3>2
  <2> QED
    BY <1>6, <2>1 DEF BaseOf, WorkOf, MarkOf, Based, ReviewWindow
<1>8. \A s \in Successes : row'[s] = row[s] /\ created'[s] = created[s]
  BY <1>3 DEF Successes
<1>9. MarksOrdered'
  BY <1>2, <1>3, <1>5, <1>8 DEF OrderInv, MarksOrdered, Upto, ListedAfter
<1>10. CommentsOrdered' /\ NoneRepeated'
  <2>1. ASSUME NEW q \in Runs, NEW c \in Commits, <<q, c>> \in comments PROVE CommentOf(q, c)'
    <3>1. CommentOf(q, c) /\ ~Marking(q)
      BY <1>6, <2>1 DEF OrderInv, CommentsOrdered
    <3> QED
      BY <1>2, <1>3, <1>5, <1>8, <3>1 DEF CommentOf
  <2> QED
    BY <1>2, <2>1 DEF OrderInv, CommentsOrdered, NoneRepeated
<1> QED
  BY <1>7, <1>9, <1>10 DEF OrderInv

(* A step without failure of a sequence without failure is a turn.          *)
LEMMA StepIsTurn ==
  ASSUME TypeOK, StageInv, RankInv, Alone, SeqInv, Sequential',
         NEW r \in Runs, Review(r) \/ InsertFails(r) \/ Crash(r)
  PROVE  Sequential /\ Turn(r)
<1>1. faults \in Nat /\ faults' = 0 /\ MaxActive = 1
  BY RunsAssumption DEF TypeOK, Sequential
<1>2. ~Fault
  BY <1>1 DEF Fault
<1>3. faults = 0 /\ Sequential
  BY <1>1, <1>2, FaultOrNot DEF NoFault, Sequential
<1>4. r \in Active
  BY <1>2, OthersStay DEF InsertFails
<1>5. OrderInv /\ ~ctx[r].crashed
  BY <1>3, <1>4 DEF SeqInv, OrderInv, LatestOf
<1> QED
  BY <1>1, <1>3, <1>4, <1>5, CleanSteps DEF Turn

LEMMA SequenceHolds == Spec => []SeqInv
<1>1. Init => SeqInv
  BY DEF Init, SeqInv, OrderInv, LatestOf, BaseOf, WorkOf, MarkOf, MarksOrdered,
     CommentsOrdered, NoneRepeated, Successes, Active, NoRow, Based, ReviewWindow, Fetched,
     Analysed, Marking, Marked
<1>2. TypeOK /\ StageInv /\ RankInv /\ Alone /\ SeqInv /\ [Next]_vars => SeqInv'
  <2> SUFFICES ASSUME TypeOK, StageInv, RankInv, Alone, SeqInv, [Next]_vars, Sequential'
               PROVE  OrderInv'
    BY DEF SeqInv
  <2>0. ASSUME faults' = faults PROVE Sequential /\ OrderInv
    BY <2>0 DEF Sequential, SeqInv
  <2>1. ASSUME NEW r \in Runs, InsertFails(r) \/ Review(r) \/ Crash(r) PROVE OrderInv'
    BY <2>1, StepIsTurn, TurnKeepsOrder
  <2>2. ASSUME NEW r \in Runs, NEW origin \in Requests, CreateExecution(r, origin)
        PROVE  OrderInv'
    BY <2>0, <2>2, OpeningKeepsOrder DEF CreateExecution, NoFault, Sequential
  <2>3. ASSUME NEW d \in 1..MaxDate, NEW isMerge \in BOOLEAN, Push(d, isMerge)
        PROVE  OrderInv'
    BY <2>0, <2>3, PushKeepsOrder DEF Push
  <2>4. CASE WindowPasses \/ UNCHANGED vars
    <3>1. UNCHANGED <<head, date, comments, row, created, pc, ctx, faults>>
      BY <2>4 DEF WindowPasses, vars, prVars, postVars, rowVars
    <3>2. OrderInv
      BY <2>0, <3>1
    <3>3. /\ Successes' = Successes /\ Stored' = Stored /\ Active' = Active /\ Pushed' = Pushed
          /\ \A q \in Runs : Marking(q)' = Marking(q)
          /\ \A c : (ChangedSince(c))' = ChangedSince(c)
          /\ \A c, d : Upto(c, d)' = Upto(c, d)
      BY <3>1 DEF Successes, Stored, Active, Pushed, Marking, ChangedSince, Upto,
         ListedAfter
    <3>4. \A q \in Runs : LatestOf(q)' /\ BaseOf(q)' /\ WorkOf(q)' /\ MarkOf(q)'
      BY <3>1, <3>2, <3>3 DEF OrderInv, LatestOf, BaseOf, WorkOf, MarkOf
    <3>5. MarksOrdered' /\ CommentsOrdered' /\ NoneRepeated'
      BY <3>1, <3>2, <3>3 DEF OrderInv, MarksOrdered, CommentsOrdered, CommentOf,
         NoneRepeated
    <3> QED
      BY <3>4, <3>5 DEF OrderInv
  <2> QED
    BY <2>1, <2>2, <2>3, <2>4 DEF Next
<1> QED
  BY <1>1, <1>2, TypeCorrect, StagesHold, RanksHold, StaysAlone, PTL DEF Spec

(* No commit is commented on by two reviews that follow one another, however *)
(* the pushes, the dates and the commands fall                              *)
(* (getChangedFilesSinceLastCommit, createLineComments).                    *)
THEOREM NothingRepeated == Spec => []NoRepeatedComments
<1>1. SeqInv => NoRepeatedComments
  BY DEF SeqInv, OrderInv, NoneRepeated, NoRepeatedComments
<1> QED
  BY <1>1, SequenceHolds, PTL

(* A row that opens, or one that closes as anything but a success, moves no *)
(* mark; the success of the newest run leaves its own.                      *)
LEMMA LastStays ==
  ASSUME TypeOK, RankInv, Successes' = Successes,
         \A q \in Successes : row'[q] = row[q] /\ created'[q] = created[q]
  PROVE  LastAnalyzedCommit' = LastAnalyzedCommit
<1>1. \A q \in Runs : Newest(q, Successes)' = Newest(q, Successes)
  BY DEF Newest
<1>2. CASE \E q \in Runs : Newest(q, Successes)
  <2> DEFINE n == CHOOSE q \in Runs : Newest(q, Successes)
  <2>1. n \in Runs /\ Newest(n, Successes)
    BY <1>2
  <2>2. (CHOOSE q \in Runs : Newest(q, Successes)') = n
    BY <1>1
  <2>3. row'[n] = row[n]
    BY <2>1 DEF Newest
  <2> QED
    BY <1>1, <1>2, <2>2, <2>3 DEF LastAnalyzedCommit
<1>3. CASE ~ \E q \in Runs : Newest(q, Successes)
  BY <1>1, <1>3 DEF LastAnalyzedCommit
<1> QED
  BY <1>2, <1>3

(* The commit the next review starts from never moves back in the list of   *)
(* commits (ValidateNewCommitsStage, findLatestExecutionByFilters).         *)
THEOREM WatermarkNeverMovesBack == Spec => WatermarkAdvances
<1> DEFINE Advances ==
      Sequential /\ LastAnalyzedCommit # 0 =>
        \/ LastAnalyzedCommit' = LastAnalyzedCommit
        \/ /\ LastAnalyzedCommit' # 0
           /\ ListedAfter(LastAnalyzedCommit', LastAnalyzedCommit)
<1>1. TypeOK /\ StageInv /\ RankInv /\ Alone /\ SeqInv /\ [Next]_vars
        => [Advances]_vars
  <2> SUFFICES ASSUME TypeOK, StageInv, RankInv, Alone, SeqInv, Next, Sequential,
                      LastAnalyzedCommit # 0
               PROVE  \/ LastAnalyzedCommit' = LastAnalyzedCommit
                      \/ /\ LastAnalyzedCommit' # 0
                         /\ ListedAfter(LastAnalyzedCommit', LastAnalyzedCommit)
    BY DEF vars
  <2>1. ASSUME row' = row, created' = created PROVE LastAnalyzedCommit' = LastAnalyzedCommit
    BY <2>1, LastStays DEF Successes
  <2>2. ASSUME NEW r \in Runs, UpdateExecution(r)
        PROVE  \/ LastAnalyzedCommit' = LastAnalyzedCommit
               \/ /\ LastAnalyzedCommit' # 0
                  /\ ListedAfter(LastAnalyzedCommit', LastAnalyzedCommit)
    <3>1. Sequential'
      BY <2>2 DEF UpdateExecution, Sequential
    <3>2. Turn(r) /\ pc[r] = "UpdateExecution"
      BY <2>2, <3>1, StepIsTurn DEF Review, UpdateExecution
    <3>3. MarkOf(r) /\ LatestOf(r) /\ r \in Active /\ MarksOrdered
      BY <3>2 DEF Turn, OrderInv
    <3>4. CASE ~Marking(r)
      <4>1. Successes' = Successes /\ \A q \in Successes : row'[q] = row[q] /\ created'[q] = created[q]
        BY <3>2, <3>4, TurnFacts DEF Successes
      <4> QED
        BY <4>1, LastStays
    <3>5. CASE Marking(r)
      <4>1. /\ Successes' = Successes \cup {r} /\ row'[r].lac = ctx[r].lac /\ date' = date
            /\ created' = created /\ Successes \subseteq Stored
        BY <3>2, <3>5, TurnFacts DEF Successes, Stored
      <4>2. Newest(r, Successes)'
        BY <3>3, <4>1 DEF Newest, LatestOf, TypeOK
      <4>3. LastAnalyzedCommit' = ctx[r].lac
        <5>1. ASSUME NEW n \in Runs, Newest(n, Successes)' PROVE n = r
          <6>1. /\ n \in Stored /\ r \in Stored /\ created[n] <= created[r]
                /\ created[r] <= created[n] /\ created[n] \in Nat /\ created[r] \in Nat
            BY <3>2, <4>1, <4>2, <5>1, TurnFacts DEF Newest, TypeOK
          <6>2. created[n] = created[r]
            BY <6>1
          <6> QED
            BY <6>1, <6>2 DEF RankInv
        <5>2. (CHOOSE n \in Runs : Newest(n, Successes))' = r
          BY <4>2, <5>1
        <5> QED
          BY <4>1, <4>2, <5>2 DEF LastAnalyzedCommit
      <4>4. PICK n \in Runs : Newest(n, Successes)
        BY LastIsNewest DEF RankInv
      <4>5. LastAnalyzedCommit = row[n].lac /\ n \in Successes
        BY <4>4, LastIsNewest DEF Newest
      <4>6. ctx[r].lac \in Pushed /\ Upto(row[n].lac, ctx[r].lac)
        BY <3>3, <3>5, <4>5 DEF MarkOf
      <4>7. ctx[r].lac # 0
        BY <4>6, DatesOrdered
      <4> QED
        BY <4>1, <4>3, <4>5, <4>6, <4>7 DEF Upto, ListedAfter
    <3> QED
      BY <3>4, <3>5
  <2>3. ASSUME NEW r \in Runs, InsertFails(r) \/ Review(r) \/ Crash(r)
        PROVE  \/ LastAnalyzedCommit' = LastAnalyzedCommit
               \/ /\ LastAnalyzedCommit' # 0
                  /\ ListedAfter(LastAnalyzedCommit', LastAnalyzedCommit)
    BY <2>1, <2>2, <2>3, OthersStay
  <2>4. ASSUME NEW r \in Runs, NEW origin \in Requests, CreateExecution(r, origin)
        PROVE  LastAnalyzedCommit' = LastAnalyzedCommit
    <3>1. /\ Successes' = Successes
          /\ \A q \in Successes : row'[q] = row[q] /\ created'[q] = created[q]
      BY <2>4, OpenedLast DEF Successes
    <3> QED
      BY <3>1, LastStays
  <2>5. ASSUME \/ \E d \in 1..MaxDate, isMerge \in BOOLEAN : Push(d, isMerge)
               \/ WindowPasses
        PROVE  row' = row /\ created' = created
    BY <2>5 DEF Push, WindowPasses, rowVars
  <2> QED
    BY <2>1, <2>3, <2>4, <2>5 DEF Next
<1> QED
  BY <1>1, TypeCorrect, StagesHold, RanksHold, StaysAlone, SequenceHolds, PTL
  DEF Spec, WatermarkAdvances

-----------------------------------------------------------------------------
(* The summaries of runs that follow one another: all but the last are       *)
(* minimized, and the one under way comes after all of them.                *)
Announced == {s \in Runs : summary[s] # "none"}

CompletedByMarked ==
  \A q \in Runs : summary[q] = "completed" => q \in Successes \/ Marking(q)

Supersedes(s, q) ==
  \/ summary[s] = "completed" /\ announced[q] <= announced[s]
  \/ summary[s] = "started" /\ s \in Active

OldMinimized ==
  \A q, s \in Runs :
    summary[q] = "completed" /\ q # s /\ Supersedes(s, q)
      => q \in minimized /\ announced[q] < announced[s]

SummariesInv ==
  /\ \A q \in Runs : announced[q] <= Cardinality(Announced)
  /\ CompletedByMarked /\ OldMinimized

SummaryInv == Sequential => SummariesInv

LEMMA TurnKeepsMarked ==
  ASSUME NEW r \in Runs, Turn(r), NEW q \in Runs, q \in Successes \/ Marking(q)
  PROVE  q \in Successes' \/ Marking(q)'
<1>1. CASE q # r
  BY <1>1, TurnFacts
<1>2. CASE q = r /\ pc[r] # "UpdateExecution"
  BY <1>2, TurnFacts DEF Turn, CleanStep, MarkMoves, Marking
<1>3. CASE q = r /\ pc[r] = "UpdateExecution"
  BY <1>3, TurnFacts
<1> QED
  BY <1>1, <1>2, <1>3

LEMMA AnnouncedFinite == IsFiniteSet(Announced) /\ Cardinality(Announced) \in Nat
BY RunsAssumption, FS_Subset, FS_CardinalityType DEF Announced

LEMMA TurnKeepsSummaries ==
  ASSUME NEW r \in Runs, Turn(r), SummariesInv
  PROVE  SummariesInv'
<1>0. /\ announced \in [Runs -> Nat] /\ Successes \subseteq Runs
      /\ summary \in [Runs -> {"none", "started", "completed"}]
  BY DEF Turn, TypeOK, Successes
<1>a. /\ Active' \subseteq Active \cup {r} /\ r \in Active
  BY TurnFacts DEF Turn, Active
<1>1. CASE UNCHANGED <<summary, announced, minimized>>
  <2>1. CompletedByMarked'
    BY <1>1, TurnKeepsMarked DEF SummariesInv, CompletedByMarked
  <2>2. Announced' = Announced
    BY <1>1 DEF Announced
  <2>3. OldMinimized'
    BY <1>1, <1>a DEF SummariesInv, OldMinimized, Supersedes
  <2> QED
    BY <1>1, <2>1, <2>2, <2>3 DEF SummariesInv
<1>2. CASE /\ pc[r] = "InitialComment" /\ pc'[r] = "AnalyzePullRequest"
           /\ ctx'[r] = ctx[r]
           /\ summary' = [summary EXCEPT ![r] = "started"]
           /\ announced' = [announced EXCEPT ![r] =
                        Cardinality({s \in Runs : summary[s] # "none"}) + 1]
           /\ minimized' = IF ctx[r].base = 0 THEN minimized
                           ELSE minimized \cup {s \in Runs : LatestSummary(s)}
  <2>0. summary[r] = "none" /\ BaseOf(r) /\ ~Marking(r)
    BY <1>2 DEF Turn, OrderInv, StageInv, StageOf, NoTrace, Before, Marking, Marked
  <2>1. /\ announced'[r] = Cardinality(Announced) + 1 /\ summary'[r] = "started"
        /\ \A q \in Runs \ {r} : announced'[q] = announced[q] /\ summary'[q] = summary[q]
        /\ minimized \subseteq minimized'
    BY <1>0, <1>2 DEF Announced
  <2>2. Announced' = Announced \cup {r} /\ r \notin Announced
    BY <2>0, <2>1 DEF Announced
  <2>3. Cardinality(Announced') = Cardinality(Announced) + 1 /\ Cardinality(Announced) \in Nat
    BY <2>2, AnnouncedFinite, FS_AddElement
  <2>4. \A q \in Runs : announced'[q] <= Cardinality(Announced')
    <3> SUFFICES ASSUME NEW q \in Runs PROVE announced'[q] <= Cardinality(Announced')
      OBVIOUS
    <3>1. CASE q = r
      BY <2>1, <2>3, <3>1
    <3>2. CASE q # r
      <4>1. announced'[q] = announced[q] /\ announced[q] \in Nat
            /\ announced[q] <= Cardinality(Announced)
        BY <1>0, <2>1, <3>2 DEF SummariesInv
      <4> QED
        BY <2>3, <4>1
    <3> QED
      BY <3>1, <3>2
  <2>5. CompletedByMarked'
    BY <2>1, TurnKeepsMarked DEF SummariesInv, CompletedByMarked
  <2>6. ASSUME NEW q \in Runs, summary[q] = "completed" PROVE q \in minimized'
    <3>1. q # r /\ q \in Successes
      BY <2>0, <2>6, TurnFacts DEF SummariesInv, CompletedByMarked
    <3>2. ctx[r].base # 0
      BY <1>2, <2>0, <3>1 DEF BaseOf, Based, ReviewWindow, Fetched
    <3>3. CASE LatestSummary(q)
      BY <1>2, <3>2, <3>3
    <3>4. CASE ~LatestSummary(q)
      <4>1. PICK s \in Runs : summary[s] = "completed" /\ ~(announced[s] <= announced[q])
        BY <2>6, <3>4 DEF LatestSummary
      <4>2. announced[q] <= announced[s] /\ q # s
        BY <1>0, <4>1
      <4> QED
        BY <2>1, <2>6, <4>1, <4>2 DEF SummariesInv, OldMinimized, Supersedes
    <3> QED
      BY <3>3, <3>4
  <2>7. ASSUME NEW q \in Runs, summary[q] = "completed" PROVE announced'[q] < announced'[r]
    <3>1. /\ announced'[q] = announced[q] /\ announced[q] \in Nat
          /\ announced[q] <= Cardinality(Announced)
      BY <1>0, <2>0, <2>1, <2>7 DEF SummariesInv
    <3> QED
      BY <2>1, <2>3, <3>1
  <2>8. OldMinimized'
    <3> SUFFICES ASSUME NEW q \in Runs, NEW s \in Runs, summary'[q] = "completed", q # s,
                        Supersedes(s, q)'
                 PROVE  q \in minimized' /\ announced'[q] < announced'[s]
      BY DEF OldMinimized
    <3>1. q # r /\ summary[q] = "completed"
      BY <2>1
    <3>2. CASE s = r
      BY <2>6, <2>7, <3>1, <3>2
    <3>3. CASE s # r
      <4>1. Supersedes(s, q)
        BY <1>a, <2>1, <3>1, <3>3 DEF Supersedes
      <4> QED
        BY <2>1, <3>1, <3>3, <4>1 DEF SummariesInv, OldMinimized
    <3> QED
      BY <3>2, <3>3
  <2> QED
    BY <2>4, <2>5, <2>8 DEF SummariesInv
<1>3. CASE /\ pc[r] = "UpdateComments" /\ pc'[r] = "RequestChanges"
           /\ summary[r] = "started" /\ summary' = [summary EXCEPT ![r] = "completed"]
           /\ announced' = announced /\ minimized' = minimized
  <2>1. summary'[r] = "completed" /\ \A q \in Runs \ {r} : summary'[q] = summary[q]
    BY <1>0, <1>3
  <2>2. Announced' = Announced
    BY <1>3, <2>1 DEF Announced
  <2>3. CompletedByMarked'
    <3>1. Marking(r)'
      BY <1>3 DEF Marking, Marked
    <3> QED
      BY <2>1, <3>1, TurnKeepsMarked DEF SummariesInv, CompletedByMarked
  <2>4. \A q \in Runs \ {r} : summary[q] = "completed"
          => q \in minimized /\ announced[q] < announced[r]
    BY <1>3, <1>a DEF SummariesInv, OldMinimized, Supersedes
  <2>5. OldMinimized'
    <3> SUFFICES ASSUME NEW q \in Runs, NEW s \in Runs, summary'[q] = "completed", q # s,
                        Supersedes(s, q)'
                 PROVE  q \in minimized /\ announced[q] < announced[s]
      BY <1>3 DEF OldMinimized
    <3>1. CASE s = r
      BY <2>1, <2>4, <3>1
    <3>2. CASE q = r
      <4>1. s \notin Active'
        BY <3>2, TurnFacts
      <4>2. summary[s] = "completed" /\ announced[r] <= announced[s] /\ s # r
        BY <1>3, <2>1, <3>2, <4>1 DEF Supersedes
      <4>3. announced[s] < announced[r] /\ announced[s] \in Nat /\ announced[r] \in Nat
        BY <1>0, <2>4, <4>2
      <4> QED
        BY <4>2, <4>3
    <3>3. CASE q # r /\ s # r
      <4>1. Supersedes(s, q) /\ summary[q] = "completed"
        BY <1>3, <1>a, <2>1, <3>3 DEF Supersedes
      <4> QED
        BY <3>3, <4>1 DEF SummariesInv, OldMinimized
    <3> QED
      BY <3>1, <3>2, <3>3
  <2> QED
    BY <1>3, <2>2, <2>3, <2>5 DEF SummariesInv
<1> QED
  BY <1>1, <1>2, <1>3 DEF Turn, CleanStep, SummaryMoves

LEMMA SummariesHold == Spec => []SummaryInv
<1>1. Init => SummaryInv
  <2> SUFFICES ASSUME Init PROVE SummariesInv
    BY DEF SummaryInv
  <2>1. \A q \in Runs : announced[q] = 0 /\ summary[q] = "none"
    BY DEF Init
  <2> QED
    BY <2>1, AnnouncedFinite DEF SummariesInv, CompletedByMarked, OldMinimized
<1>2. TypeOK /\ StageInv /\ RankInv /\ Alone /\ SeqInv /\ SummaryInv /\ [Next]_vars
        => SummaryInv'
  <2> SUFFICES ASSUME TypeOK, StageInv, RankInv, Alone, SeqInv, SummaryInv, [Next]_vars,
                      Sequential'
               PROVE  SummariesInv'
    BY DEF SummaryInv
  <2>0. ASSUME faults' = faults PROVE Sequential /\ SummariesInv
    BY <2>0 DEF Sequential, SummaryInv
  <2>1. ASSUME NEW r \in Runs, InsertFails(r) \/ Review(r) \/ Crash(r) PROVE SummariesInv'
    BY <2>1, StepIsTurn, TurnKeepsSummaries DEF SummaryInv
  <2>2. ASSUME NEW r \in Runs, NEW origin \in Requests, CreateExecution(r, origin)
        PROVE  SummariesInv'
    <3>1. Sequential /\ SummariesInv /\ UNCHANGED <<summary, announced, minimized>>
      BY <2>0, <2>2 DEF CreateExecution, NoFault, postVars
    <3>2. Active = {}
      BY <2>2, <3>1, NobodyActive DEF CreateExecution, Sequential
    <3>3. pc[r] = "idle" /\ summary[r] = "none"
      BY <2>2 DEF CreateExecution, StageInv, StageOf, NoTrace, Before
    <3>4. /\ Active' \subseteq {r} /\ Successes' = Successes /\ \A q \in Runs : ~Marking(q)
      BY <2>2, <3>2, OpenedLast DEF Active, CreateExecution, TypeOK, Marking, Marked
    <3>5. Announced' = Announced
      BY <3>1 DEF Announced
    <3> QED
      BY <3>1, <3>3, <3>4, <3>5 DEF SummariesInv, CompletedByMarked, OldMinimized,
         Supersedes
  <2>3. ASSUME \/ \E d \in 1..MaxDate, isMerge \in BOOLEAN : Push(d, isMerge)
               \/ WindowPasses \/ UNCHANGED vars
        PROVE  SummariesInv'
    <3>1. UNCHANGED <<row, pc, ctx, faults, summary, announced, minimized>>
      BY <2>3 DEF Push, WindowPasses, vars, prVars, postVars, rowVars
    <3>2. /\ Successes' = Successes /\ Active' = Active /\ Announced' = Announced
          /\ \A q \in Runs : Marking(q)' = Marking(q)
      BY <3>1 DEF Successes, Active, Announced, Marking
    <3> QED
      BY <2>0, <3>1, <3>2 DEF SummariesInv, CompletedByMarked, OldMinimized, Supersedes
  <2> QED
    BY <2>1, <2>2, <2>3 DEF Next
<1> QED
  BY <1>1, <1>2, TypeCorrect, StagesHold, RanksHold, StaysAlone, SequenceHolds, PTL
     DEF Spec

(* The pull request shows one finished summary at a time                    *)
(* (commentManager.minimizeLastReviewComment).                              *)
THEOREM OneSummaryShows == Spec => []OneVisibleSummary
<1>1. TypeOK /\ SummaryInv => OneVisibleSummary
  <2> SUFFICES ASSUME TypeOK, SummariesInv,
                      NEW r \in {t \in Runs : summary[t] = "completed"} \ minimized,
                      NEW s \in {t \in Runs : summary[t] = "completed"} \ minimized
               PROVE  r = s
    BY DEF OneVisibleSummary, SummaryInv
  <2>1. announced[r] <= announced[s] \/ announced[s] <= announced[r]
    BY DEF TypeOK
  <2> QED
    BY <2>1 DEF SummariesInv, OldMinimized, Supersedes
<1> QED
  BY <1>1, TypeCorrect, SummariesHold, PTL

-----------------------------------------------------------------------------
(* The cadence of runs that follow one another: what a run that was let     *)
(* through may still count on when it succeeds.                             *)
Cleared(r) == PastCadence(r) /\ ctx[r].origin = "automation"

ManualKept ==
  /\ \A p, q \in Unrequested : p = q
  /\ \A r \in Runs : Cleared(r) => Successes = {}

WindowKept ==
  /\ Cardinality(Unrequested \cap recent) <= PushesToTrigger
  /\ \A r \in Runs : Cleared(r) => Cardinality(Unrequested \cap recent) < PushesToTrigger

CadenceKept ==
  /\ Cadence = "manual" => ManualKept
  /\ Cadence = "auto_pause" => WindowKept

CadenceInv == Sequential => CadenceKept

LEMMA WindowFinite ==
  ASSUME NEW S, S \subseteq Runs
  PROVE  IsFiniteSet(S) /\ Cardinality(S) \in Nat
BY RunsAssumption, FS_Subset, FS_CardinalityType

LEMMA SmallerWindow ==
  ASSUME NEW S, NEW T, S \subseteq T, T \subseteq Runs
  PROVE  Cardinality(S) <= Cardinality(T) /\ Cardinality(S) \in Nat /\ Cardinality(T) \in Nat
BY WindowFinite, FS_Subset

LEMMA TurnKeepsCadence ==
  ASSUME NEW r \in Runs, Turn(r), CadenceKept
  PROVE  CadenceKept'
<1>1. /\ recent' = recent /\ \A q \in Runs : ctx'[q].origin = ctx[q].origin
      /\ Successes \subseteq Runs /\ PushesToTrigger \in Nat \ {0}
  BY CadenceAssumption DEF Turn, CleanStep, Apart, Successes
<1>2. \A q \in Runs \ {r} : ~PastCadence(q)'
  <2>1. \A q \in Runs \ {r} : pc'[q] \in {"idle", "done"}
    BY TurnFacts DEF Active
  <2> QED
    BY <2>1 DEF PastCadence, During
<1>3. CASE pc[r] # "UpdateExecution"
  <2>1. Unrequested' = Unrequested /\ Successes' = Successes
    BY <1>1, <1>3, TurnFacts DEF Unrequested
  <2>2. ASSUME NEW q \in Runs, Cleared(q)', ~Cleared(r) PROVE CadenceAllows("automation")
    <3>1. q = r /\ ctx[r].origin = "automation"
      BY <1>1, <1>2, <2>2 DEF Cleared
    <3> QED
      BY <2>2, <3>1 DEF Turn, CleanStep, CadenceMoves, Cleared
  <2>3. ASSUME Cadence = "manual" PROVE ManualKept'
    BY <2>1, <2>2, <2>3 DEF CadenceKept, ManualKept, CadenceAllows
  <2>4. ASSUME Cadence = "auto_pause", NEW q \in Runs, Cleared(q)'
        PROVE  Cardinality(Unrequested \cap recent) < PushesToTrigger
    <3>1. CASE Cleared(r)
      BY <2>4, <3>1 DEF CadenceKept, WindowKept
    <3>2. CASE Successes = {}
      <4>1. Unrequested \cap recent = {}
        BY <3>2 DEF Unrequested
      <4>2. Cardinality({}) = 0
        BY FS_EmptySet
      <4>3. Cardinality(Unrequested \cap recent) = 0
        BY <4>1, <4>2
      <4> QED
        BY <1>1, <4>3
    <3>3. CASE Cardinality(recent \cap Successes) < PushesToTrigger
      <4>1. /\ Unrequested \cap recent \subseteq recent \cap Successes
            /\ recent \cap Successes \subseteq Runs
        BY <1>1 DEF Unrequested
      <4>2. /\ Cardinality(Unrequested \cap recent) <= Cardinality(recent \cap Successes)
            /\ Cardinality(Unrequested \cap recent) \in Nat
            /\ Cardinality(recent \cap Successes) \in Nat
        BY <4>1, SmallerWindow
      <4> QED
        BY <1>1, <3>3, <4>2
    <3> QED
      BY <2>2, <2>4, <3>1, <3>2, <3>3 DEF CadenceAllows
  <2>5. ASSUME Cadence = "auto_pause" PROVE WindowKept'
    BY <1>1, <2>1, <2>4, <2>5 DEF CadenceKept, WindowKept
  <2> QED
    BY <2>3, <2>5 DEF CadenceKept
<1>4. CASE pc[r] = "UpdateExecution"
  <2>1. \A q \in Runs : ~Cleared(q)'
    <3>1. pc'[r] = "RecordEnd"
      BY <1>4, TurnFacts
    <3> QED
      BY <1>2, <3>1 DEF Cleared, PastCadence, During
  <2>2. CASE Unrequested' = Unrequested
    BY <1>1, <2>1, <2>2 DEF CadenceKept, ManualKept, WindowKept
  <2>3. CASE /\ Unrequested' = Unrequested \cup {r} /\ Cleared(r)
    <3>1. ASSUME Cadence = "manual" PROVE ManualKept'
      <4>1. Unrequested = {}
        BY <2>3, <3>1 DEF CadenceKept, ManualKept, Unrequested
      <4> QED
        BY <2>1, <2>3, <4>1 DEF ManualKept
    <3>2. ASSUME Cadence = "auto_pause" PROVE WindowKept'
      <4> DEFINE W == Unrequested \cap recent
      <4>1. W \subseteq Runs
        BY <1>1 DEF Unrequested
      <4>2. IsFiniteSet(W) /\ Cardinality(W) \in Nat
        BY <4>1, WindowFinite
      <4>3. Cardinality(W) < PushesToTrigger
        BY <2>3, <3>2 DEF CadenceKept, WindowKept
      <4>4. (Unrequested \cap recent)' \in {W, W \cup {r}}
        BY <1>1, <2>3
      <4> HIDE DEF W
      <4>5. Cardinality(W \cup {r}) <= Cardinality(W) + 1 /\ Cardinality(W \cup {r}) \in Nat
        BY <4>2, FS_AddElement
      <4>6. ASSUME NEW V \in {W, W \cup {r}} PROVE Cardinality(V) <= PushesToTrigger
        <5>1. PushesToTrigger \in Nat
          BY <1>1
        <5>2. Cardinality(W) <= PushesToTrigger /\ Cardinality(W \cup {r}) <= PushesToTrigger
          BY <5>1, <4>2, <4>3, <4>5
        <5>3. V = W \/ V = W \cup {r}
          OBVIOUS
        <5>4. CASE V = W
          BY <5>2, <5>4
        <5>5. CASE V = W \cup {r}
          BY <5>2, <5>5
        <5> QED
          BY <5>3, <5>4, <5>5
      <4>7. Cardinality((Unrequested \cap recent)') <= PushesToTrigger
        BY <4>4, <4>6
      <4> QED
        BY <2>1, <4>7 DEF WindowKept
    <3> QED
      BY <3>1, <3>2 DEF CadenceKept
  <2>4. CASE Unrequested' # Unrequested
    <3>1. Marking(r) /\ Successes' = Successes \cup {r}
      BY <1>1, <1>4, <2>4, TurnFacts DEF Unrequested
    <3>2. /\ ctx[r].origin = "automation" /\ Unrequested' = Unrequested \cup {r}
      BY <1>1, <2>4, <3>1 DEF Unrequested
    <3>3. Cleared(r)
      BY <1>4, <3>1, <3>2 DEF Cleared, PastCadence, Marking, Marked
    <3> QED
      BY <2>3, <3>2, <3>3
  <2> QED
    BY <2>2, <2>4
<1> QED
  BY <1>3, <1>4

LEMMA CadenceHolds == Spec => []CadenceInv
<1>1. Init => CadenceInv
  <2> SUFFICES ASSUME Init PROVE CadenceKept
    BY DEF CadenceInv
  <2>1. /\ Successes = {} /\ Unrequested = {} /\ Unrequested \cap recent = {}
        /\ \A r \in Runs : ~Cleared(r)
    BY DEF Init, Successes, Unrequested, NoRow, Cleared, PastCadence, During
  <2>2. Cardinality({}) = 0
    BY FS_EmptySet
  <2>3. Cardinality(Unrequested \cap recent) = 0
    BY <2>1, <2>2
  <2> QED
    BY <2>1, <2>3, CadenceAssumption DEF CadenceKept, ManualKept, WindowKept
<1>2. TypeOK /\ StageInv /\ RankInv /\ Alone /\ SeqInv /\ CadenceInv /\ [Next]_vars
        => CadenceInv'
  <2> SUFFICES ASSUME TypeOK, StageInv, RankInv, Alone, SeqInv, CadenceInv, [Next]_vars,
                      Sequential'
               PROVE  CadenceKept'
    BY DEF CadenceInv
  <2>0. ASSUME faults' = faults PROVE Sequential /\ CadenceKept
    BY <2>0 DEF Sequential, CadenceInv
  <2>1. ASSUME NEW r \in Runs, InsertFails(r) \/ Review(r) \/ Crash(r) PROVE CadenceKept'
    BY <2>1, StepIsTurn, TurnKeepsCadence DEF CadenceInv
  <2>2. ASSUME NEW r \in Runs, NEW origin \in Requests, CreateExecution(r, origin)
        PROVE  CadenceKept'
    <3>1. Sequential /\ CadenceKept /\ recent' = recent \cup {r}
      BY <2>0, <2>2 DEF CreateExecution, NoFault
    <3>2. Active = {}
      BY <2>2, <3>1, NobodyActive DEF CreateExecution, Sequential
    <3>3. \A q \in Runs : ~Cleared(q)'
      <4>1. \A q \in Runs : pc'[q] \in {"idle", "done", "RecordStart"}
        BY <2>2, <3>2 DEF CreateExecution, Active, TypeOK
      <4> QED
        BY <4>1 DEF Cleared, PastCadence, During
    <3>4. Successes' = Successes /\ r \notin Successes
      BY <2>2, OpenedLast
    <3>5. Unrequested' = Unrequested
      BY <2>2, <3>4 DEF Unrequested, CreateExecution, TypeOK
    <3>6. (Unrequested \cap recent)' = Unrequested \cap recent
      BY <3>1, <3>4, <3>5 DEF Unrequested
    <3> QED
      BY <3>1, <3>3, <3>4, <3>5, <3>6 DEF CadenceKept, ManualKept, WindowKept
  <2>3. CASE WindowPasses
    <3>1. /\ UNCHANGED <<row, pc, ctx, faults>> /\ recent' \subseteq recent
      BY <2>3 DEF WindowPasses
    <3>2. Cadence = "auto_pause" /\ Sequential /\ CadenceKept
      BY <2>0, <2>3, <3>1 DEF WindowPasses
    <3>3. Unrequested' = Unrequested /\ \A q \in Runs : Cleared(q)' = Cleared(q)
      BY <3>1 DEF Unrequested, Successes, Cleared, PastCadence
    <3>4. /\ (Unrequested \cap recent)' \subseteq Unrequested \cap recent
          /\ Unrequested \cap recent \subseteq Runs
      BY <3>1, <3>3 DEF Unrequested, Successes
    <3>5. /\ Cardinality((Unrequested \cap recent)') <= Cardinality(Unrequested \cap recent)
          /\ Cardinality((Unrequested \cap recent)') \in Nat
          /\ Cardinality(Unrequested \cap recent) \in Nat
      BY <3>4, SmallerWindow
    <3>6. PushesToTrigger \in Nat /\ Cadence # "manual"
      BY <3>2, CadenceAssumption
    <3> QED
      BY <3>2, <3>3, <3>5, <3>6 DEF CadenceKept, WindowKept
  <2>4. ASSUME (\E d \in 1..MaxDate, isMerge \in BOOLEAN : Push(d, isMerge)) \/ UNCHANGED vars
        PROVE  CadenceKept'
    <3>1. UNCHANGED <<row, pc, ctx, faults, recent>>
      BY <2>4 DEF Push, vars, rowVars
    <3>2. /\ Successes' = Successes /\ Unrequested' = Unrequested
          /\ \A q \in Runs : Cleared(q)' = Cleared(q)
      BY <3>1 DEF Unrequested, Successes, Cleared, PastCadence
    <3> QED
      BY <2>0, <3>1, <3>2 DEF CadenceKept, ManualKept, WindowKept
  <2> QED
    BY <2>1, <2>2, <2>3, <2>4 DEF Next
<1> QED
  BY <1>1, <1>2, TypeCorrect, StagesHold, RanksHold, StaysAlone, SequenceHolds, PTL
     DEF Spec

(* In manual mode one review at most is not asked for                       *)
(* (ValidateConfigStage.handleManualMode).                                  *)
THEOREM ManualReviewsOnce == Spec => []OneManualReview
<1>1. CadenceInv => OneManualReview
  <2> SUFFICES ASSUME ManualKept PROVE Cardinality(Unrequested) <= 1
    BY DEF CadenceInv, CadenceKept, OneManualReview
  <2>1. CASE Unrequested = {}
    <3>1. Cardinality({}) = 0
      BY FS_EmptySet
    <3> QED
      BY <2>1, <3>1
  <2>2. CASE Unrequested # {}
    <3>1. PICK p : Unrequested = {p}
      BY <2>2 DEF ManualKept
    <3>2. Cardinality({p}) = 1
      BY FS_Singleton
    <3> QED
      BY <3>1, <3>2
  <2> QED
    BY <2>1, <2>2
<1> QED
  BY <1>1, CadenceHolds, PTL

(* In auto-pause mode the window never holds more reviews that nobody asked  *)
(* for than pushesToTrigger (ValidateConfigStage.handleAutoPauseMode).      *)
THEOREM WindowBounded == Spec => []ReviewsWithinWindow
<1>1. CadenceInv => ReviewsWithinWindow
  BY DEF CadenceInv, CadenceKept, WindowKept, ReviewsWithinWindow
<1> QED
  BY <1>1, CadenceHolds, PTL

-----------------------------------------------------------------------------
(* Approvals while nothing runs beside a run, whatever fails: what a step   *)
(* does to its comments, to its results and to the review that stands.      *)
Unposted == Before \cup ReviewWindow

CommentsAdded(r) ==
  \/ comments' = comments
  \/ /\ pc[r] = "PostComment" /\ pc'[r] = "PostComment"
     /\ \E c \in ctx[r].todo : /\ comments' = comments \cup {<<r, c>>}
                               /\ c \in ctx'[r].results

ResultsKept(r) ==
  pc'[r] \in Marked =>
    \/ pc[r] \in Unposted
    \/ pc[r] \in Marked /\ ctx'[r].lac = ctx[r].lac /\ ctx[r].results \subseteq ctx'[r].results
    \/ pc[r] \in Marked /\ pc'[r] = "UpdateComments" /\ ctx'[r].lac = 0 /\ faults' > 0

StandingReview == review \in {"approved", "changes_requested"}

ApproveReached(r) ==
  pc'[r] = "Approve" => ctx'[r].results = {} /\ ~StandingReview /\ review' = review

ReviewMoves(r) ==
  \/ review' = review /\ blocking' = blocking /\ approvers' = approvers
  \/ pc[r] = "PostComment" /\ review' = "commented" /\ blocking' = blocking /\ approvers' = approvers
  \/ pc[r] = "RequestChanges" /\ review' = "changes_requested" /\ approvers' = approvers
  \/ pc[r] = "Approve" /\ blocking' = FALSE /\ approvers' = approvers \cup {r}

ApprovalStep(r) ==
  /\ \A q \in Runs \ {r} : ctx'[q] = ctx[q] /\ pc'[q] = pc[q]
  /\ faults \in Nat /\ faults' \in Nat /\ faults' >= faults
  /\ pc'[r] \in Unposted => pc[r] \in Unposted
  /\ CommentsAdded(r) /\ ResultsKept(r) /\ ApproveReached(r) /\ ReviewMoves(r)

(* A run that goes on, or stops, without having posted.                     *)
LEMMA UnpostedStep ==
  ASSUME TypeOK, NEW r \in Runs, Fault \/ NoFault,
         \A q \in Runs \ {r} : ctx'[q] = ctx[q] /\ pc'[q] = pc[q],
         UNCHANGED <<comments, revVars>>,
         \/ pc[r] \in Unposted /\ pc'[r] \in Unposted
         \/ pc'[r] \in Over
  PROVE  ApprovalStep(r)
<1>1. faults \in Nat /\ faults' \in Nat /\ faults' >= faults
  BY RunsAssumption DEF TypeOK, Fault, NoFault
<1> QED
  BY <1>1 DEF ApprovalStep, CommentsAdded, ResultsKept, ApproveReached, ReviewMoves,
     Unposted,
     Before, ReviewWindow, Fetched, Analysed, Marked, Over, revVars

LEMMA ApprovalSteps ==
  ASSUME TypeOK, StageInv, NEW r \in Runs, Review(r) \/ InsertFails(r) \/ Crash(r)
  PROVE  ApprovalStep(r)
<1> USE DEF ApprovalStep, CommentsAdded, ResultsKept, ApproveReached, ReviewMoves,
      StandingReview, Unposted, Before, ReviewWindow, Fetched, Analysed, Marked
<1>c. ctx \in [Runs -> Contexts] /\ pc \in [Runs -> Places] /\ ctx[r] \in Contexts
  BY DEF TypeOK
<1>f. (Fault \/ NoFault) /\ faults \in Nat /\ faults' \in Nat /\ faults' >= faults
  BY FaultOrNot, RunsAssumption DEF TypeOK, Fault, NoFault
<1>1. CASE ValidateNewCommits(r)
  <2>1. PICK c : Continue(r, c, "ResolveConfig")
    BY <1>1 DEF ValidateNewCommits, StageFails
  <2>2. /\ \A q \in Runs \ {r} : ctx'[q] = ctx[q] /\ pc'[q] = pc[q]
        /\ pc'[r] \in {"UpdateExecution", "ResolveConfig"} /\ pc[r] = "ValidateNewCommits"
    BY <1>1, <2>1, ContinueEffect DEF ValidateNewCommits
  <2>3. UNCHANGED <<comments, revVars>>
    BY <1>1 DEF ValidateNewCommits, postVars
  <2>4. (pc[r] \in Unposted /\ pc'[r] \in Unposted) \/ pc'[r] \in Over
    BY <2>2 DEF Over
  <2> QED
    BY <1>f, <2>2, <2>3, <2>4, UnpostedStep
<1>2. CASE ResolveConfig(r)
  <2>1. PICK c : Continue(r, c, "ValidateConfig")
    BY <1>2 DEF ResolveConfig
  <2>2. /\ \A q \in Runs \ {r} : ctx'[q] = ctx[q] /\ pc'[q] = pc[q]
        /\ pc'[r] \in {"UpdateExecution", "ValidateConfig"} /\ pc[r] = "ResolveConfig"
    BY <1>2, <2>1, ContinueEffect DEF ResolveConfig
  <2>3. UNCHANGED <<comments, revVars>>
    BY <1>2 DEF ResolveConfig, postVars
  <2>4. (pc[r] \in Unposted /\ pc'[r] \in Unposted) \/ pc'[r] \in Over
    BY <2>2 DEF Over
  <2> QED
    BY <1>f, <2>2, <2>3, <2>4, UnpostedStep
<1>3. CASE ValidateConfig(r)
  <2>1. PICK c : Continue(r, c, "FetchChangedFiles")
    BY <1>3 DEF ValidateConfig
  <2>2. /\ \A q \in Runs \ {r} : ctx'[q] = ctx[q] /\ pc'[q] = pc[q]
        /\ pc'[r] \in {"UpdateExecution", "FetchChangedFiles"} /\ pc[r] = "ValidateConfig"
    BY <1>3, <2>1, ContinueEffect DEF ValidateConfig
  <2>3. UNCHANGED <<comments, revVars>>
    BY <1>3 DEF ValidateConfig, postVars
  <2>4. (pc[r] \in Unposted /\ pc'[r] \in Unposted) \/ pc'[r] \in Over
    BY <2>2 DEF Over
  <2> QED
    BY <1>f, <2>2, <2>3, <2>4, UnpostedStep
<1>4. CASE FetchChangedFiles(r)
  <2>1. PICK c : Continue(r, c, "InitialComment")
    BY <1>4 DEF FetchChangedFiles, StageFails
  <2>2. /\ \A q \in Runs \ {r} : ctx'[q] = ctx[q] /\ pc'[q] = pc[q]
        /\ pc'[r] \in {"UpdateExecution", "InitialComment"} /\ pc[r] = "FetchChangedFiles"
    BY <1>4, <2>1, ContinueEffect DEF FetchChangedFiles
  <2>3. UNCHANGED <<comments, revVars>>
    BY <1>4 DEF FetchChangedFiles, postVars
  <2>4. (pc[r] \in Unposted /\ pc'[r] \in Unposted) \/ pc'[r] \in Over
    BY <2>2 DEF Over
  <2> QED
    BY <1>f, <2>2, <2>3, <2>4, UnpostedStep
<1>5. CASE InitialComment(r)
  <2>1. PICK c : Continue(r, c, "AnalyzePullRequest")
    BY <1>5 DEF InitialComment
  <2>2. /\ \A q \in Runs \ {r} : ctx'[q] = ctx[q] /\ pc'[q] = pc[q]
        /\ pc'[r] \in {"UpdateExecution", "AnalyzePullRequest"} /\ pc[r] = "InitialComment"
    BY <1>5, <2>1, ContinueEffect DEF InitialComment
  <2>3. UNCHANGED <<comments, revVars>>
    BY <1>5 DEF InitialComment, postVars
  <2>4. (pc[r] \in Unposted /\ pc'[r] \in Unposted) \/ pc'[r] \in Over
    BY <2>2 DEF Over
  <2> QED
    BY <1>f, <2>2, <2>3, <2>4, UnpostedStep
<1>6. CASE AnalyzePullRequest(r)
  <2>1. PICK c : Continue(r, c, "AnalyzeFiles")
    BY <1>6 DEF AnalyzePullRequest
  <2>2. /\ \A q \in Runs \ {r} : ctx'[q] = ctx[q] /\ pc'[q] = pc[q]
        /\ pc'[r] \in {"UpdateExecution", "AnalyzeFiles"} /\ pc[r] = "AnalyzePullRequest"
    BY <1>6, <2>1, ContinueEffect DEF AnalyzePullRequest
  <2>3. UNCHANGED <<comments, revVars>>
    BY <1>6 DEF AnalyzePullRequest, postVars
  <2>4. (pc[r] \in Unposted /\ pc'[r] \in Unposted) \/ pc'[r] \in Over
    BY <2>2 DEF Over
  <2> QED
    BY <1>f, <2>2, <2>3, <2>4, UnpostedStep
<1>7. CASE AnalyzeFiles(r)
  <2>1. PICK c : Continue(r, c, "CreatePrLevelComments")
    BY <1>7 DEF AnalyzeFiles
  <2>2. /\ \A q \in Runs \ {r} : ctx'[q] = ctx[q] /\ pc'[q] = pc[q]
        /\ pc'[r] \in {"UpdateExecution", "CreatePrLevelComments"} /\ pc[r] = "AnalyzeFiles"
    BY <1>7, <2>1, ContinueEffect DEF AnalyzeFiles
  <2>3. UNCHANGED <<comments, revVars>>
    BY <1>7 DEF AnalyzeFiles, postVars
  <2>4. (pc[r] \in Unposted /\ pc'[r] \in Unposted) \/ pc'[r] \in Over
    BY <2>2 DEF Over
  <2> QED
    BY <1>f, <2>2, <2>3, <2>4, UnpostedStep
<1>8. CASE CreatePrLevelComments(r)
  <2>1. PICK c : Continue(r, c, "CreateFileComments")
    BY <1>8 DEF CreatePrLevelComments
  <2>2. /\ \A q \in Runs \ {r} : ctx'[q] = ctx[q] /\ pc'[q] = pc[q]
        /\ pc'[r] \in {"UpdateExecution", "CreateFileComments"} /\ pc[r] = "CreatePrLevelComments"
    BY <1>8, <2>1, ContinueEffect DEF CreatePrLevelComments
  <2>3. UNCHANGED <<comments, revVars>>
    BY <1>8 DEF CreatePrLevelComments, postVars
  <2>4. (pc[r] \in Unposted /\ pc'[r] \in Unposted) \/ pc'[r] \in Over
    BY <2>2 DEF Over
  <2> QED
    BY <1>f, <2>2, <2>3, <2>4, UnpostedStep
<1>9. CASE RecordStart(r)
  <2>1. UNCHANGED <<comments, revVars>> /\ pc[r] = "RecordStart"
    BY <1>9 DEF RecordStart, postVars
  <2>2. CASE Return(r)
    <3>1. pc'[r] \in Over
      BY <2>2, ReturnEffect DEF Over
    <3> QED
      BY <1>f, <2>1, <2>2, <3>1, ReturnEffect, UnpostedStep
  <2>3. CASE pc' = [pc EXCEPT ![r] = "ValidateNewCommits"] /\ ctx' = ctx
    <3>1. (\A q \in Runs \ {r} : ctx'[q] = ctx[q] /\ pc'[q] = pc[q]) /\ pc'[r] = "ValidateNewCommits"
      BY <1>c, <2>3
    <3>2. pc[r] \in Unposted /\ pc'[r] \in Unposted
      BY <2>1, <3>1
    <3> QED
      BY <1>f, <2>1, <3>1, <3>2, UnpostedStep
  <2> QED
    BY <1>9, <2>2, <2>3 DEF RecordStart
<1>10. CASE HandlerFails(r)
  <2>1. /\ \A q \in Runs \ {r} : ctx'[q] = ctx[q] /\ pc'[q] = pc[q]
        /\ pc'[r] \in Over
        /\ UNCHANGED <<comments, revVars>>
    BY <1>c, <1>10 DEF HandlerFails, Over, postVars
  <2> QED
    BY <1>f, <2>1, UnpostedStep
<1>11. CASE UpdateExecution(r)
  <2>1. /\ \A q \in Runs \ {r} : ctx'[q] = ctx[q] /\ pc'[q] = pc[q]
        /\ pc'[r] \in Over
        /\ UNCHANGED <<comments, revVars>>
    BY <1>c, <1>11 DEF UpdateExecution, Over, postVars
  <2> QED
    BY <1>f, <2>1, UnpostedStep
<1>12. CASE UpdateFails(r) \/ RecordEnd(r) \/ InsertFails(r) \/ Crash(r)
  <2>1. Return(r) /\ UNCHANGED <<comments, revVars>>
    BY <1>12 DEF UpdateFails, RecordEnd, InsertFails, Crash, postVars
  <2>2. pc'[r] \in Over /\ \A q \in Runs \ {r} : ctx'[q] = ctx[q] /\ pc'[q] = pc[q]
    BY <2>1, ReturnEffect DEF Over
  <2> QED
    BY <1>f, <2>1, <2>2, UnpostedStep
<1>13. CASE CreateFileComments(r)
  <2>1. \E c : \/ Continue(r, c, "PostComment") \/ Continue(r, c, "UpdateComments")
               \/ Continue(r, c, "SaveSuggestions")
    BY <1>13 DEF CreateFileComments
  <2>2. /\ \A q \in Runs \ {r} : ctx'[q] = ctx[q] /\ pc'[q] = pc[q]
        /\ pc'[r] \in {"UpdateExecution", "PostComment", "UpdateComments", "SaveSuggestions"}
    BY <2>1, ContinueEffect
  <2>3. UNCHANGED <<comments, revVars>> /\ pc[r] = "CreateFileComments"
    BY <1>13 DEF CreateFileComments, postVars
  <2> QED
    BY <1>f, <2>1, <2>2, <2>3 DEF revVars
<1>14. CASE PostComment(r)
  <2>1. PICK k \in ctx[r].todo :
          /\ ctx' = [ctx EXCEPT ![r].todo = @ \ {k}, ![r].results = @ \cup {k}]
          /\ \/ comments' = comments \cup {<<r, k>>} /\ review' = "commented"
             \/ UNCHANGED <<comments, review>>
    BY <1>14 DEF PostComment
  <2>2. /\ pc[r] = "PostComment" /\ pc' = pc /\ UNCHANGED <<blocking, approvers>>
    BY <1>14 DEF PostComment
  <2>3. /\ \A q \in Runs \ {r} : ctx'[q] = ctx[q]
        /\ ctx'[r].lac = ctx[r].lac /\ ctx'[r].results = ctx[r].results \cup {k}
    BY <1>c, <2>1 DEF Contexts
  <2> QED
    BY <1>f, <2>1, <2>2, <2>3
<1>15. CASE PostingEnds(r)
  <2>1. /\ pc[r] = "PostComment" /\ pc' = [pc EXCEPT ![r] = "SaveSuggestions"] /\ ctx' = ctx
        /\ UNCHANGED <<comments, revVars>>
    BY <1>15 DEF PostingEnds, postVars
  <2> QED
    BY <1>c, <1>f, <2>1 DEF revVars
<1>16. CASE SaveSuggestions(r)
  <2>1. PICK c : /\ Continue(r, c, "UpdateComments")
                 /\ \/ c.lac = ctx[r].lac /\ c.results = ctx[r].results
                    \/ c.lac = 0 /\ Fault
    <3>1. /\ [ctx[r] EXCEPT !.answered = TRUE].lac = ctx[r].lac
          /\ [ctx[r] EXCEPT !.answered = TRUE].results = ctx[r].results
          /\ [ctx[r] EXCEPT !.answered = TRUE, !.results = {}, !.lac = 0].lac = 0
      BY <1>c DEF Contexts
    <3> QED
      BY <1>16, <3>1 DEF SaveSuggestions
  <2>2. /\ \A q \in Runs \ {r} : ctx'[q] = ctx[q] /\ pc'[q] = pc[q]
        /\ pc'[r] \in {"UpdateExecution", "UpdateComments"} /\ ctx'[r] = c
    BY <2>1, ContinueEffect
  <2>3. UNCHANGED <<comments, revVars>> /\ pc[r] = "SaveSuggestions"
    BY <1>16 DEF SaveSuggestions, postVars
  <2>4. Fault => faults' > 0
    BY <1>f DEF Fault
  <2> QED
    BY <1>f, <2>1, <2>2, <2>3, <2>4 DEF revVars
<1>17. CASE UpdateComments(r)
  <2>1. /\ Continue(r, ctx[r], "RequestChanges") /\ pc[r] = "UpdateComments"
        /\ UNCHANGED <<comments, revVars>>
    BY <1>17 DEF UpdateComments
  <2>2. /\ \A q \in Runs \ {r} : ctx'[q] = ctx[q] /\ pc'[q] = pc[q]
        /\ pc'[r] \in {"UpdateExecution", "RequestChanges"} /\ ctx'[r] = ctx[r]
    BY <2>1, ContinueEffect
  <2> QED
    BY <1>f, <2>1, <2>2 DEF revVars
<1>18. CASE RequestChanges(r)
  <2>1. PICK next \in {"CheckReviewState", "UpdateExecution"} : Continue(r, ctx[r], next)
    BY <1>18 DEF RequestChanges
  <2>2. /\ pc[r] = "RequestChanges" /\ comments' = comments /\ approvers' = approvers
        /\ (review' = review /\ blocking' = blocking) \/ review' = "changes_requested"
    BY <1>18 DEF RequestChanges, postVars
  <2>3. /\ \A q \in Runs \ {r} : ctx'[q] = ctx[q] /\ pc'[q] = pc[q]
        /\ pc'[r] \in {"UpdateExecution", next} /\ ctx'[r] = ctx[r]
    BY <2>1, ContinueEffect
  <2> QED
    BY <1>f, <2>2, <2>3
<1>19. CASE CheckReviewState(r)
  <2>1. PICK next \in {"Approve", "UpdateExecution"} :
          /\ Continue(r, ctx[r], next)
          /\ next = "Approve" => ctx[r].results = {} /\ ~StandingReview
    BY <1>19 DEF CheckReviewState, StageFails, StandingReview
  <2>2. /\ pc[r] = "CheckReviewState" /\ UNCHANGED <<comments, revVars>>
    BY <1>19 DEF CheckReviewState, postVars
  <2>3. /\ \A q \in Runs \ {r} : ctx'[q] = ctx[q] /\ pc'[q] = pc[q]
        /\ pc'[r] \in {"UpdateExecution", next} /\ ctx'[r] = ctx[r]
    BY <2>1, ContinueEffect
  <2> QED
    BY <1>f, <2>1, <2>2, <2>3 DEF revVars
<1>20. CASE Approve(r)
  <2>1. /\ Continue(r, ctx[r], "UpdateExecution") /\ pc[r] = "Approve" /\ comments' = comments
        /\ \/ blocking' = FALSE /\ approvers' = approvers \cup {r}
           \/ UNCHANGED revVars
    BY <1>20 DEF Approve, postVars
  <2>2. /\ \A q \in Runs \ {r} : ctx'[q] = ctx[q] /\ pc'[q] = pc[q]
        /\ pc'[r] = "UpdateExecution"
    BY <2>1, ContinueEffect
  <2> QED
    BY <1>f, <2>1, <2>2 DEF revVars
<1> QED
  BY <1>1, <1>2, <1>3, <1>4, <1>5, <1>6, <1>7, <1>8, <1>9, <1>10, <1>11, <1>12,
     <1>13, <1>14, <1>15, <1>16, <1>17, <1>18, <1>19, <1>20 DEF Review

(* What was commented is among the results, unless saving them failed; the  *)
(* review a run is about to approve over was looked at, and hides no block  *)
(* but behind a comment.                                                    *)
ApprovalOf(r) ==
  /\ pc[r] \in Unposted => \A c \in Commits : <<r, c>> \notin comments
  /\ pc[r] \in Marked => \A c \in Commits : <<r, c>> \in comments =>
       c \in ctx[r].results \/ (ctx[r].lac = 0 /\ faults > 0)
  /\ pc[r] = "Approve" => ctx[r].results = {} /\ ~StandingReview

ApprovalInv ==
  /\ blocking => review \in {"changes_requested", "commented"}
  /\ MaxActive = 1 => \A r \in Runs : ApprovalOf(r)

LEMMA StepKeepsApprovals ==
  ASSUME TypeOK, Alone, ApprovalInv, MaxActive = 1,
         NEW r \in Runs, r \in Active \/ pc'[r] \in Over, ApprovalStep(r), NEW q \in Runs
  PROVE  ApprovalOf(q)'
<1>0. ApprovalOf(q) /\ faults \in Nat /\ faults' \in Nat /\ faults' >= faults
  BY DEF ApprovalInv, ApprovalStep
<1>1. CASE q # r
  <2>1. /\ ctx'[q] = ctx[q] /\ pc'[q] = pc[q]
        /\ \A c \in Commits : <<q, c>> \in comments' => <<q, c>> \in comments
    BY <1>1 DEF ApprovalStep, CommentsAdded
  <2>2. pc[q] \notin Marked \/ (comments' = comments /\ review' = review)
    <3>1. CASE r \in Active
      <4>1. pc[q] \in {"idle", "done"}
        BY <1>1, <3>1 DEF Alone, Active
      <4> QED
        BY <4>1 DEF Marked
    <3>2. CASE r \notin Active
      BY <3>2 DEF ApprovalStep, CommentsAdded, ReviewMoves, Active
    <3> QED
      BY <3>1, <3>2
  <2> QED
    BY <1>0, <2>1, <2>2 DEF ApprovalOf, StandingReview, Marked
<1>2. CASE q = r
  <2>1. ASSUME pc'[r] \in Unposted, NEW c \in Commits PROVE <<r, c>> \notin comments'
    BY <1>0, <1>2, <2>1 DEF ApprovalOf, ApprovalStep, CommentsAdded, Unposted, Before,
       ReviewWindow, Fetched, Analysed
  <2>2. ASSUME pc'[r] \in Marked, NEW c \in Commits, <<r, c>> \in comments'
        PROVE  c \in ctx'[r].results \/ (ctx'[r].lac = 0 /\ faults' > 0)
    <3>1. CASE <<r, c>> \notin comments
      BY <2>2, <3>1 DEF ApprovalStep, CommentsAdded
    <3>2. CASE <<r, c>> \in comments
      <4>1. pc[r] \notin Unposted
        BY <1>0, <1>2, <3>2 DEF ApprovalOf
      <4>2. CASE /\ pc[r] \in Marked /\ ctx'[r].lac = ctx[r].lac
                 /\ ctx[r].results \subseteq ctx'[r].results
        <5>1. c \in ctx[r].results \/ (ctx[r].lac = 0 /\ faults > 0)
          BY <1>0, <1>2, <3>2, <4>2 DEF ApprovalOf
        <5> QED
          BY <1>0, <4>2, <5>1
      <4>3. CASE ctx'[r].lac = 0 /\ faults' > 0
        BY <4>3
      <4> QED
        BY <2>2, <4>1, <4>2, <4>3 DEF ApprovalStep, ResultsKept
    <3> QED
      BY <3>1, <3>2
  <2>3. ASSUME pc'[r] = "Approve" PROVE ctx'[r].results = {} /\ ~StandingReview'
    BY <2>3 DEF ApprovalStep, ApproveReached, StandingReview
  <2> QED
    BY <1>2, <2>1, <2>2, <2>3 DEF ApprovalOf
<1> QED
  BY <1>1, <1>2

LEMMA ApprovalsHold == Spec => []ApprovalInv
<1>1. Init => ApprovalInv
  BY DEF Init, ApprovalInv, ApprovalOf, Marked
<1>2. TypeOK /\ StageInv /\ Alone /\ ApprovalInv /\ [Next]_vars => ApprovalInv'
  <2> SUFFICES ASSUME TypeOK, StageInv, Alone, ApprovalInv, [Next]_vars PROVE ApprovalInv'
    OBVIOUS
  <2>1. ASSUME NEW r \in Runs, InsertFails(r) \/ Review(r) \/ Crash(r) PROVE ApprovalInv'
    <3>1. ApprovalStep(r)
      BY <2>1, ApprovalSteps
    <3>2. r \in Active \/ pc'[r] \in Over
      BY <2>1, OthersStay DEF Over
    <3>3. blocking' => review' \in {"changes_requested", "commented"}
      BY <3>1 DEF ApprovalStep, ReviewMoves, ApprovalInv
    <3> QED
      BY <3>1, <3>2, <3>3, StepKeepsApprovals DEF ApprovalInv
  <2>2. ASSUME NEW r \in Runs, NEW origin \in Requests, CreateExecution(r, origin)
        PROVE  ApprovalInv'
    <3>1. /\ UNCHANGED <<comments, review, blocking, faults>>
          /\ pc[r] = "idle" /\ pc'[r] = "RecordStart"
          /\ \A q \in Runs \ {r} : pc'[q] = pc[q] /\ ctx'[q] = ctx[q]
      BY <2>2 DEF CreateExecution, NoFault, postVars, revVars, TypeOK
    <3>2. ASSUME NEW q \in Runs, ApprovalOf(q) PROVE ApprovalOf(q)'
      BY <3>1, <3>2 DEF ApprovalOf, StandingReview, Unposted, Before, Marked
    <3> QED
      BY <3>1, <3>2 DEF ApprovalInv
  <2>3. ASSUME \/ \E d \in 1..MaxDate, isMerge \in BOOLEAN : Push(d, isMerge)
               \/ WindowPasses \/ UNCHANGED vars
        PROVE  ApprovalInv'
    <3>1. UNCHANGED <<comments, review, blocking, faults, pc, ctx>>
      BY <2>3 DEF Push, WindowPasses, vars, postVars, revVars
    <3> QED
      BY <3>1 DEF ApprovalInv, ApprovalOf, StandingReview
  <2> QED
    BY <2>1, <2>2, <2>3 DEF Next
<1> QED
  BY <1>1, <1>2, TypeCorrect, StagesHold, StaysAlone, PTL DEF Spec

(* While nothing runs beside it, a run approves over comments of its own    *)
(* only when saving them failed, and over a request for changes only when a *)
(* comment hides it (requestChangesIfCritical, approvePullRequest).         *)
THEOREM ApprovalsExplained == Spec => ApprovalExplained
<1> DEFINE Explained ==
      \A r \in approvers' \ approvers :
        MaxActive = 1 =>
          /\ (\E c \in Commits : <<r, c>> \in comments) => ctx[r].lac = 0 /\ faults > 0
          /\ blocking => review = "commented"
<1>1. TypeOK /\ StageInv /\ ApprovalInv /\ [Next]_vars => [Explained]_vars
  <2> SUFFICES ASSUME TypeOK, StageInv, ApprovalInv, Next PROVE Explained
    BY DEF vars
  <2>1. ASSUME NEW r \in Runs, InsertFails(r) \/ Review(r) \/ Crash(r) PROVE Explained
    <3> SUFFICES ASSUME MaxActive = 1, NEW q \in approvers' \ approvers
                 PROVE  /\ (\E c \in Commits : <<q, c>> \in comments) => ctx[q].lac = 0 /\ faults > 0
                        /\ blocking => review = "commented"
      OBVIOUS
    <3>1. q = r /\ pc[r] = "Approve"
      BY <2>1, ApprovalSteps DEF ApprovalStep, ReviewMoves
    <3>2. ApprovalOf(r) /\ (blocking => review \in {"changes_requested", "commented"})
      BY DEF ApprovalInv
    <3> QED
      BY <3>1, <3>2 DEF ApprovalOf, StandingReview, Marked
  <2>2. ASSUME \/ \E r \in Runs, origin \in Requests : CreateExecution(r, origin)
               \/ \E d \in 1..MaxDate, isMerge \in BOOLEAN : Push(d, isMerge)
               \/ WindowPasses
        PROVE  approvers' = approvers
    BY <2>2 DEF CreateExecution, Push, WindowPasses, revVars
  <2> QED
    BY <2>1, <2>2 DEF Next
<1> QED
  BY <1>1, TypeCorrect, StagesHold, ApprovalsHold, PTL DEF Spec, ApprovalExplained
=============================================================================
