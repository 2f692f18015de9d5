----------------------------- MODULE ReviewRuns -----------------------------
(***************************************************************************)
(* Automated code review of one pull request.                              *)
(*                                                                         *)
(* Every webhook delivery or "@kody start-review" comment starts a run     *)
(* (AutomationCodeReviewService.run).  A run inserts a row in the          *)
(* executions table, takes its context through the stages of the review    *)
(* pipeline and closes its row.  Runs share the pull request (GitHub) and  *)
(* the table, and nothing serialises them: each stage is an action, so     *)
(* pushes, other runs, failures and crashes fall between any two stages.   *)
(*                                                                         *)
(* A commit is known by its push number 1, 2, ...; what it changes, the    *)
(* files of its diff and the suggestions made on them are all identified   *)
(* with it.  0 stands for a missing commit (null).                         *)
(***************************************************************************)
EXTENDS ReviewCadence, FiniteSets

CONSTANTS
  Runs,                  \* identities of the review runs
  MaxCommits,            \* bound on the commits pushed to the pull request
  MaxDate,               \* bound on the author dates of commits
  MaxFaults,             \* bound on the failures injected in one behaviour
  MaxActive,             \* bound on the runs in progress at the same time
  Requests,              \* who asks for reviews: a subset of Origins
  PrLevelRules,          \* there are Kody rules of pull-request scope
  ApprovalActive,        \* codeReviewConfig.pullRequestApprovalActive
  RequestChangesActive   \* codeReviewConfig.isRequestChangesActive

ASSUME RunsAssumption ==
  /\ IsFiniteSet(Runs)
  /\ MaxCommits \in Nat \ {0}
  /\ MaxDate \in Nat \ {0}
  /\ MaxFaults \in Nat
  /\ MaxActive \in Nat
  /\ Requests \subseteq Origins
  /\ PrLevelRules \in BOOLEAN
  /\ ApprovalActive \in BOOLEAN
  /\ RequestChangesActive \in BOOLEAN

VARIABLES
  \* The pull request, as the code-hosting platform keeps it.
  head,          \* commits pushed so far
  date,          \* author date of each commit, which need not follow pushes
  merges,        \* commits that are merges or came in through one
  comments,      \* <<run, commit>>: line comments posted on the pull request
  prComments,    \* runs that posted pull-request-level comments
  summary,       \* the run's summary comment: "none", "started", "completed"
  announced,     \* when that comment was created, likewise (0: never)
  minimized,     \* runs whose summary comment has been minimized
  review,        \* state of the bot's latest review on the pull request
  blocking,      \* the bot asked for changes and has not approved since
  \* The executions table and the timeline kept beside it.
  row,           \* the run's execution row
  created,       \* its createdAt, as its rank among the rows (0: no row)
  recent,        \* runs whose row was created within the cadence window
  entry,         \* status of the last timeline entry of the row
  \* The runs.
  pc,            \* next stage of each run
  ctx,           \* CodeReviewPipelineContext of each run
  \* History, read by no action's guard except the fault bound.
  faults,        \* failures injected so far
  broken,        \* runs that crashed or whose own row could not be written
  seen,          \* commits whose changes were analysed
  lost,          \* commits whose fetch or analysis failed
  raced,         \* commits pushed while a run was between fetch and comments
  backdated,     \* commits not authored after everything pushed before them
  paused,        \* the auto-pause notice was posted and no command came since
  approvers      \* runs that approved the pull request

prVars   == <<head, date, merges>>
postVars == <<comments, prComments, summary, announced, minimized>>
revVars  == <<review, blocking, approvers>>
rowVars  == <<row, created, recent, entry>>
gapVars  == <<seen, lost, raced, backdated>>
vars == <<prVars, postVars, revVars, rowVars, pc, ctx, faults, broken,
          gapVars, paused>>

Commits  == 1..MaxCommits
Pushed   == 1..head
Statuses == {"none", "in_progress", "success", "error", "skipped"}
Terminal == {"success", "error", "skipped"}
Reasons  == {"none", "no_new_commits", "only_merges", "config", "cadence", "no_files"}
Reviews  == {"none", "commented", "changes_requested", "approved"}
Stages   == {"ValidateNewCommits", "ResolveConfig", "ValidateConfig",
             "FetchChangedFiles", "InitialComment", "AnalyzePullRequest",
             "AnalyzeFiles", "CreatePrLevelComments", "CreateFileComments",
             "PostComment", "SaveSuggestions", "UpdateComments",
             "RequestChanges", "CheckReviewState", "Approve",
             "UpdateExecution", "RecordEnd"}
Places   == {"idle", "RecordStart", "done"} \cup Stages

Active == {r \in Runs : pc[r] \notin {"idle", "done"}}

(* From the fetch of the changed files to the reading of the last commit:   *)
(* before and after the analysis of the files.                              *)
Fetched      == {"InitialComment", "AnalyzePullRequest", "AnalyzeFiles"}
Analysed     == {"CreatePrLevelComments", "CreateFileComments"}
ReviewWindow == Fetched \cup Analysed

Rows     == [status : Statuses, lac : Commits \cup {0}, cadence : CadenceStates]
Contexts == [origin : Origins, status : {"in_progress", "skipped"},
             reason : Reasons, base : Commits \cup {0}, files : SUBSET Commits,
             prLevel : BOOLEAN, sugg : SUBSET Commits, todo : SUBSET Commits,
             answered : BOOLEAN, results : SUBSET Commits,
             lac : Commits \cup {0}, cadence : CadenceStates, crashed : BOOLEAN]

(* The context a run starts with.  base: lastExecution.lastAnalyzedCommit;  *)
(* files: changedFiles ({}: not set); sugg: validSuggestions; todo: comments *)
(* still to post; answered, results: lineComments and whether it is set;    *)
(* lac: lastAnalyzedCommit; crashed: the handler returned no result.        *)
InitialContext(origin) ==
  [origin |-> origin, status |-> "in_progress", reason |-> "none", base |-> 0,
   files |-> {}, prLevel |-> FALSE, sugg |-> {}, todo |-> {},
   answered |-> FALSE, results |-> {}, lac |-> 0, cadence |-> "none",
   crashed |-> FALSE]

NoRow == [status |-> "none", lac |-> 0, cadence |-> "none"]

Init ==
  /\ head = 1
  /\ date \in [Commits -> 1..MaxDate]
  /\ \A c \in Commits \ {1} : date[c] = 1
  /\ merges = {}
  /\ comments = {} /\ prComments = {} /\ minimized = {}
  /\ summary = [r \in Runs |-> "none"]
  /\ announced = [r \in Runs |-> 0]
  /\ review = "none" /\ blocking = FALSE /\ approvers = {}
  /\ row = [r \in Runs |-> NoRow]
  /\ created = [r \in Runs |-> 0]
  /\ recent = {}
  /\ entry = [r \in Runs |-> "none"]
  /\ pc = [r \in Runs |-> "idle"]
  /\ ctx = [r \in Runs |-> InitialContext("automation")]
  /\ faults = 0 /\ broken = {}
  /\ seen = {} /\ lost = {} /\ raced = {} /\ backdated = {}
  /\ paused = FALSE

-----------------------------------------------------------------------------
(* The commit list.  The platform service sorts it by author date, keeping  *)
(* push order between equal dates; the diff since a commit takes the        *)
(* commits with a later author date.                                       *)
ListedAfter(c, d) == date[c] > date[d] \/ (date[c] = date[d] /\ c > d)

IsLastCommit(c) == \A d \in Pushed : d = c \/ ListedAfter(c, d)

\* Mutant of NewCommitsSince: the first commit after the last one is missed.
NewCommitsSinceLate(last) ==
  IF last = 0 THEN Pushed ELSE {c \in Pushed : date[c] > date[last] + 1}

NewCommitsSince(last) ==
  IF last = 0 THEN Pushed ELSE {c \in Pushed : ListedAfter(c, last)}

\* Mutants of ChangedSince: a commit one unit later is missed; the commit
\* analysed last is taken again.
ChangedSinceLate(last) ==
  IF last = 0 THEN Pushed ELSE {c \in Pushed : date[c] > date[last] + 1}
ChangedSinceInclusive(last) ==
  IF last = 0 THEN Pushed ELSE {c \in Pushed : date[c] >= date[last]}

ChangedSince(last) ==
  IF last = 0 THEN Pushed ELSE {c \in Pushed : date[c] > date[last]}

(* The executions table.  Queries order by createdAt, latest first.         *)
Newest(r, S) == r \in S /\ \A s \in S : created[s] <= created[r]
Stored       == {r \in Runs : row[r].status # "none"}
\* Mutant of Successes: the query forgets its status filter.
Finished     == {r \in Runs : row[r].status \in Terminal}
Successes    == {r \in Runs : row[r].status = "success"}

LastAnalyzedCommit ==
  IF \E r \in Runs : Newest(r, Successes)
  THEN row[CHOOSE r \in Runs : Newest(r, Successes)].lac
  ELSE 0

(* getCurrentPRStatus asks for the latest row of any status.                *)
CurrentPRStatus ==
  LET latest == row[CHOOSE r \in Runs : Newest(r, Stored)].cadence
  IN  IF latest = "none" THEN "automatic" ELSE latest

-----------------------------------------------------------------------------
(* What every stage shares.  PipelineExecutor runs the stages in order,     *)
(* stops at a context whose status is SKIPPED, and swallows what a stage    *)
(* throws, going on with the context the stage was given.                   *)
\* Mutants of Continue: SKIPPED does not stop the pipeline; it stops the run.
ContinueSkipped(r, c, next) ==
  /\ ctx' = [ctx EXCEPT ![r] = c]
  /\ pc'  = [pc EXCEPT ![r] = next]
ContinueOrQuit(r, c, next) ==
  /\ ctx' = [ctx EXCEPT ![r] = c]
  /\ pc'  = [pc EXCEPT ![r] = IF c.status = "skipped" THEN "done" ELSE next]

Continue(r, c, next) ==
  /\ ctx' = [ctx EXCEPT ![r] = c]
  /\ pc'  = [pc EXCEPT ![r] = IF c.status = "skipped" THEN "UpdateExecution" ELSE next]

Skip(c, why) == [c EXCEPT !.status = "skipped", !.reason = why]

NoFault == UNCHANGED faults
Fault   == faults < MaxFaults /\ faults' = faults + 1

StageFails(r, next) == Fault /\ Continue(r, ctx[r], next)

(* A run that returns drops its context; the properties still ask for its   *)
(* origin and for whether it was skipped.                                   *)
Return(r) ==
  /\ pc' = [pc EXCEPT ![r] = "done"]
  /\ ctx' = [ctx EXCEPT ![r] = [InitialContext(@.origin) EXCEPT !.status = ctx[r].status]]

-----------------------------------------------------------------------------
(* The pull request's author pushes a commit: any author date (a rebased or *)
(* cherry-picked commit keeps an old one), an ordinary one or a merge.      *)
Push(d, isMerge) ==
  /\ head < MaxCommits
  /\ head' = head + 1
  /\ date' = [date EXCEPT ![head + 1] = d]
  /\ merges' = IF isMerge THEN merges \cup {head + 1} ELSE merges
  /\ raced' = IF \E r \in Runs : pc[r] \in ReviewWindow
              THEN raced \cup {head + 1} ELSE raced
  /\ backdated' = IF \E c \in Pushed : date[c] >= d
                  THEN backdated \cup {head + 1} ELSE backdated
  /\ UNCHANGED <<postVars, revVars, rowVars, pc, ctx, faults, broken, seen, lost, paused>>

(* The oldest row of the cadence window falls out of it; no other mode than *)
(* auto-pause reads the window.                                            *)
WindowPasses ==
  /\ Cadence = "auto_pause"
  /\ \E r \in recent :
       /\ \A s \in recent : created[r] <= created[s]
       /\ recent' = recent \ {r}
  /\ UNCHANGED <<prVars, postVars, revVars, row, created, entry, pc, ctx,
                 faults, broken, gapVars, paused>>

-----------------------------------------------------------------------------
(* AutomationCodeReviewService.run: insert the row, then its timeline entry. *)
(* Without the entry createCodeReview returns null and the run gives up.    *)
CreateExecution(r, origin) ==
  /\ pc[r] = "idle"
  /\ Cardinality(Active) < MaxActive
  /\ pc' = [pc EXCEPT ![r] = "RecordStart"]
  /\ ctx' = [ctx EXCEPT ![r] = InitialContext(origin)]
  /\ row' = [row EXCEPT ![r] = [NoRow EXCEPT !.status = "in_progress"]]
  /\ created' = [created EXCEPT ![r] = Cardinality(Stored) + 1]
  /\ recent' = recent \cup {r}
  /\ NoFault
  /\ UNCHANGED <<prVars, postVars, revVars, entry, broken, gapVars, paused>>

InsertFails(r) ==
  /\ pc[r] = "idle"
  /\ Fault
  /\ Return(r)
  /\ UNCHANGED <<prVars, postVars, revVars, rowVars, broken, gapVars, paused>>

RecordStart(r) ==
  /\ pc[r] = "RecordStart"
  /\ \/ /\ entry' = [entry EXCEPT ![r] = "in_progress"]
        /\ pc' = [pc EXCEPT ![r] = "ValidateNewCommits"]
        /\ NoFault
        /\ UNCHANGED <<ctx, broken>>
     \/ /\ Return(r)
        /\ broken' = broken \cup {r}
        /\ Fault
        /\ UNCHANGED entry
  /\ UNCHANGED <<prVars, postVars, revVars, row, created, recent, gapVars,
                 paused>>

(* codeReviewHandlerService.handlePullRequest throws outside the stages and *)
(* returns null.                                                           *)
HandlerFails(r) ==
  /\ pc[r] = "ValidateNewCommits"
  /\ Fault
  /\ ctx' = [ctx EXCEPT ![r].crashed = TRUE]
  /\ pc' = [pc EXCEPT ![r] = "UpdateExecution"]
  /\ UNCHANGED <<prVars, postVars, revVars, rowVars, broken, gapVars, paused>>

(* A failed query is swallowed by the repository and looks like no          *)
(* execution; a failed commit list makes the stage throw.                   *)
ValidateNewCommits(r) ==
  /\ pc[r] = "ValidateNewCommits"
  /\ \/ \E last \in {LastAnalyzedCommit, 0} :
          LET fresh == NewCommitsSince(last)
              c     == [ctx[r] EXCEPT !.base = last]
          IN  /\ IF last = LastAnalyzedCommit THEN NoFault ELSE Fault
              /\ Continue(r, CASE fresh = {} -> Skip(c, "no_new_commits")
                               [] fresh # {} /\ fresh \subseteq merges -> Skip(c, "only_merges")
                               [] OTHER -> c,
                          "ResolveConfig")
     \/ StageFails(r, "ResolveConfig")
  /\ UNCHANGED <<prVars, postVars, revVars, rowVars, broken, gapVars, paused>>

(* One failed lookup falls back to the repository's configuration, which    *)
(* the model does not tell apart; a second failure skips the run.  With     *)
(* per-directory configurations the stage lists the changed files too.      *)
ResolveConfig(r) ==
  /\ pc[r] = "ResolveConfig"
  /\ \/ Continue(r, ctx[r], "ValidateConfig") /\ NoFault
     \/ Continue(r, Skip(ctx[r], "config"), "ValidateConfig") /\ Fault
     \/ /\ ChangedSince(ctx[r].base) = {}
        /\ Continue(r, Skip(ctx[r], "no_files"), "ValidateConfig")
        /\ NoFault
  /\ UNCHANGED <<prVars, postVars, revVars, rowVars, broken, gapVars, paused>>

(* "basic": the title, branch and draft rules, waived for commands.  When   *)
(* the queries fail there seems to be no earlier execution; any other error *)
(* skips the run.                                                           *)
ValidateConfig(r) ==
  /\ pc[r] = "ValidateConfig"
  /\ \/ \E basic \in {TRUE, ctx[r].origin = "command"}, readable \in BOOLEAN :
          LET d == EvaluateReviewCadence(
                     ctx[r].origin, basic,
                     readable /\ Successes # {},
                     IF readable THEN CurrentPRStatus ELSE "automatic",
                     IF readable THEN Cardinality(recent \cap Successes) ELSE 0)
              c == [ctx[r] EXCEPT !.cadence = d.next]
          IN  /\ IF readable THEN NoFault ELSE Fault
              /\ Continue(r, IF d.process THEN c ELSE Skip(c, "cadence"), "FetchChangedFiles")
              /\ paused' = (d.notice \/ (paused /\ ctx[r].origin # "command"))
     \/ /\ Continue(r, Skip(ctx[r], "config"), "FetchChangedFiles")
        /\ Fault
        /\ UNCHANGED paused
  /\ UNCHANGED <<prVars, postVars, revVars, rowVars, broken, gapVars>>

(* Ignored paths or too many files skip the run; an error leaves            *)
(* changedFiles unset and the pipeline goes on.                             *)
FetchChangedFiles(r) ==
  /\ pc[r] = "FetchChangedFiles"
  /\ LET files == ChangedSince(ctx[r].base)
     IN  \/ /\ files # {}
            /\ Continue(r, [ctx[r] EXCEPT !.files = files], "InitialComment")
            /\ NoFault
            /\ UNCHANGED lost
         \/ /\ Continue(r, Skip(ctx[r], "no_files"), "InitialComment")
            /\ NoFault
            /\ UNCHANGED lost
         \/ /\ StageFails(r, "InitialComment")
            /\ lost' = lost \cup files
  /\ UNCHANGED <<prVars, postVars, revVars, rowVars, broken, seen, raced, backdated, paused>>

(* A review after the first minimizes the latest completed summary (on      *)
(* GitHub); then the stage announces the review, with the default message.  *)
(* An outage may take either call, or both.                                 *)
\* Mutant of LatestSummary: the marker of a started review is looked for.
StartedSummary(r) ==
  /\ summary[r] = "started"
  /\ \A s \in Runs : summary[s] = "started" => announced[s] <= announced[r]

LatestSummary(r) ==
  /\ summary[r] = "completed"
  /\ \A s \in Runs : summary[s] = "completed" => announced[s] <= announced[r]

InitialComment(r) ==
  /\ pc[r] = "InitialComment"
  /\ Continue(r, ctx[r], "AnalyzePullRequest")
  /\ \E failing \in SUBSET {"minimize", "announce"} :
       /\ IF failing = {} THEN NoFault ELSE Fault
       /\ minimized' = IF ctx[r].base = 0 \/ "minimize" \in failing
                       THEN minimized
                       ELSE minimized \cup {s \in Runs : LatestSummary(s)}
       /\ IF "announce" \in failing
          THEN UNCHANGED <<summary, announced>>
          ELSE /\ summary' = [summary EXCEPT ![r] = "started"]
               /\ announced' = [announced EXCEPT ![r] =
                                  Cardinality({s \in Runs : summary[s] # "none"}) + 1]
  /\ UNCHANGED <<prVars, comments, prComments, revVars, row, created, recent,
                 entry, broken, gapVars, paused>>

-----------------------------------------------------------------------------
(* Analysis, by language models.  Files whose analysis fails are dropped    *)
(* and the stage succeeds with the suggestions of the others.               *)
AnalyzePullRequest(r) ==
  /\ pc[r] = "AnalyzePullRequest"
  /\ \E found \in {FALSE, PrLevelRules /\ ctx[r].files # {}} :
       Continue(r, [ctx[r] EXCEPT !.prLevel = found], "AnalyzeFiles")
  /\ UNCHANGED <<prVars, postVars, revVars, rowVars, faults, broken, gapVars, paused>>

AnalyzeFiles(r) ==
  /\ pc[r] = "AnalyzeFiles"
  /\ \E failed \in SUBSET ctx[r].files :
       \E sugg \in SUBSET (ctx[r].files \ failed) :
         /\ IF failed = {} THEN NoFault ELSE Fault
         /\ Continue(r, [ctx[r] EXCEPT !.sugg = sugg], "CreatePrLevelComments")
         /\ seen' = seen \cup (ctx[r].files \ failed)
         /\ lost' = lost \cup failed
  /\ UNCHANGED <<prVars, postVars, revVars, rowVars, broken, raced, backdated, paused>>

(* Posted as plain comments of the pull request; a failure is recorded.     *)
CreatePrLevelComments(r) ==
  /\ pc[r] = "CreatePrLevelComments"
  /\ Continue(r, ctx[r], "CreateFileComments")
  /\ \/ /\ prComments' = IF ctx[r].prLevel THEN prComments \cup {r} ELSE prComments
        /\ NoFault
     \/ /\ ctx[r].prLevel
        /\ UNCHANGED prComments
        /\ Fault
  /\ UNCHANGED <<prVars, comments, summary, announced, minimized, revVars,
                 rowVars, broken, gapVars, paused>>

(* CreateFileCommentsStage up to the reading of the commit list, whose last *)
(* commit becomes lastAnalyzedCommit.  Without suggestions nothing is       *)
(* caught: a failed listing leaves lineComments unset.  With suggestions,   *)
(* prioritising them drops some; a failed listing falls back to the commit  *)
(* recorded last; any other failure clears both fields.                     *)
CreateFileComments(r) ==
  /\ pc[r] = "CreateFileComments"
  /\ \/ \E last \in Pushed, todo \in SUBSET ctx[r].sugg :
          /\ IsLastCommit(last)
          /\ IF ctx[r].sugg = {}
             THEN Continue(r, [ctx[r] EXCEPT !.lac = last, !.answered = TRUE], "UpdateComments")
             ELSE Continue(r, [ctx[r] EXCEPT !.lac = last, !.todo = todo], "PostComment")
          /\ NoFault
     \/ /\ IF ctx[r].sugg = {}
           THEN Continue(r, ctx[r], "UpdateComments")
           ELSE \/ Continue(r, [ctx[r] EXCEPT !.lac = LastAnalyzedCommit], "SaveSuggestions")
                \/ Continue(r, [ctx[r] EXCEPT !.answered = TRUE], "UpdateComments")
        /\ Fault
  /\ UNCHANGED <<prVars, postVars, revVars, rowVars, broken, gapVars, paused>>

(* One line comment.  One that cannot be posted is kept among the results.  *)
(* A line comment is a review of state COMMENTED on the platform.           *)
PostComment(r) ==
  /\ pc[r] = "PostComment"
  /\ \E c \in ctx[r].todo :
       /\ ctx' = [ctx EXCEPT ![r].todo = @ \ {c}, ![r].results = @ \cup {c}]
       /\ \/ /\ comments' = comments \cup {<<r, c>>}
             /\ review' = "commented"
             /\ NoFault
          \/ UNCHANGED <<comments, review>> /\ Fault
  /\ UNCHANGED <<prVars, prComments, summary, announced, minimized, blocking,
                 approvers, rowVars, pc, broken, gapVars, paused>>

PostingEnds(r) ==
  /\ pc[r] = "PostComment"
  /\ ctx[r].todo = {}
  /\ pc' = [pc EXCEPT ![r] = "SaveSuggestions"]
  /\ UNCHANGED <<prVars, postVars, revVars, rowVars, ctx, faults, broken, gapVars, paused>>

(* What was posted is saved; if that fails the stage forgets its results.   *)
SaveSuggestions(r) ==
  /\ pc[r] = "SaveSuggestions"
  /\ \/ /\ Continue(r, [ctx[r] EXCEPT !.answered = TRUE], "UpdateComments")
        /\ NoFault
     \/ /\ Continue(r, [ctx[r] EXCEPT !.answered = TRUE, !.results = {}, !.lac = 0],
                    "UpdateComments")
        /\ Fault
  /\ UNCHANGED <<prVars, postVars, revVars, rowVars, broken, gapVars, paused>>

-----------------------------------------------------------------------------
(* UpdateCommentsAndGenerateSummary: the announcement becomes the summary.  *)
UpdateComments(r) ==
  /\ pc[r] = "UpdateComments"
  /\ Continue(r, ctx[r], "RequestChanges")
  /\ \/ /\ summary' = [summary EXCEPT ![r] = IF @ = "started" THEN "completed" ELSE @]
        /\ NoFault
     \/ UNCHANGED summary /\ Fault
  /\ UNCHANGED <<prVars, comments, prComments, announced, minimized, revVars,
                 rowVars, broken, gapVars, paused>>

(* RequestChangesOrApprove, first half: changes are requested when one of   *)
(* the comments is critical.  A run with no lineComments does nothing.      *)
RequestChanges(r) ==
  /\ pc[r] = "RequestChanges"
  /\ Continue(r, ctx[r], IF ctx[r].answered THEN "CheckReviewState" ELSE "UpdateExecution")
  /\ \/ /\ UNCHANGED <<review, blocking>>
        /\ NoFault
     \/ /\ ctx[r].answered /\ RequestChangesActive /\ ctx[r].results # {}
        /\ review' = "changes_requested"
        /\ blocking' = TRUE
        /\ NoFault
  /\ UNCHANGED <<prVars, postVars, approvers, rowVars, broken, gapVars, paused>>

\* Mutant of CheckReviewState: the state of the latest review is not asked for.
CheckNothing(r) ==
  /\ pc[r] = "CheckReviewState"
  /\ Continue(r, ctx[r], IF ApprovalActive /\ ctx[r].results = {}
                         THEN "Approve" ELSE "UpdateExecution")
  /\ UNCHANGED <<prVars, postVars, revVars, rowVars, faults, broken, gapVars, paused>>

(* Second half: with no line comments and no standing review, approve.      *)
CheckReviewState(r) ==
  /\ pc[r] = "CheckReviewState"
  /\ \/ /\ Continue(r, ctx[r],
                    IF /\ ApprovalActive /\ ctx[r].results = {}
                       /\ review \notin {"approved", "changes_requested"}
                    THEN "Approve" ELSE "UpdateExecution")
        /\ NoFault
     \/ StageFails(r, "UpdateExecution")
  /\ UNCHANGED <<prVars, postVars, revVars, rowVars, broken, gapVars, paused>>

Approve(r) ==
  /\ pc[r] = "Approve"
  /\ Continue(r, ctx[r], "UpdateExecution")
  /\ \/ /\ review' = "approved"
        /\ blocking' = FALSE
        /\ approvers' = approvers \cup {r}
        /\ NoFault
     \/ UNCHANGED revVars /\ Fault
  /\ UNCHANGED <<prVars, postVars, rowVars, broken, gapVars, paused>>

-----------------------------------------------------------------------------
(* The end of a run.  A pipeline that was not skipped has succeeded,        *)
(* whatever its stages threw; a handler without a result is an error.  The  *)
(* watermark is saved when the context has one, the cadence state with it.  *)
FinalStatus(c) ==
  CASE c.crashed                            -> "error"
    [] ~c.crashed /\ c.status = "skipped"   -> "skipped"
    [] OTHER                                -> "success"

\* Mutant of ExecutionData: a run without a watermark repeats the last one.
ExecutionDataKept(c) ==
  [status |-> FinalStatus(c), cadence |-> c.cadence,
   lac |-> IF c.lac = 0 THEN c.base ELSE c.lac]

ExecutionData(c) ==
  IF c.crashed \/ c.lac = 0
  THEN [status |-> FinalStatus(c), lac |-> 0, cadence |-> "none"]
  ELSE [status |-> FinalStatus(c), lac |-> c.lac, cadence |-> c.cadence]

UpdateExecution(r) ==
  /\ pc[r] = "UpdateExecution"
  /\ row' = [row EXCEPT ![r] = ExecutionData(ctx[r])]
  /\ pc' = [pc EXCEPT ![r] = "RecordEnd"]
  /\ UNCHANGED <<prVars, postVars, revVars, created, recent, entry, ctx,
                 faults, broken, gapVars, paused>>

\* Mutant of UpdateFails: the timeline entry is written all the same.
UpdateFailsQuietly(r) ==
  /\ pc[r] = "UpdateExecution"
  /\ Fault
  /\ pc' = [pc EXCEPT ![r] = "RecordEnd"]
  /\ broken' = broken \cup {r}
  /\ UNCHANGED <<prVars, postVars, revVars, rowVars, ctx, gapVars, paused>>

(* A row that cannot be written keeps its status; no timeline entry either. *)
UpdateFails(r) ==
  /\ pc[r] = "UpdateExecution"
  /\ Fault
  /\ Return(r)
  /\ broken' = broken \cup {r}
  /\ UNCHANGED <<prVars, postVars, revVars, rowVars, gapVars, paused>>

RecordEnd(r) ==
  /\ pc[r] = "RecordEnd"
  /\ Return(r)
  /\ \/ /\ entry' = [entry EXCEPT ![r] = FinalStatus(ctx[r])]
        /\ NoFault
     \/ UNCHANGED entry /\ Fault
  /\ UNCHANGED <<prVars, postVars, revVars, row, created, recent, broken, gapVars, paused>>

(* The process stops; nothing takes its runs up again.                      *)
Crash(r) ==
  /\ r \in Active
  /\ Fault
  /\ Return(r)
  /\ broken' = broken \cup {r}
  /\ UNCHANGED <<prVars, postVars, revVars, rowVars, gapVars, paused>>

-----------------------------------------------------------------------------
(* What a run that has started does next.                                   *)
Review(r) ==
  \/ RecordStart(r) \/ HandlerFails(r) \/ ValidateNewCommits(r)
  \/ ResolveConfig(r) \/ ValidateConfig(r) \/ FetchChangedFiles(r)
  \/ InitialComment(r) \/ AnalyzePullRequest(r) \/ AnalyzeFiles(r)
  \/ CreatePrLevelComments(r) \/ CreateFileComments(r) \/ PostComment(r)
  \/ PostingEnds(r) \/ SaveSuggestions(r) \/ UpdateComments(r)
  \/ RequestChanges(r) \/ CheckReviewState(r) \/ Approve(r)
  \/ UpdateExecution(r) \/ UpdateFails(r) \/ RecordEnd(r)

Next ==
  \/ \E d \in 1..MaxDate, isMerge \in BOOLEAN : Push(d, isMerge)
  \/ WindowPasses
  \/ \E r \in Runs, origin \in Requests : CreateExecution(r, origin)
  \/ \E r \in Runs : InsertFails(r) \/ Review(r) \/ Crash(r)

Spec == Init /\ [][Next]_vars

(* A started run is not held up by anything but the services it calls,      *)
(* whose calls all end: every stage of a run is eventually taken.           *)
FairSpec == Spec /\ \A r \in Runs : WF_vars(Review(r))

-----------------------------------------------------------------------------
TypeOK ==
  /\ head \in Commits
  /\ date \in [Commits -> 1..MaxDate]
  /\ merges \subseteq Commits
  /\ comments \subseteq Runs \X Commits
  /\ prComments \subseteq Runs
  /\ summary \in [Runs -> {"none", "started", "completed"}]
  /\ announced \in [Runs -> Nat]
  /\ minimized \subseteq Runs
  /\ review \in Reviews
  /\ blocking \in BOOLEAN
  /\ approvers \subseteq Runs
  /\ row \in [Runs -> Rows]
  /\ created \in [Runs -> Nat]
  /\ recent \subseteq Runs
  /\ entry \in [Runs -> Statuses]
  /\ pc \in [Runs -> Places]
  /\ ctx \in [Runs -> Contexts]
  /\ faults \in 0..MaxFaults
  /\ broken \subseteq Runs
  /\ seen \subseteq Commits /\ lost \subseteq Commits
  /\ raced \subseteq Commits /\ backdated \subseteq Commits
  /\ paused \in BOOLEAN

(* A skipped run stays off the pull request: it posts no comment of either  *)
(* kind, announces nothing and approves nothing (PipelineExecutor.execute). *)
SkippedLeavesNoTrace ==
  \A r \in Runs : ctx[r].status = "skipped" =>
    /\ r \notin prComments \cup approvers
    /\ summary[r] = "none"
    /\ \A c \in Commits : <<r, c>> \notin comments

(* The promise of incremental reviews.  Every commit dated no later than a  *)
(* recorded lastAnalyzedCommit went through an analysis, or the code is     *)
(* known to let it through: its analysis failed, it was pushed between the  *)
(* fetch of the changes and the reading of the last commit, or it was       *)
(* authored before what it was pushed after (create-file-comments.stage).   *)
Accounted == seen \cup lost \cup raced \cup backdated

Covered(last) ==
  last # 0 => \A c \in Pushed : date[c] <= date[last] => c \in Accounted

WatermarkCovered == \A r \in Runs : Covered(row[r].lac)

(* Why: what a run starts from and what it will record are covered too, the *)
(* files it fetched account for the rest, and its analysis for the files.   *)
CoverageInv ==
  \A r \in Runs :
    /\ \A last \in {row[r].lac, ctx[r].lac, ctx[r].base} :
         last \in Pushed \cup {0} /\ Covered(last)
    /\ pc[r] \in Fetched => Pushed \subseteq Accounted \cup ctx[r].files
    /\ pc[r] \in Analysed => Pushed \subseteq Accounted

(* A terminal entry of the timeline repeats the status of its row           *)
(* (AutomationExecutionService.updateCodeReview).                           *)
TimelineFollowsRow ==
  \A r \in Runs : entry[r] \in Terminal => row[r].status = entry[r]

(* A row is opened once, in progress, and closed once; only a success       *)
(* carries a watermark.  The executions table as the rest of the system     *)
(* reads it: see ExecutionLedger.                                           *)
Ledger == INSTANCE ExecutionLedger
            WITH Ids <- Runs, Marks <- Commits,
                 status <- [r \in Runs |-> row[r].status],
                 mark <- [r \in Runs |-> row[r].lac]

LedgerSpec == Ledger!Spec

(* Runs that follow one another, with no failure so far.                    *)
Sequential == MaxActive = 1 /\ faults = 0

(* No commit is commented on by two reviews (getChangedFilesSinceLastCommit *)
(* against the lastAnalyzedCommit of createLineComments).                   *)
NoRepeatedComments ==
  Sequential => \A p, q \in comments : p[2] = q[2] => p = q

(* The pull request shows one finished summary at a time: "this occurs when *)
(* we already have a 'code review completed' comment and a new review is    *)
(* being started" (commentManager.minimizeLastReviewComment).               *)
OneVisibleSummary ==
  Sequential => \A r, s \in {t \in Runs : summary[t] = "completed"} \ minimized : r = s

(* Reviews that no command asked for.                                       *)
Unrequested == {r \in Successes : ctx[r].origin = "automation"}

(* In manual mode there is one of them at most, however the commands and    *)
(* the pushes fall (ValidateConfigStage.handleManualMode).                  *)
OneManualReview ==
  Sequential /\ Cadence = "manual" => Cardinality(Unrequested) <= 1

(* In auto-pause mode the window never holds more than pushesToTrigger of   *)
(* them (ValidateConfigStage.handleAutoPauseMode, shouldPauseForBurst).     *)
ReviewsWithinWindow ==
  Sequential /\ Cadence = "auto_pause"
    => Cardinality(Unrequested \cap recent) <= PushesToTrigger

(* The commit the next review starts from never moves back in the list      *)
(* (ValidateNewCommitsStage, findLatestExecutionByFilters).                 *)
WatermarkAdvances ==
  [][Sequential /\ LastAnalyzedCommit # 0 =>
       \/ LastAnalyzedCommit' = LastAnalyzedCommit
       \/ /\ LastAnalyzedCommit' # 0
          /\ ListedAfter(LastAnalyzedCommit', LastAnalyzedCommit)]_vars

(* Every row is closed, whatever the stages throw, unless the process       *)
(* stopped or the row itself could not be written.                          *)
EveryRowCloses ==
  \A r \in Runs :
    row[r].status = "in_progress" ~> (row[r].status \in Terminal \/ r \in broken)

(* A run that stops for want of new commits leaves none that no run has     *)
(* accounted for, although the list it looks at is in the order of author   *)
(* dates and the commit it starts from was chosen by another run            *)
(* (getNewCommitsSinceLastExecution).                                       *)
SkipMeansAccounted ==
  [][\A r \in Runs :
       ctx[r].reason # "no_new_commits" /\ ctx'[r].reason = "no_new_commits"
         => Pushed \subseteq Accounted]_vars

(* While nothing runs beside it, a run approves a pull request on which it  *)
(* commented on a line only when saving its comments failed, and one that   *)
(* still waits for the changes the bot asked for only when a line comment   *)
(* has hidden that review (requestChangesIfCritical, approvePullRequest).   *)
ApprovalExplained ==
  [][\A r \in approvers' \ approvers :
       MaxActive = 1 =>
         /\ (\E c \in Commits : <<r, c>> \in comments) => ctx[r].lac = 0 /\ faults > 0
         /\ blocking => review = "commented"]_vars

=============================================================================
