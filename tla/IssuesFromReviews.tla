--------------------------- MODULE IssuesFromReviews ---------------------------
(***************************************************************************)
(* The issues of one file: closed pull requests whose suggestions become   *)
(* issues and whose code settles others, users who edit them, and readers  *)
(* of the cached list of the organisation.  Each is a chain of awaited     *)
(* steps that nothing orders; one pull request may be closed several       *)
(* times.  An issue is named after the closing that created it and the     *)
(* suggestion it was created from.  Users edit the status only: the        *)
(* severity and the label take the same steps.                             *)
(***************************************************************************)
EXTENDS Integers, FiniteSets

CONSTANTS
  Closings,     \* webhooks of closed pull requests
  Suggestions,  \* suggestions that reviews store, none implemented or discarded
  Of,           \* the pull request of each
  Users,
  Readers,
  MaxEdits,     \* bound on the edits of users
  MaxFaults     \* bound on the steps that fail and the crashes

Prs == {Of[s] : s \in Suggestions}

ASSUME IssuesAssumption ==
  /\ DOMAIN Of = Suggestions
  /\ MaxEdits \in Nat
  /\ MaxFaults \in Nat

VARIABLES
  stored,   \* suggestions in the record of their pull request
  issue,    \* status of each issue
  closing,  \* how far each closing is
  synced,   \* pull requests with the flag syncedWithIssues
  cache,    \* the cached list: held, has missed a change, and its excuse
  reader,   \* readers that have loaded the list and not stored it yet
  user,     \* what each user is changing
  edits, faults,
  late,     \* history: suggestions stored after a closing had read the record
  lost,     \* history: suggestions the LLM kept back, or a failure did
  raced     \* history: issues another changed after a closing had read them

issuesVars == <<stored, issue, closing, synced, cache, reader, user,
                edits, faults, late, lost, raced>>

Issues == Closings \X Suggestions
Status == {"open", "resolved", "dismissed"}

Waiting == [at |-> "waiting", pr |-> "none", todo |-> {}, open |-> {}]
NoList  == [held |-> FALSE, missed |-> FALSE, excused |-> FALSE]
Idle    == [at |-> "idle", missed |-> FALSE]
NoEdit  == [at |-> "idle", issue |-> {}]

IssuesInit ==
  /\ stored = {}
  /\ issue = [i \in Issues |-> "none"]
  /\ closing = [c \in Closings |-> Waiting]
  /\ synced = {}
  /\ cache = NoList
  /\ reader = [r \in Readers |-> Idle]
  /\ user = [u \in Users |-> NoEdit]
  /\ edits = 0 /\ faults = 0
  /\ late = {} /\ lost = {} /\ raced = {}

Fault == faults < MaxFaults /\ faults' = faults + 1

-----------------------------------------------------------------------------
(* A change of the issues is missed by the cached list and by every list    *)
(* that has been loaded and not stored; a closing may still hold what it    *)
(* read before.                                                             *)
SetStatus(which, status, by, excused) ==
  /\ issue' = [i \in Issues |-> IF i \in which THEN status ELSE issue[i]]
  /\ cache' = [cache EXCEPT !.missed = @ \/ cache.held,
                            !.excused = @ \/ (cache.held /\ excused)]
  /\ reader' = [r \in Readers |-> [reader[r] EXCEPT !.missed = reader[r].at = "loaded"]]
  /\ raced' = raced \cup
       {i \in which : \E c \in Closings \ by : i \in closing[c].open}

\* Mutant of OpenIssues: whatever its status, as with the filter left out.
ExistingIssues == {i \in Issues : issue[i] # "none"}

(* findByFileAndStatus.                                                     *)
OpenIssues == {i \in Issues : issue[i] = "open"}

-----------------------------------------------------------------------------
(* A review saves its suggestions, before the pull request is closed or     *)
(* after it.                                                                *)
StoreSuggestion(s) ==
  /\ s \notin stored
  /\ stored' = stored \cup {s}
  /\ late' = IF \E c \in Closings : closing[c].pr = Of[s] THEN late \cup {s} ELSE late
  /\ UNCHANGED <<issue, closing, synced, cache, reader, user, edits, faults, lost, raced>>

(* A closing reads the record; without a record, or with one that holds no  *)
(* files, it ends there (GenerateIssuesFromPrClosedUseCase).                *)
ReadPr(c) ==
  /\ closing[c].at = "waiting"
  /\ \E p \in Prs, at \in {"merging", "ended"} :
       closing' = [closing EXCEPT ![c] =
         [at |-> at, pr |-> IF at = "ended" THEN "none" ELSE p, open |-> {},
          todo |-> IF at = "ended" THEN {} ELSE {s \in stored : Of[s] = p}]]
  /\ UNCHANGED <<stored, issue, synced, cache, reader, user, edits, faults, late, lost, raced>>

Goes(c, at, todo, open) ==
  closing' = [closing EXCEPT ![c].at = at, ![c].todo = todo, ![c].open = open]

(* With no open issue every suggestion is new.  Otherwise the LLM says which*)
(* are; one that it matches with an issue is added to a field the schema    *)
(* does not have, and so is in no issue, like one it leaves out, or all of  *)
(* them when the call fails (mergeSuggestionsIntoIssues).                   *)
MergeSuggestions(c) ==
  LET todo == closing[c].todo
  IN  /\ closing[c].at = "merging"
      /\ \E new \in SUBSET todo :
           /\ OpenIssues = {} => new = todo
           /\ Goes(c, "creating", new, {})
           /\ lost' = lost \cup (todo \ new)
      /\ UNCHANGED <<stored, issue, synced, cache, reader, user, edits, faults, late, raced>>

\* Mutant of CreateIssue: the loop returns after its first issue.
CreateFirstIssue(c) ==
  /\ closing[c].at = "creating"
  /\ \E s \in closing[c].todo :
       /\ SetStatus({<<c, s>>}, "open", {c}, FALSE)
       /\ Goes(c, "creating", {}, {})
  /\ UNCHANGED <<stored, synced, user, edits, faults, late, lost>>

CreateIssue(c) ==
  /\ closing[c].at = "creating"
  /\ \E s \in closing[c].todo :
       /\ SetStatus({<<c, s>>}, "open", {c}, FALSE)
       /\ Goes(c, "creating", closing[c].todo \ {s}, {})
  /\ UNCHANGED <<stored, synced, user, edits, faults, late, lost>>

(* Reading or writing fails: what is left of the file is lost, and the      *)
(* closing goes on.                                                         *)
CreateFails(c) ==
  /\ closing[c].at = "creating" /\ closing[c].todo # {}
  /\ Fault
  /\ lost' = lost \cup closing[c].todo
  /\ Goes(c, "creating", {}, {})
  /\ UNCHANGED <<stored, issue, synced, cache, reader, user, edits, late, raced>>

(* resolveExistingIssues: the open issues of the file are read once.        *)
FindOpen(c) ==
  /\ closing[c].at = "creating" /\ closing[c].todo = {}
  /\ IF OpenIssues = {} THEN Goes(c, "flagging", {}, {})
     ELSE Goes(c, "resolving", {}, OpenIssues)
  /\ UNCHANGED <<stored, issue, synced, cache, reader, user, edits, faults, late, lost, raced>>

(* The pull request removed the file.                                       *)
DismissAll(c) ==
  /\ closing[c].at = "resolving"
  /\ SetStatus(closing[c].open, "dismissed", {c}, FALSE)
  /\ Goes(c, "flagging", {}, {})
  /\ UNCHANGED <<stored, synced, user, edits, faults, late, lost>>

(* Otherwise the LLM says which issues the code still has, and the others   *)
(* are resolved one by one, whatever has become of them.                    *)
ResolveIssue(c) ==
  /\ closing[c].at \in {"resolving", "settling"}
  /\ \E i \in closing[c].open :
       /\ SetStatus({i}, "resolved", {c}, FALSE)
       /\ Goes(c, "settling", {}, closing[c].open \ {i})
  /\ UNCHANGED <<stored, synced, user, edits, faults, late, lost>>

(* The others are still there, or a step failed: either way the closing     *)
(* goes on.                                                                 *)
ResolvingEnds(c) ==
  /\ closing[c].at \in {"resolving", "settling"}
  /\ Goes(c, "flagging", {}, {})
  /\ UNCHANGED <<stored, issue, synced, cache, reader, user, edits, faults, late, lost, raced>>

SetFlag(c) ==
  /\ closing[c].at = "flagging"
  /\ Goes(c, "clearing", {}, {})
  /\ \/ synced' = synced \cup {closing[c].pr} /\ UNCHANGED faults
     \/ Fault /\ UNCHANGED synced
  /\ UNCHANGED <<stored, issue, cache, reader, user, edits, late, lost, raced>>

\* Mutant of ClearAfter: only a closing that has set the flag clears.
ClearIfSynced(c) ==
  /\ closing[c].at = "clearing"
  /\ Goes(c, "ended", {}, {})
  /\ cache' = IF closing[c].pr \in synced THEN NoList ELSE cache
  /\ UNCHANGED <<stored, issue, synced, reader, user, edits, faults, late, lost, raced>>

(* clearIssuesCache, whatever went wrong before; its own failure is logged. *)
ClearAfter(c) ==
  /\ closing[c].at = "clearing"
  /\ Goes(c, "ended", {}, {})
  /\ \/ cache' = NoList /\ UNCHANGED faults
     \/ Fault /\ cache' = [cache EXCEPT !.excused = cache.held]
  /\ UNCHANGED <<stored, issue, synced, reader, user, edits, late, lost, raced>>

(* The process stops: no webhook is delivered again.                        *)
Crash(c) ==
  /\ closing[c].at \notin {"waiting", "ended", "dead"}
  /\ Fault
  /\ Goes(c, "dead", {}, {})
  /\ UNCHANGED <<stored, issue, synced, cache, reader, user, edits, late, lost, raced>>

-----------------------------------------------------------------------------
(* A user's edit clears the cached list first and writes afterwards         *)
(* (UpdateIssuePropertyUseCase).                                            *)
ClearBefore(u) ==
  /\ user[u].at = "idle" /\ edits < MaxEdits
  /\ edits' = edits + 1
  /\ \E i \in ExistingIssues : user' = [user EXCEPT ![u] = [at |-> "writing", issue |-> {i}]]
  /\ cache' = NoList
  /\ UNCHANGED <<stored, issue, closing, synced, reader, faults, late, lost, raced>>

WriteStatus(u) ==
  /\ user[u].at = "writing"
  /\ \E status \in Status : SetStatus(user[u].issue, status, {}, TRUE)
  /\ user' = [user EXCEPT ![u] = NoEdit]
  /\ UNCHANGED <<stored, closing, synced, edits, faults, late, lost>>

-----------------------------------------------------------------------------
(* A reader without a cached list loads the issues and stores them, unless  *)
(* there are none (GetIssuesUseCase, GetIssuesByFiltersUseCase).            *)
Load(r) ==
  /\ reader[r].at = "idle" /\ ~cache.held
  /\ ExistingIssues # {}
  /\ reader' = [reader EXCEPT ![r] = [at |-> "loaded", missed |-> FALSE]]
  /\ UNCHANGED <<stored, issue, closing, synced, cache, user, edits, faults, late, lost, raced>>

Store(r) ==
  /\ reader[r].at = "loaded"
  /\ cache' = [held |-> TRUE, missed |-> reader[r].missed, excused |-> reader[r].missed]
  /\ reader' = [reader EXCEPT ![r] = Idle]
  /\ UNCHANGED <<stored, issue, closing, synced, user, edits, faults, late, lost, raced>>

(* The list is kept for 15 minutes.                                         *)
Expire ==
  /\ cache.held
  /\ cache' = NoList
  /\ UNCHANGED <<stored, issue, closing, synced, reader, user, edits, faults, late, lost, raced>>

-----------------------------------------------------------------------------
IssuesNext ==
  \/ \E s \in Suggestions : StoreSuggestion(s)
  \/ \E c \in Closings :
       \/ ReadPr(c) \/ MergeSuggestions(c) \/ CreateIssue(c) \/ CreateFails(c)
       \/ FindOpen(c) \/ DismissAll(c) \/ ResolveIssue(c) \/ ResolvingEnds(c)
       \/ SetFlag(c) \/ ClearAfter(c) \/ Crash(c)
  \/ \E u \in Users : ClearBefore(u) \/ WriteStatus(u)
  \/ \E r \in Readers : Load(r) \/ Store(r)
  \/ Expire

IssuesSpec == IssuesInit /\ [][IssuesNext]_issuesVars

-----------------------------------------------------------------------------
IssuesTypeOK ==
  /\ stored \subseteq Suggestions /\ late \subseteq Suggestions /\ lost \subseteq Suggestions
  /\ issue \in [Issues -> Status \cup {"none"}]
  /\ closing \in [Closings ->
       [at : {"waiting", "merging", "creating", "resolving", "settling", "flagging",
              "clearing", "ended", "dead"},
        pr : Prs \cup {"none"}, todo : SUBSET Suggestions, open : SUBSET Issues]]
  /\ synced \subseteq Prs \cup {"none"}
  /\ cache \in [held : BOOLEAN, missed : BOOLEAN, excused : BOOLEAN]
  /\ reader \in [Readers -> [at : {"idle", "loaded"}, missed : BOOLEAN]]
  /\ user \in [Users -> [at : {"idle", "writing"}, issue : SUBSET Issues]]
  /\ edits \in 0..MaxEdits /\ faults \in 0..MaxFaults
  /\ raced \subseteq Issues

Filed(s) == \E c \in Closings : issue[<<c, s>>] # "none"

(* The flag syncedWithIssues says that every suggestion the record of a     *)
(* closed pull request holds has been made an issue, unless the LLM kept it *)
(* back, its creation failed or it was stored too late (processClosedPr).   *)
SyncedMeansFiled ==
  \A s \in stored : Of[s] \in synced => Filed(s) \/ s \in lost \cup late

(* A list that has missed a change is cached only while a closing is under  *)
(* way that will clear it or has died before it could, or when it was       *)
(* loaded before the change and stored after it, or a user's edit found the *)
(* list stored anew after its own clearing, or the clearing failed          *)
(* (clearIssuesCache).                                                      *)
StaleListExplained ==
  cache.missed => \/ cache.excused
                  \/ \E c \in Closings : closing[c].at \notin {"waiting", "ended"}

(* An issue that has been resolved or dismissed keeps its status until a    *)
(* user changes it: a closing changes only what was open when it looked,    *)
(* and overrules another's decision only when that fell between its look    *)
(* and its write (resolveExistingIssues).                                   *)
ClosedStaysClosed ==
  [][\A i \in Issues :
       issue[i] \in {"resolved", "dismissed"} /\ issue'[i] # issue[i] =>
         \/ \E u \in Users : user[u].at = "writing" /\ user'[u].at = "idle"
         \/ i \in raced]_issuesVars
=============================================================================
