--------------------------- MODULE PullRequestStore ---------------------------
(***************************************************************************)
(* The stored record of one Bitbucket pull request: webhooks that save it  *)
(* and decide whether a review is due, and reviews that save their         *)
(* suggestions in it.  Nothing orders them.  Each save reads the record    *)
(* and writes it in several awaited steps, and two records of one pull     *)
(* request may come to be: every lookup takes the first.                   *)
(*                                                                         *)
(* A commit is its place in the pull request, a list of commits its        *)
(* length.  A review has at most one suggestion for a file and one for the *)
(* pull request as a whole, both named after it.  The pull request is no   *)
(* draft; users and totals are left out.                                   *)
(***************************************************************************)
EXTENDS Integers, Sequences, FiniteSets, SequencesExt

CONSTANTS
  FilesAt,   \* files changed by the first 1, 2, ... commits
  MaxHooks,  \* bound on the webhooks
  MaxFaults  \* bound on the steps that fail

ASSUME StoreAssumption ==
  /\ MaxHooks \in Nat \ {0}
  /\ MaxFaults \in Nat
  /\ Len(FilesAt) \in Nat \ {0}
  /\ DOMAIN FilesAt = 1..Len(FilesAt)
  /\ \A h \in DOMAIN FilesAt : IsFiniteSet(FilesAt[h])

VARIABLES
  head, merged,  \* the platform: commits pushed, and whether it is merged
  hook,          \* webhooks in the order of their events
  review,        \* the review each of them may start
  save,          \* how far each save is
  docs,          \* records of the pull request, the oldest first
  faults,
  blind,         \* history: commits stored by a save that no review follows
  overlapped     \* history: reviews that read what another was about to write

storeVars == <<head, merged, hook, review, save, docs, faults, blind, overlapped>>

Hooks  == 1..MaxHooks
Savers == {"hook", "review"} \X Hooks
Paths  == UNION {FilesAt[h] : h \in DOMAIN FilesAt}

NoReview == [at |-> "none", seen |-> 0, path |-> {}, read |-> {}, noted |-> FALSE]
Ended    == [kind |-> "any", at |-> "ended", commits |-> 0, trigger |-> FALSE]
NoSave   == [at |-> "idle", commits |-> 0, todo |-> {}, path |-> {}, doc |-> 0]

StoreInit ==
  /\ head = 1 /\ merged = FALSE
  /\ hook = <<[kind |-> "created", at |-> "sent", commits |-> 0, trigger |-> FALSE]>>
  /\ review = [n \in Hooks |-> NoReview]
  /\ save = [c \in Savers |-> NoSave]
  /\ docs = <<>>
  /\ faults = 0
  /\ blind = {} /\ overlapped = {}

-----------------------------------------------------------------------------
(* The platform: it pushes, edits and merges whenever it likes.             *)
Send(kind) ==
  /\ Len(hook) < MaxHooks
  /\ hook' = Append(hook, [kind |-> kind, at |-> "sent", commits |-> 0, trigger |-> FALSE])
  /\ UNCHANGED <<review, save, docs, faults, blind, overlapped>>

Push ==
  /\ ~merged /\ head < Len(FilesAt)
  /\ head' = head + 1
  /\ Send("updated")
  /\ UNCHANGED merged

Edit ==
  /\ ~merged
  /\ Send("updated")
  /\ UNCHANGED <<head, merged>>

Merge ==
  /\ ~merged
  /\ merged' = TRUE
  /\ Send("fulfilled")
  /\ UNCHANGED head

-----------------------------------------------------------------------------
(* The handler of a webhook (shouldTriggerCodeReview, handlePullRequest).   *)
Fault == faults < MaxFaults /\ faults' = faults + 1

StartsSaving(n, trigger) ==
  /\ hook' = [hook EXCEPT ![n].at = "saving", ![n].trigger = trigger]
  /\ save' = [save EXCEPT ![<<"hook", n>>].at = "fetching"]

FetchCommits(n) ==
  /\ hook[n].at = "sent" /\ hook[n].kind = "updated"
  /\ hook' = [hook EXCEPT ![n].at = "checking", ![n].commits = head]
  /\ UNCHANGED <<head, merged, review, save, docs, faults, blind, overlapped>>

\* Mutant of Known: a stored pull request has nothing new.
KnownOnceStored(h) == docs # <<>>

(* The newest commit is among those stored.                                 *)
Known(h) == docs # <<>> /\ docs[1].commits >= h.commits

Decide(n) ==
  LET h == hook[n]
  IN  /\ \/ /\ h.at = "checking"
            /\ StartsSaving(n, ~Known(h))
            /\ UNCHANGED faults
         \/ /\ h.at = "checking"
            /\ Fault
            /\ StartsSaving(n, TRUE)
         \/ /\ h.at = "sent" /\ h.kind # "updated"
            /\ StartsSaving(n, h.kind = "created")
            /\ UNCHANGED faults
      /\ UNCHANGED <<head, merged, review, docs, blind, overlapped>>

-----------------------------------------------------------------------------
(* A save (SavePullRequestUseCase, savePullRequestSuggestions and           *)
(* aggregateAndSaveDataStructure).                                          *)
Step(c, at) == save' = [save EXCEPT ![c].at = at]

(* Saved or failed, its caller goes on: a webhook starts the review that is *)
(* due and does not await it, a review is at its end.                       *)
CallerGoesOn(c, outcome) ==
  LET n == c[2]
  IN  /\ save' = [save EXCEPT ![c] = [NoSave EXCEPT !.at = outcome]]
      /\ IF c[1] = "hook"
         THEN /\ hook' = [hook EXCEPT ![n] = Ended]
              /\ review' = IF hook[n].trigger THEN [review EXCEPT ![n].at = "started"]
                           ELSE review
         ELSE /\ review' = [review EXCEPT ![n].path = {}]
              /\ UNCHANGED hook

(* A webhook saves the files of the moment, a review those it was given.    *)
SaveFetches(c) ==
  /\ save[c].at = "fetching"
  /\ save' = [save EXCEPT
       ![c].at = "finding", ![c].commits = head,
       ![c].todo = FilesAt[IF c[1] = "hook" THEN head ELSE review[c[2]].seen]]
  /\ UNCHANGED <<head, merged, hook, review, docs, faults, blind, overlapped>>

SaveFinds(c) ==
  /\ save[c].at = "finding"
  /\ Step(c, IF docs = <<>> THEN "creating" ELSE "updating")
  /\ UNCHANGED <<head, merged, hook, review, docs, faults, blind, overlapped>>

(* What a save has for a file.                                              *)
SuggestionsFor(c, path) ==
  IF c[1] = "review" /\ path \in review[c[2]].path THEN {c[2]} ELSE {}

Status(c) == IF c[1] = "hook" /\ hook[c[2]].kind = "fulfilled" THEN "closed" ELSE "opened"

File(c, path) == [path |-> path, suggestions |-> SuggestionsFor(c, path)]

(* The commits a save stores and its caller neither looked at nor goes on   *)
(* to review.                                                               *)
Unseen(c) ==
  LET n == c[2]
      from == IF c[1] = "review" THEN review[n].seen ELSE hook[n].commits
  IN  IF c[1] = "hook" /\ hook[n].trigger THEN {} ELSE (from + 1)..save[c].commits

(* handleInitialPullRequest: with no record when it looked, one is created. *)
SaveCreates(c) ==
  /\ save[c].at = "creating"
  /\ docs' = Append(docs, [status |-> Status(c), commits |-> save[c].commits,
                            files |-> SetToSeq({File(c, p) : p \in save[c].todo}),
                            general |-> {}])
  /\ blind' = blind \cup Unseen(c)
  /\ CallerGoesOn(c, "saved")
  /\ UNCHANGED <<head, merged, faults, overlapped>>

\* Mutant of Refreshed: the record is written as handleInitialPullRequest does.
RefreshedWhole(doc, c) ==
  [doc EXCEPT !.status = Status(c), !.commits = save[c].commits, !.general = {}]

(* The fields of a record that every save sets.                             *)
Refreshed(doc, c) == [doc EXCEPT !.status = Status(c), !.commits = save[c].commits]

SaveUpdates(c) ==
  /\ save[c].at = "updating"
  /\ docs' = [docs EXCEPT ![1] = Refreshed(@, c)]
  /\ blind' = blind \cup Unseen(c)
  /\ Step(c, "filing")
  /\ UNCHANGED <<head, merged, hook, review, faults, overlapped>>

(* handleExistingPullRequest: file by file, looked for in every record.     *)
HasPath(doc, path) == \E i \in DOMAIN doc.files : doc.files[i].path = path

DocWith(path) ==
  IF \E d \in DOMAIN docs : HasPath(docs[d], path)
  THEN CHOOSE d \in DOMAIN docs :
         /\ HasPath(docs[d], path)
         /\ \A e \in DOMAIN docs : HasPath(docs[e], path) => d <= e
  ELSE 0

FindFile(c) ==
  /\ save[c].at = "filing"
  /\ \E path \in save[c].todo :
       save' = [save EXCEPT ![c].at = "writing", ![c].todo = @ \ {path},
                            ![c].path = {path}, ![c].doc = DocWith(path)]
  /\ UNCHANGED <<head, merged, hook, review, docs, faults, blind, overlapped>>

FirstOf(files, path) ==
  CHOOSE i \in DOMAIN files :
    files[i].path = path /\ \A j \in DOMAIN files : files[j].path = path => i <= j

(* Suggestions are pushed on the file that was found; a file that was not   *)
(* found is pushed on the first record, whatever it holds by now.           *)
WriteFile(c) ==
  LET d == save[c].doc
  IN  /\ save[c].at = "writing"
      /\ \E path \in save[c].path :
           docs' = IF d = 0
                   THEN [docs EXCEPT ![1].files = Append(@, File(c, path))]
                   ELSE [docs EXCEPT ![d].files[FirstOf(docs[d].files, path)].suggestions =
                           @ \cup SuggestionsFor(c, path)]
      /\ Step(c, "filing")
      /\ UNCHANGED <<head, merged, hook, review, faults, blind, overlapped>>

SaveEnds(c) ==
  /\ save[c].at = "filing" /\ save[c].todo = {}
  /\ CallerGoesOn(c, "saved")
  /\ UNCHANGED <<head, merged, docs, faults, blind, overlapped>>

(* Whatever fails is logged, and the caller goes on.  Any read or write may *)
(* fail; before the first write has been made, all that do leave the same.  *)
SaveFails(c) ==
  /\ save[c].at \in {"fetching", "writing"}
  /\ Fault
  /\ CallerGoesOn(c, "idle")
  /\ UNCHANGED <<head, merged, docs, blind, overlapped>>

-----------------------------------------------------------------------------
(* A review: what it has looked at, and what it has found.  Only one with   *)
(* suggestions for files goes on to save.                                   *)
NowSaves(n, path) ==
  save' = IF path = {} THEN save ELSE [save EXCEPT ![<<"review", n>>].at = "fetching"]

Analyse(n) ==
  /\ review[n].at = "started"
  /\ \E path \in {{}} \cup {{p} : p \in FilesAt[head]} :
       \/ /\ review' = [review EXCEPT ![n].at = "noting", ![n].seen = head,
                                       ![n].path = path]
          /\ UNCHANGED save
       \/ /\ review' = [review EXCEPT ![n].at = "ended", ![n].seen = head,
                                       ![n].path = path]
          /\ NowSaves(n, path)
  /\ UNCHANGED <<head, merged, hook, docs, faults, blind, overlapped>>

(* addPrLevelSuggestions reads the whole list and writes it back.           *)
ReadGeneral(n) ==
  /\ review[n].at = "noting"
  /\ \/ /\ docs = <<>>
        /\ review' = [review EXCEPT ![n].at = "ended"]
        /\ NowSaves(n, review[n].path)
     \/ /\ docs # <<>>
        /\ review' = [review EXCEPT ![n].at = "writing", ![n].read = docs[1].general]
        /\ UNCHANGED save
  /\ UNCHANGED <<head, merged, hook, docs, faults, blind, overlapped>>

WriteGeneral(n) ==
  /\ review[n].at = "writing"
  /\ docs' = [docs EXCEPT ![1].general = review[n].read \cup {n}]
  /\ overlapped' = overlapped \cup (docs[1].general \ review[n].read)
  /\ review' = [review EXCEPT ![n].at = "ended", ![n].read = {}, ![n].noted = TRUE]
  /\ NowSaves(n, review[n].path)
  /\ UNCHANGED <<head, merged, hook, faults, blind>>

-----------------------------------------------------------------------------
StoreNext ==
  \/ Push \/ Edit \/ Merge
  \/ \E n \in DOMAIN hook : FetchCommits(n) \/ Decide(n)
  \/ \E c \in Savers :
       \/ SaveFetches(c) \/ SaveFinds(c) \/ SaveCreates(c) \/ SaveUpdates(c)
       \/ FindFile(c) \/ WriteFile(c) \/ SaveEnds(c) \/ SaveFails(c)
  \/ \E n \in Hooks : Analyse(n) \/ ReadGeneral(n) \/ WriteGeneral(n)

StoreSpec == StoreInit /\ [][StoreNext]_storeVars

-----------------------------------------------------------------------------
Quiet ==
  /\ \A n \in DOMAIN hook : hook[n].at = "ended"
  /\ \A n \in Hooks : review[n].at # "started"

(* When every webhook has been handled, the newest commit of an open pull   *)
(* request has been looked at by a review, unless a save whose caller had   *)
(* not looked at it and started no review stored it first: the webhook of   *)
(* the commit then takes it for reviewed (shouldTriggerCodeReview).         *)
NoPushIgnored ==
  Quiet /\ ~merged =>
    \/ \E n \in Hooks : review[n].seen = head
    \/ head \in blind

(* What a review saved without a failure is in the record readers find: its *)
(* suggestion for a file unless two saves have created records, and the one *)
(* for the whole pull request unless another review read the list before    *)
(* and wrote it after (addSuggestionToFile, addPrLevelSuggestions).         *)
SavedIsFound ==
  \A n \in Hooks :
    /\ save[<<"review", n>>].at = "saved" =>
         \/ \E i \in DOMAIN docs[1].files : n \in docs[1].files[i].suggestions
         \/ Len(docs) > 1
    /\ review[n].noted => n \in docs[1].general \cup overlapped
=============================================================================
