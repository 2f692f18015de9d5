---------------------------- MODULE IssuesProofs ----------------------------
(***************************************************************************)
(* What IssuesFromReviews promises, for any closings, suggestions, users   *)
(* and readers, and any number of edits and failures.                      *)
(***************************************************************************)
EXTENDS IssuesFromReviews, TLAPS

(* Until it has set the flag, a closing has accounted for what it read, or  *)
(* still has it to do.                                                      *)
Working == {"merging", "creating", "resolving", "settling", "flagging"}

Accounted ==
  \A c \in Closings : closing[c].at \in Working =>
    \A s \in stored : Of[s] = closing[c].pr =>
      Filed(s) \/ s \in lost \cup late \/ s \in closing[c].todo

TodoDone ==
  \A c \in Closings : closing[c].at \in {"resolving", "settling", "flagging"} =>
    closing[c].todo = {}

(* The flag is set by a closing that had read the record.                   *)
SyncedRead ==
  \A p \in synced : \E c \in Closings : closing[c].at # "waiting" /\ closing[c].pr = p

MissedHeld == cache.missed => cache.held

(* A closing creates each of its issues once.                               *)
OwnIssues ==
  \A c \in Closings, s \in Suggestions :
    closing[c].at \in {"waiting", "merging"} \/ s \in closing[c].todo =>
      issue[<<c, s>>] = "none"

(* What a closing takes for open is open, or another has changed it since.  *)
OpenKnown ==
  \A c \in Closings : \A i \in closing[c].open :
    issue[i] # "none" /\ (issue[i] = "open" \/ i \in raced)

UsersKnow == \A u \in Users : \A i \in user[u].issue : issue[i] # "none"

FlagInv == Accounted /\ TodoDone /\ SyncedRead /\ SyncedMeansFiled
ListInv == MissedHeld /\ StaleListExplained
OpenInv == OwnIssues /\ OpenKnown /\ UsersKnow

IssuesInv == IssuesTypeOK /\ FlagInv /\ ListInv /\ OpenInv

Steps == {"waiting", "merging", "creating", "resolving", "settling", "flagging",
          "clearing", "ended", "dead"}
Closing == [at : Steps, pr : Prs \cup {"none"}, todo : SUBSET Suggestions, open : SUBSET Issues]

-----------------------------------------------------------------------------
(* A closing that goes on keeps its pull request, and the others stay where *)
(* they are.                                                                *)
LEMMA GoesOn ==
  ASSUME IssuesTypeOK, NEW c \in Closings, NEW at \in Steps,
         NEW todo \in SUBSET Suggestions, NEW open \in SUBSET Issues, Goes(c, at, todo, open)
  PROVE  /\ closing' \in [Closings -> Closing]
         /\ closing'[c].at = at /\ closing'[c].pr = closing[c].pr
         /\ closing'[c].todo = todo /\ closing'[c].open = open
         /\ \A d \in Closings \ {c} : closing'[d] = closing[d]
<1> DEFINE a == [closing EXCEPT ![c].at = at]
           b == [a EXCEPT ![c].todo = todo]
<1>0. closing \in [Closings -> Closing]
  BY DEF IssuesTypeOK, Closing, Steps
<1>1. /\ a \in [Closings -> Closing] /\ a[c] = [closing[c] EXCEPT !.at = at]
      /\ \A d \in Closings \ {c} : a[d] = closing[d]
  BY <1>0 DEF Closing
<1>2. /\ b \in [Closings -> Closing] /\ b[c] = [a[c] EXCEPT !.todo = todo]
      /\ \A d \in Closings \ {c} : b[d] = a[d]
  <2> HIDE DEF a
  <2> QED
    BY <1>1 DEF Closing
<1>3. closing' = [b EXCEPT ![c].open = open]
  BY DEF Goes
<1>4. /\ closing' \in [Closings -> Closing] /\ closing'[c] = [b[c] EXCEPT !.open = open]
      /\ \A d \in Closings \ {c} : closing'[d] = b[d]
  <2> HIDE DEF b
  <2> QED
    BY <1>2, <1>3 DEF Closing
<1>5. closing[c] \in Closing /\ a[c] \in Closing /\ b[c] \in Closing
  BY <1>0, <1>1, <1>2
<1> HIDE DEF a, b
<1> QED
  BY <1>1, <1>2, <1>4, <1>5 DEF Closing

LEMMA EndsThere ==
  ASSUME IssuesTypeOK, NEW c \in Closings, NEW at \in Steps, Goes(c, at, {}, {})
  PROVE  /\ closing' \in [Closings -> Closing]
         /\ closing'[c].at = at /\ closing'[c].pr = closing[c].pr
         /\ \A d \in Closings \ {c} : closing'[d] = closing[d]
<1>1. {} \in SUBSET Suggestions /\ {} \in SUBSET Issues
  OBVIOUS
<1> QED
  BY ONLY IssuesTypeOK, c \in Closings, at \in Steps, Goes(c, at, {}, {}), <1>1, GoesOn

(* What a change of issues leaves: every issue outside as it was, every     *)
(* list that is held marked, and every closing's view of it.                *)
LEMMA StatusSet ==
  ASSUME IssuesTypeOK, NEW which \in SUBSET Issues, NEW status \in Status,
         NEW by \in SUBSET Closings, NEW excused \in BOOLEAN,
         SetStatus(which, status, by, excused)
  PROVE  /\ issue' \in [Issues -> Status \cup {"none"}]
         /\ \A i \in which : issue'[i] = status
         /\ \A i \in Issues \ which : issue'[i] = issue[i]
         /\ cache' \in [held : BOOLEAN, missed : BOOLEAN, excused : BOOLEAN]
         /\ cache'.held = cache.held
         /\ cache'.missed = (cache.missed \/ cache.held)
         /\ cache'.excused = (cache.excused \/ (cache.held /\ excused))
         /\ reader' \in [Readers -> [at : {"idle", "loaded"}, missed : BOOLEAN]]
         /\ raced \subseteq raced' /\ raced' \subseteq Issues
         /\ \A i \in which, c \in Closings \ by : i \in closing[c].open => i \in raced'
<1>1. /\ issue' \in [Issues -> Status \cup {"none"}]
      /\ \A i \in which : issue'[i] = status
      /\ \A i \in Issues \ which : issue'[i] = issue[i]
  BY DEF IssuesTypeOK, SetStatus
<1>2. /\ cache' \in [held : BOOLEAN, missed : BOOLEAN, excused : BOOLEAN]
      /\ cache'.held = cache.held
      /\ cache'.missed = (cache.missed \/ cache.held)
      /\ cache'.excused = (cache.excused \/ (cache.held /\ excused))
  <2> DEFINE m == [cache EXCEPT !.missed = cache.missed \/ cache.held]
  <2>0. cache \in [held : BOOLEAN, missed : BOOLEAN, excused : BOOLEAN]
    BY DEF IssuesTypeOK
  <2>1. /\ m \in [held : BOOLEAN, missed : BOOLEAN, excused : BOOLEAN]
        /\ m.held = cache.held /\ m.missed = (cache.missed \/ cache.held)
        /\ m.excused = cache.excused
    BY <2>0
  <2> DEFINE e == cache.excused \/ (cache.held /\ excused)
  <2>2. cache' = [m EXCEPT !.excused = e] /\ e \in BOOLEAN
    BY <2>0 DEF SetStatus
  <2>3. e = (cache.excused \/ (cache.held /\ excused))
    OBVIOUS
  <2> HIDE DEF m, e
  <2>4. /\ cache' \in [held : BOOLEAN, missed : BOOLEAN, excused : BOOLEAN]
        /\ cache'.held = m.held /\ cache'.missed = m.missed /\ cache'.excused = e
    BY <2>1, <2>2
  <2> QED
    BY <2>1, <2>3, <2>4
<1>3. reader' \in [Readers -> [at : {"idle", "loaded"}, missed : BOOLEAN]]
  BY DEF IssuesTypeOK, SetStatus
<1>4. /\ raced \subseteq raced' /\ raced' \subseteq Issues
      /\ \A i \in which, c \in Closings \ by : i \in closing[c].open => i \in raced'
  BY DEF IssuesTypeOK, SetStatus
<1> QED
  BY <1>1, <1>2, <1>3, <1>4

(* Issues stay, so that what is filed stays filed.                          *)
LEMMA StaysFiled ==
  ASSUME NEW which \in SUBSET Issues, NEW status \in Status,
         \A i \in which : issue'[i] = status, \A i \in Issues \ which : issue'[i] = issue[i]
  PROVE  \A s \in Suggestions : Filed(s) => Filed(s)'
<1> SUFFICES ASSUME NEW s \in Suggestions, NEW c \in Closings, issue[<<c, s>>] # "none"
             PROVE  issue'[<<c, s>>] # "none"
  BY DEF Filed
<1>1. <<c, s>> \in Issues /\ status # "none"
  BY DEF Issues, Status
<1> QED
  BY <1>1

-----------------------------------------------------------------------------
(* A closing that goes on past its start accounts for what it gives up.     *)
LEMMA ClosingKeepsFlag ==
  ASSUME IssuesInv, NEW c \in Closings, NEW at \in Steps,
         NEW todo \in SUBSET Suggestions, NEW open \in SUBSET Issues, Goes(c, at, todo, open),
         at # "waiting", at \in Working => closing[c].at \in Working,
         at \in {"resolving", "settling", "flagging"} => todo = {},
         UNCHANGED <<stored, synced, late>>, lost \subseteq lost',
         \A s \in Suggestions : Filed(s) => Filed(s)',
         \A s \in closing[c].todo \ todo : Filed(s)' \/ s \in lost'
  PROVE  FlagInv'
<1>0. /\ IssuesTypeOK /\ Accounted /\ TodoDone /\ SyncedRead /\ SyncedMeansFiled
      /\ stored \subseteq Suggestions
  BY DEF IssuesInv, FlagInv, IssuesTypeOK
<1>1. /\ closing'[c].at = at /\ closing'[c].pr = closing[c].pr /\ closing'[c].todo = todo
      /\ \A d \in Closings \ {c} : closing'[d] = closing[d]
  BY <1>0, GoesOn
<1>2. Accounted'
  <2> SUFFICES ASSUME NEW d \in Closings, closing'[d].at \in Working,
                      NEW s \in stored', Of[s] = closing'[d].pr
               PROVE  Filed(s)' \/ s \in lost' \cup late' \/ s \in closing'[d].todo
    BY DEF Accounted
  <2>1. closing[d].at \in Working /\ closing[d].pr = closing'[d].pr /\ s \in stored /\ s \in Suggestions
    BY <1>0, <1>1
  <2>2. Filed(s) \/ s \in lost \cup late \/ s \in closing[d].todo
    BY <1>0, <2>1 DEF Accounted
  <2>3. s \in closing[d].todo => s \in closing'[d].todo \/ Filed(s)' \/ s \in lost'
    BY <1>1
  <2> QED
    BY <2>1, <2>2, <2>3
<1>3. TodoDone'
  BY <1>0, <1>1 DEF TodoDone
<1>4. SyncedRead'
  BY <1>0, <1>1 DEF SyncedRead
<1>5. SyncedMeansFiled'
  <2> SUFFICES ASSUME NEW s \in stored', Of[s] \in synced'
               PROVE  Filed(s)' \/ s \in lost' \cup late'
    BY DEF SyncedMeansFiled
  <2>1. s \in stored /\ s \in Suggestions /\ Of[s] \in synced
    BY <1>0
  <2>2. Filed(s) \/ s \in lost \cup late
    BY <1>0, <2>1 DEF SyncedMeansFiled
  <2> QED
    BY <2>1, <2>2
<1> QED
  BY <1>2, <1>3, <1>4, <1>5 DEF FlagInv

(* While a closing is under way the cached list may have missed a change.   *)
LEMMA ClosingKeepsList ==
  ASSUME IssuesInv, NEW c \in Closings, NEW at \in Steps \ {"waiting", "ended"},
         NEW todo \in SUBSET Suggestions, NEW open \in SUBSET Issues, Goes(c, at, todo, open),
         cache'.missed => cache'.held
  PROVE  ListInv'
<1>1. closing'[c].at \notin {"waiting", "ended"}
  BY GoesOn DEF IssuesInv
<1> QED
  BY <1>1 DEF ListInv, MissedHeld, StaleListExplained

(* A closing that changes no issue opens none to itself that is not open.   *)
LEMMA ClosingKeepsOpen ==
  ASSUME IssuesInv, NEW c \in Closings, NEW at \in Steps \ {"waiting", "merging"},
         NEW todo \in SUBSET closing[c].todo, NEW open \in SUBSET OpenIssues,
         Goes(c, at, todo, open), UNCHANGED <<issue, raced, user>>
  PROVE  OpenInv'
<1>0. /\ IssuesTypeOK /\ OwnIssues /\ OpenKnown /\ UsersKnow
      /\ todo \in SUBSET Suggestions /\ open \in SUBSET Issues
  BY DEF IssuesInv, OpenInv, IssuesTypeOK, OpenIssues
<1>1. /\ closing'[c].at = at /\ closing'[c].todo = todo /\ closing'[c].open = open
      /\ \A d \in Closings \ {c} : closing'[d] = closing[d]
  BY <1>0, GoesOn
<1>2. OwnIssues'
  BY <1>0, <1>1 DEF OwnIssues
<1>3. OpenKnown'
  BY <1>0, <1>1 DEF OpenKnown, OpenIssues
<1> QED
  BY <1>0, <1>2, <1>3 DEF OpenInv, UsersKnow

(* A closing that changes issues forgets those, and marks what others hold. *)
LEMMA SettingKeepsOpen ==
  ASSUME IssuesInv, NEW c \in Closings, NEW at \in Steps \ {"waiting", "merging"},
         NEW which \in SUBSET Issues, NEW status \in Status,
         NEW todo \in SUBSET closing[c].todo, NEW open \in SUBSET (closing[c].open \ which),
         SetStatus(which, status, {c}, FALSE), Goes(c, at, todo, open), UNCHANGED user,
         \A i \in which : issue[i] # "none" \/ \E s \in Suggestions \ todo : i = <<c, s>>
  PROVE  OpenInv'
<1>0. /\ IssuesTypeOK /\ OwnIssues /\ OpenKnown /\ UsersKnow
      /\ todo \in SUBSET Suggestions /\ open \in SUBSET Issues
      /\ status # "none"
      /\ \A d \in Closings : closing[d].open \subseteq Issues
      /\ \A u \in Users : user[u].issue \subseteq Issues
  BY DEF IssuesInv, OpenInv, IssuesTypeOK, Status
<1>1. /\ closing'[c].at = at /\ closing'[c].todo = todo /\ closing'[c].open = open
      /\ \A d \in Closings \ {c} : closing'[d] = closing[d]
  BY <1>0, GoesOn
<1>2. /\ \A i \in which : issue'[i] = status
      /\ \A i \in Issues \ which : issue'[i] = issue[i]
      /\ raced \subseteq raced'
      /\ \A i \in which, d \in Closings \ {c} : i \in closing[d].open => i \in raced'
  <2>1. {c} \in SUBSET Closings /\ FALSE \in BOOLEAN
    OBVIOUS
  <2> QED
    BY <1>0, <2>1, StatusSet
<1>3. OwnIssues'
  <2> SUFFICES ASSUME NEW d \in Closings, NEW s \in Suggestions,
                      closing'[d].at \in {"waiting", "merging"} \/ s \in closing'[d].todo
               PROVE  issue'[<<d, s>>] = "none"
    BY DEF OwnIssues
  <2>1. issue[<<d, s>>] = "none" /\ <<d, s>> \in Issues
    BY <1>0, <1>1 DEF OwnIssues, Issues
  <2>2. <<d, s>> \notin which
    BY <1>1, <2>1
  <2> QED
    BY <1>2, <2>1, <2>2
<1>4. OpenKnown'
  <2> SUFFICES ASSUME NEW d \in Closings, NEW i \in closing'[d].open
               PROVE  issue'[i] # "none" /\ (issue'[i] = "open" \/ i \in raced')
    BY DEF OpenKnown
  <2>1. i \in closing[d].open /\ i \in Issues /\ (d = c => i \notin which)
    BY <1>0, <1>1
  <2>2. issue[i] # "none" /\ (issue[i] = "open" \/ i \in raced)
    BY <1>0, <2>1 DEF OpenKnown
  <2>3. CASE i \in which
    BY <1>0, <1>2, <2>1, <2>3
  <2>4. CASE i \notin which
    BY <1>2, <2>1, <2>2, <2>4
  <2> QED
    BY <2>3, <2>4
<1>5. UsersKnow'
  <2> SUFFICES ASSUME NEW u \in Users, NEW i \in user[u].issue
               PROVE  issue'[i] # "none"
    BY DEF UsersKnow
  <2>1. i \in Issues /\ issue[i] # "none"
    BY <1>0 DEF UsersKnow
  <2> QED
    BY <1>0, <1>2, <2>1
<1> QED
  BY <1>3, <1>4, <1>5 DEF OpenInv

-----------------------------------------------------------------------------
(* Steps that change neither issues nor closings nor the record.            *)
LEMMA OthersKeep ==
  ASSUME IssuesInv, UNCHANGED <<stored, issue, closing, synced, late, lost, raced>>
  PROVE  FlagInv' /\ OwnIssues' /\ OpenKnown'
<1>1. Accounted' /\ TodoDone' /\ SyncedRead' /\ SyncedMeansFiled'
  BY DEF IssuesInv, FlagInv, Accounted, TodoDone, SyncedRead, SyncedMeansFiled, Filed
<1>2. OwnIssues' /\ OpenKnown'
  BY DEF IssuesInv, OpenInv, OwnIssues, OpenKnown
<1> QED
  BY <1>1, <1>2 DEF FlagInv

LEMMA Bounds == MaxEdits \in Nat /\ MaxFaults \in Nat
BY IssuesAssumption

LEMMA FaultTyped ==
  ASSUME IssuesTypeOK, Fault \/ UNCHANGED faults
  PROVE  faults' \in 0..MaxFaults
BY Bounds DEF IssuesTypeOK, Fault

LEMMA InvHolds == IssuesSpec => []IssuesInv
<1>1. IssuesInit => IssuesInv
  <2> SUFFICES ASSUME IssuesInit PROVE IssuesInv
    OBVIOUS
  <2>1. IssuesTypeOK
    BY Bounds DEF IssuesInit, IssuesTypeOK, Waiting, NoList, Idle, NoEdit
  <2>2. FlagInv
    BY DEF IssuesInit, FlagInv, Accounted, TodoDone, SyncedRead, SyncedMeansFiled, Waiting, Working
  <2>3. ListInv
    BY DEF IssuesInit, ListInv, MissedHeld, StaleListExplained, NoList
  <2>4. OpenInv
    BY DEF IssuesInit, OpenInv, OwnIssues, OpenKnown, UsersKnow, Waiting, NoEdit, Issues
  <2> QED
    BY <2>1, <2>2, <2>3, <2>4 DEF IssuesInv
<1>2. IssuesInv /\ [IssuesNext]_issuesVars => IssuesInv'
  <2> SUFFICES ASSUME IssuesInv, [IssuesNext]_issuesVars PROVE IssuesInv'
    OBVIOUS
  <2>t. IssuesTypeOK /\ FlagInv /\ ListInv /\ OpenInv /\ closing \in [Closings -> Closing]
    BY DEF IssuesInv, IssuesTypeOK, Closing, Steps
  <2>c. \A c \in Closings : /\ closing[c].at \in Steps /\ closing[c].todo \subseteq Suggestions
                            /\ closing[c].open \subseteq Issues /\ closing[c].pr \in Prs \cup {"none"}
    BY <2>t DEF Closing
  <2>f. UNCHANGED issue => \A s \in Suggestions : Filed(s) => Filed(s)'
    BY DEF Filed
  <2>1. ASSUME NEW s \in Suggestions, StoreSuggestion(s) PROVE IssuesInv'
    <3>0. /\ stored' = stored \cup {s} /\ late \subseteq late' /\ late' \subseteq Suggestions
          /\ (\E c \in Closings : closing[c].pr = Of[s]) => s \in late'
          /\ UNCHANGED <<issue, closing, synced, cache, reader, user, edits, faults, lost, raced>>
      BY <2>1, <2>t DEF StoreSuggestion, IssuesTypeOK
    <3>1. IssuesTypeOK'
      BY <2>t, <3>0 DEF IssuesTypeOK
    <3>2. Accounted' /\ TodoDone'
      BY <2>t, <3>0 DEF FlagInv, Accounted, TodoDone, Filed
    <3>3. SyncedRead' /\ SyncedMeansFiled'
      BY <2>t, <3>0 DEF FlagInv, SyncedRead, SyncedMeansFiled, Filed
    <3>4. ListInv' /\ OpenInv'
      BY <2>t, <3>0 DEF ListInv, MissedHeld, StaleListExplained, OpenInv, OwnIssues, OpenKnown, UsersKnow
    <3> QED
      BY <3>1, <3>2, <3>3, <3>4 DEF IssuesInv, FlagInv
  <2>2. ASSUME NEW c \in Closings, ReadPr(c) PROVE IssuesInv'
    <3>0. PICK p \in Prs, at \in {"merging", "ended"} :
            closing' = [closing EXCEPT ![c] =
              [at |-> at, pr |-> IF at = "ended" THEN "none" ELSE p, open |-> {},
               todo |-> IF at = "ended" THEN {} ELSE {s \in stored : Of[s] = p}]]
      BY <2>2 DEF ReadPr
    <3>1. /\ closing[c].at = "waiting"
          /\ UNCHANGED <<stored, issue, synced, cache, reader, user, edits, faults, late, lost, raced>>
      BY <2>2 DEF ReadPr
    <3>2. /\ closing'[c].at = at /\ closing'[c].open = {}
          /\ at = "merging" => /\ closing'[c].pr = p
                               /\ closing'[c].todo = {s \in stored : Of[s] = p}
          /\ at = "ended" => closing'[c].pr = "none" /\ closing'[c].todo = {}
          /\ \A d \in Closings \ {c} : closing'[d] = closing[d]
      BY <2>t, <3>0
    <3>3. IssuesTypeOK'
      <4>1. closing' \in [Closings -> Closing]
        BY <2>t, <3>0 DEF Closing, Steps, IssuesTypeOK
      <4> QED
        BY <2>t, <3>1, <4>1 DEF IssuesTypeOK, Closing, Steps
    <3>4. Accounted'
      <4> SUFFICES ASSUME NEW d \in Closings, closing'[d].at \in Working,
                          NEW s \in stored, Of[s] = closing'[d].pr
                   PROVE  Filed(s) \/ s \in lost \cup late \/ s \in closing'[d].todo
        BY <3>1 DEF Accounted, Filed
      <4>1. CASE d = c
        <5>1. at = "merging"
          BY <3>2, <4>1 DEF Working
        <5> QED
          BY <3>2, <4>1, <5>1
      <4>2. CASE d # c
        BY <2>t, <3>2, <4>2 DEF FlagInv, Accounted
      <4> QED
        BY <4>1, <4>2
    <3>5. TodoDone' /\ SyncedRead' /\ SyncedMeansFiled'
      BY <2>t, <3>1, <3>2 DEF FlagInv, TodoDone, SyncedRead, SyncedMeansFiled, Filed
    <3>6. ListInv'
      <4>1. \A d \in Closings : closing[d].at \notin {"waiting", "ended"} => closing'[d] = closing[d]
        BY <3>1, <3>2
      <4> QED
        BY <2>t, <3>1, <4>1 DEF ListInv, MissedHeld, StaleListExplained
    <3>7. OwnIssues'
      BY <2>t, <3>1, <3>2 DEF OpenInv, OwnIssues
    <3>8. OpenKnown' /\ UsersKnow'
      BY <2>t, <3>1, <3>2 DEF OpenInv, OpenKnown, UsersKnow
    <3> QED
      BY <3>3, <3>4, <3>5, <3>6, <3>7, <3>8 DEF IssuesInv, FlagInv, OpenInv
  <2>3. ASSUME NEW c \in Closings, MergeSuggestions(c) PROVE IssuesInv'
    <3>0. PICK new \in SUBSET closing[c].todo :
            Goes(c, "creating", new, {}) /\ lost' = lost \cup (closing[c].todo \ new)
      BY <2>3 DEF MergeSuggestions
    <3>1. /\ closing[c].at = "merging" /\ new \in SUBSET Suggestions
          /\ UNCHANGED <<stored, issue, synced, cache, reader, user, edits, faults, late, raced>>
      BY <2>3, <2>c DEF MergeSuggestions
    <3>2. IssuesTypeOK'
      <4>1. closing' \in [Closings -> Closing]
        <5>1. "creating" \in Steps /\ {} \in SUBSET Issues
          BY DEF Steps
        <5> QED
          BY <2>t, <3>0, <3>1, <5>1, GoesOn
      <4> QED
        BY <2>t, <2>c, <3>0, <3>1, <4>1 DEF IssuesTypeOK, Closing, Steps
    <3>3. FlagInv'
      BY <2>f, <3>0, <3>1, ClosingKeepsFlag DEF Steps, Working
    <3>4. ListInv'
      BY <2>t, <3>0, <3>1, ClosingKeepsList DEF Steps, ListInv, MissedHeld
    <3>5. OpenInv'
      BY <3>0, <3>1, ClosingKeepsOpen DEF Steps
    <3> QED
      BY <3>2, <3>3, <3>4, <3>5 DEF IssuesInv
  <2>4. ASSUME NEW c \in Closings, CreateIssue(c) PROVE IssuesInv'
    <3>0. PICK s \in closing[c].todo :
            /\ SetStatus({<<c, s>>}, "open", {c}, FALSE)
            /\ Goes(c, "creating", closing[c].todo \ {s}, {})
      BY <2>4 DEF CreateIssue
    <3>1. /\ closing[c].at = "creating" /\ s \in Suggestions /\ <<c, s>> \in Issues
          /\ "open" \in Status /\ "creating" \in Steps \ {"waiting", "merging"}
          /\ {<<c, s>>} \in SUBSET Issues /\ {c} \in SUBSET Closings /\ FALSE \in BOOLEAN
          /\ closing[c].todo \ {s} \in SUBSET Suggestions
          /\ closing[c].todo \ {s} \in SUBSET closing[c].todo
          /\ UNCHANGED <<stored, synced, user, edits, faults, late, lost>>
      BY <2>4, <2>c DEF CreateIssue, Issues, Status, Steps
    <3>2. IssuesTypeOK'
      <4>1. closing' \in [Closings -> Closing]
        <5>1. "creating" \in Steps /\ {} \in SUBSET Issues
          BY <3>1
        <5>2. Goes(c, "creating", closing[c].todo \ {s}, {})
          BY <3>0
        <5> QED
          BY <2>t, <3>1, <5>1, <5>2, GoesOn
      <4>2. /\ issue' \in [Issues -> Status \cup {"none"}] /\ raced' \subseteq Issues
            /\ cache' \in [held : BOOLEAN, missed : BOOLEAN, excused : BOOLEAN]
            /\ reader' \in [Readers -> [at : {"idle", "loaded"}, missed : BOOLEAN]]
        <5> DEFINE which == {<<c, s>>}
        <5>1. /\ which \in SUBSET Issues /\ SetStatus(which, "open", {c}, FALSE)
              /\ "open" \in Status /\ {c} \in SUBSET Closings /\ FALSE \in BOOLEAN
          BY <3>0, <3>1
        <5> HIDE DEF which
        <5> QED
          BY <2>t, <5>1, StatusSet
      <4> QED
        BY <2>t, <3>1, <4>1, <4>2 DEF IssuesTypeOK, Closing, Steps
    <3>3. FlagInv'
      <4>1. issue'[<<c, s>>] = "open" /\ \A i \in Issues \ {<<c, s>>} : issue'[i] = issue[i]
        BY <3>0, <3>1 DEF SetStatus
      <4>2. \A x \in Suggestions : Filed(x) => Filed(x)'
        <5>1. \A i \in {<<c, s>>} : issue'[i] = "open"
          BY <4>1
        <5> QED
          BY <3>1, <4>1, <5>1, StaysFiled
      <4>3. Filed(s)'
        BY <4>1 DEF Filed
      <4> QED
        BY <2>c, <3>0, <3>1, <4>2, <4>3, ClosingKeepsFlag DEF Working
    <3>4. ListInv'
      <4>1. cache'.missed => cache'.held
        BY <2>t, <3>0, <3>1, StatusSet DEF ListInv, MissedHeld
      <4> QED
        BY <2>c, <3>0, <3>1, <4>1, ClosingKeepsList
    <3>5. OpenInv'
      <4>1. \A i \in {<<c, s>>} : \E x \in Suggestions \ (closing[c].todo \ {s}) : i = <<c, x>>
        BY <3>1
      <4>2. {} \in SUBSET (closing[c].open \ {<<c, s>>})
        OBVIOUS
      <4> QED
        BY <3>0, <3>1, <4>1, <4>2, SettingKeepsOpen
    <3> QED
      BY <3>2, <3>3, <3>4, <3>5 DEF IssuesInv
  <2>5. ASSUME NEW c \in Closings, CreateFails(c) PROVE IssuesInv'
    <3>1. /\ closing[c].at = "creating" /\ Fault /\ lost' = lost \cup closing[c].todo
          /\ Goes(c, "creating", {}, {}) /\ "creating" \in Steps
          /\ UNCHANGED <<stored, issue, synced, cache, reader, user, edits, late, raced>>
      BY <2>5 DEF CreateFails, Steps
    <3>2. IssuesTypeOK'
      <4>1. closing' \in [Closings -> Closing]
        BY <2>t, <3>1, EndsThere
      <4>2. faults' \in 0..MaxFaults
        BY <2>t, <3>1, FaultTyped
      <4> QED
        BY <2>t, <2>c, <3>1, <4>1, <4>2 DEF IssuesTypeOK, Closing, Steps
    <3>3. FlagInv'
      BY <2>f, <3>1, ClosingKeepsFlag DEF Working
    <3>4. ListInv'
      BY <2>t, <3>1, ClosingKeepsList DEF ListInv, MissedHeld
    <3>5. OpenInv'
      BY <3>1, ClosingKeepsOpen
    <3> QED
      BY <3>2, <3>3, <3>4, <3>5 DEF IssuesInv
  <2>6. ASSUME NEW c \in Closings, FindOpen(c) \/ ResolvingEnds(c) PROVE IssuesInv'
    <3>0. /\ closing[c].at \in {"creating", "resolving", "settling"} /\ closing[c].todo = {}
          /\ \E at \in {"flagging", "resolving"}, open \in SUBSET OpenIssues : Goes(c, at, {}, open)
          /\ UNCHANGED <<stored, issue, synced, cache, reader, user, edits, faults, late, lost, raced>>
      BY <2>6, <2>t DEF FindOpen, ResolvingEnds, FlagInv, TodoDone
    <3>1. PICK at \in {"flagging", "resolving"}, open \in SUBSET OpenIssues : Goes(c, at, {}, open)
      BY <3>0
    <3>s. at \in Steps /\ open \in SUBSET Issues
      BY DEF Steps, OpenIssues
    <3>2. IssuesTypeOK'
      <4>1. closing' \in [Closings -> Closing]
        BY <2>t, <3>1, <3>s, GoesOn
      <4> QED
        BY <2>t, <3>0, <4>1 DEF IssuesTypeOK, Closing, Steps
    <3>3. FlagInv'
      BY <2>f, <3>0, <3>1, <3>s, ClosingKeepsFlag DEF Working
    <3>4. ListInv'
      BY <2>t, <3>0, <3>1, <3>s, ClosingKeepsList DEF ListInv, MissedHeld
    <3>5. OpenInv'
      BY <3>0, <3>1, <3>s, ClosingKeepsOpen
    <3> QED
      BY <3>2, <3>3, <3>4, <3>5 DEF IssuesInv
  <2>7. ASSUME NEW c \in Closings, DismissAll(c) \/ ResolveIssue(c) PROVE IssuesInv'
    <3>0. /\ closing[c].at \in {"resolving", "settling"} /\ closing[c].todo = {}
          /\ \E which \in SUBSET closing[c].open, status \in Status, at \in {"flagging", "settling"} :
               /\ SetStatus(which, status, {c}, FALSE)
               /\ Goes(c, at, {}, closing[c].open \ which)
          /\ UNCHANGED <<stored, synced, user, edits, faults, late, lost>>
      <4>1. CASE DismissAll(c)
        <5>1. closing[c].open \ closing[c].open = {} /\ "dismissed" \in Status
          BY DEF Status
        <5> QED
          BY <2>t, <4>1, <5>1 DEF DismissAll, FlagInv, TodoDone
      <4>2. CASE ResolveIssue(c)
        <5>1. "resolved" \in Status
          BY DEF Status
        <5>2. PICK i \in closing[c].open : /\ SetStatus({i}, "resolved", {c}, FALSE)
                                          /\ Goes(c, "settling", {}, closing[c].open \ {i})
          BY <4>2 DEF ResolveIssue
        <5>3. {i} \in SUBSET closing[c].open
          OBVIOUS
        <5> QED
          BY <2>t, <4>2, <5>1, <5>2, <5>3 DEF ResolveIssue, FlagInv, TodoDone
      <4> QED
        BY <2>7, <4>1, <4>2
    <3>1. PICK which \in SUBSET closing[c].open, status \in Status, at \in {"flagging", "settling"} :
               /\ SetStatus(which, status, {c}, FALSE)
               /\ Goes(c, at, {}, closing[c].open \ which)
      BY <3>0
    <3>s. at \in Steps /\ which \in SUBSET Issues /\ closing[c].open \ which \in SUBSET Issues
      BY <2>c DEF Steps
    <3>2. IssuesTypeOK'
      <4>1. closing' \in [Closings -> Closing]
        BY <2>t, <3>1, <3>s, GoesOn
      <4>2. /\ issue' \in [Issues -> Status \cup {"none"}] /\ raced' \subseteq Issues
            /\ cache' \in [held : BOOLEAN, missed : BOOLEAN, excused : BOOLEAN]
            /\ reader' \in [Readers -> [at : {"idle", "loaded"}, missed : BOOLEAN]]
        <5>1. {c} \in SUBSET Closings /\ FALSE \in BOOLEAN
          OBVIOUS
        <5> QED
          BY <2>t, <3>1, <3>s, <5>1, StatusSet
      <4> QED
        BY <2>t, <3>0, <4>1, <4>2 DEF IssuesTypeOK, Closing, Steps
    <3>3. FlagInv'
      <4>1. /\ \A i \in which : issue'[i] = status
            /\ \A i \in Issues \ which : issue'[i] = issue[i]
        <5>1. {c} \in SUBSET Closings /\ FALSE \in BOOLEAN
          OBVIOUS
        <5> QED
          BY <2>t, <3>1, <3>s, <5>1, StatusSet
      <4>2. \A x \in Suggestions : Filed(x) => Filed(x)'
        BY <3>s, <4>1, StaysFiled
      <4> QED
        BY <3>0, <3>1, <3>s, <4>2, ClosingKeepsFlag DEF Working
    <3>4. ListInv'
      <4>1. cache'.missed => cache'.held
        BY <2>t, <3>1, <3>s, StatusSet DEF ListInv, MissedHeld
      <4> QED
        BY <3>1, <3>s, <4>1, ClosingKeepsList
    <3>5. OpenInv'
      <4>1. \A i \in which : issue[i] # "none"
        BY <2>t DEF OpenInv, OpenKnown
      <4> QED
        BY <3>0, <3>1, <3>s, <4>1, SettingKeepsOpen
    <3> QED
      BY <3>2, <3>3, <3>4, <3>5 DEF IssuesInv
  <2>8. ASSUME NEW c \in Closings, SetFlag(c) PROVE IssuesInv'
    <3>1. /\ closing[c].at = "flagging" /\ closing[c].todo = {} /\ "clearing" \in Steps
          /\ Goes(c, "clearing", {}, {})
          /\ synced' \in {synced, synced \cup {closing[c].pr}}
          /\ faults' \in 0..MaxFaults
          /\ UNCHANGED <<stored, issue, cache, reader, user, edits, late, lost, raced>>
      BY <2>8, <2>t, FaultTyped DEF SetFlag, Steps, FlagInv, TodoDone
    <3>g. /\ closing' \in [Closings -> Closing]
          /\ closing'[c].at = "clearing" /\ closing'[c].pr = closing[c].pr
          /\ \A d \in Closings \ {c} : closing'[d] = closing[d]
      BY <2>t, <3>1, EndsThere
    <3>2. IssuesTypeOK'
      BY <2>t, <2>c, <3>1, <3>g DEF IssuesTypeOK, Closing, Steps
    <3>3. Accounted' /\ TodoDone'
      BY <2>t, <3>1, <3>g DEF FlagInv, Accounted, TodoDone, Filed, Working
    <3>4. SyncedRead'
      BY <2>t, <3>1, <3>g DEF FlagInv, SyncedRead
    <3>5. SyncedMeansFiled'
      <4>1. \A s \in stored : Of[s] = closing[c].pr => Filed(s) \/ s \in lost \cup late
        BY <2>t, <3>1 DEF FlagInv, Accounted, Working
      <4> QED
        BY <2>t, <3>1, <4>1 DEF FlagInv, SyncedMeansFiled, Filed
    <3>6. ListInv'
      BY <2>t, <3>1, ClosingKeepsList DEF ListInv, MissedHeld
    <3>7. OpenInv'
      BY <3>1, ClosingKeepsOpen
    <3> QED
      BY <3>2, <3>3, <3>4, <3>5, <3>6, <3>7 DEF IssuesInv, FlagInv
  <2>9. ASSUME NEW c \in Closings, ClearAfter(c) PROVE IssuesInv'
    <3>1. /\ closing[c].at = "clearing" /\ "ended" \in Steps /\ Goes(c, "ended", {}, {})
          /\ cache' \in {NoList, [cache EXCEPT !.excused = cache.held]}
          /\ faults' \in 0..MaxFaults
          /\ UNCHANGED <<stored, issue, synced, reader, user, edits, late, lost, raced>>
      BY <2>9, <2>t, FaultTyped DEF ClearAfter, Steps
    <3>2. IssuesTypeOK'
      <4>1. closing' \in [Closings -> Closing]
        BY <2>t, <3>1, EndsThere
      <4>2. cache' \in [held : BOOLEAN, missed : BOOLEAN, excused : BOOLEAN]
        <5>1. /\ NoList \in [held : BOOLEAN, missed : BOOLEAN, excused : BOOLEAN]
              /\ cache \in [held : BOOLEAN, missed : BOOLEAN, excused : BOOLEAN]
          BY <2>t DEF IssuesTypeOK, NoList
        <5>2. [cache EXCEPT !.excused = cache.held]
                \in [held : BOOLEAN, missed : BOOLEAN, excused : BOOLEAN]
          BY <5>1
        <5> QED
          BY <3>1, <5>1, <5>2
      <4> QED
        BY <2>t, <3>1, <4>1, <4>2 DEF IssuesTypeOK, Closing, Steps
    <3>3. FlagInv'
      <4>1. closing'[c].at = "ended" /\ closing'[c].pr = closing[c].pr
            /\ \A d \in Closings \ {c} : closing'[d] = closing[d]
        BY <2>t, <3>1, EndsThere
      <4>2. Accounted' /\ TodoDone'
        BY <2>t, <3>1, <4>1 DEF FlagInv, Accounted, TodoDone, Filed, Working
      <4>3. SyncedRead' /\ SyncedMeansFiled'
        BY <2>t, <3>1, <4>1 DEF FlagInv, SyncedRead, SyncedMeansFiled, Filed
      <4> QED
        BY <4>2, <4>3 DEF FlagInv
    <3>4. ListInv'
      BY <2>t, <3>1 DEF IssuesTypeOK, ListInv, MissedHeld, StaleListExplained, NoList
    <3>5. OpenInv'
      BY <3>1, ClosingKeepsOpen
    <3> QED
      BY <3>2, <3>3, <3>4, <3>5 DEF IssuesInv
  <2>10. ASSUME NEW c \in Closings, Crash(c) PROVE IssuesInv'
    <3>1. /\ closing[c].at # "waiting" /\ "dead" \in Steps /\ Goes(c, "dead", {}, {})
          /\ faults' \in 0..MaxFaults
          /\ UNCHANGED <<stored, issue, synced, cache, reader, user, edits, late, lost, raced>>
      BY <2>10, <2>t, FaultTyped DEF Crash, Steps
    <3>2. IssuesTypeOK'
      <4>1. closing' \in [Closings -> Closing]
        BY <2>t, <3>1, EndsThere
      <4> QED
        BY <2>t, <3>1, <4>1 DEF IssuesTypeOK, Closing, Steps
    <3>3. FlagInv'
      <4>1. closing'[c].at = "dead" /\ closing'[c].pr = closing[c].pr
            /\ \A d \in Closings \ {c} : closing'[d] = closing[d]
        BY <2>t, <3>1, EndsThere
      <4>2. Accounted' /\ TodoDone'
        BY <2>t, <3>1, <4>1 DEF FlagInv, Accounted, TodoDone, Filed, Working
      <4>3. SyncedRead' /\ SyncedMeansFiled'
        BY <2>t, <3>1, <4>1 DEF FlagInv, SyncedRead, SyncedMeansFiled, Filed
      <4> QED
        BY <4>2, <4>3 DEF FlagInv
    <3>4. ListInv'
      BY <2>t, <3>1, ClosingKeepsList DEF ListInv, MissedHeld
    <3>5. OpenInv'
      BY <3>1, ClosingKeepsOpen
    <3> QED
      BY <3>2, <3>3, <3>4, <3>5 DEF IssuesInv
  <2>11. ASSUME NEW u \in Users, ClearBefore(u) PROVE IssuesInv'
    <3>0. PICK i \in ExistingIssues : user' = [user EXCEPT ![u] = [at |-> "writing", issue |-> {i}]]
      BY <2>11 DEF ClearBefore
    <3>1. /\ edits' \in 0..MaxEdits /\ cache' = NoList /\ i \in Issues /\ issue[i] # "none"
          /\ UNCHANGED <<stored, issue, closing, synced, reader, faults, late, lost, raced>>
      BY <2>11, <2>t, Bounds DEF ClearBefore, IssuesTypeOK, ExistingIssues
    <3>2. IssuesTypeOK'
      BY <2>t, <3>0, <3>1 DEF IssuesTypeOK, NoList
    <3>3. FlagInv' /\ OwnIssues' /\ OpenKnown'
      BY <3>1, OthersKeep
    <3>4. ListInv'
      BY <3>1 DEF ListInv, MissedHeld, StaleListExplained, NoList
    <3>5. UsersKnow'
      BY <2>t, <3>0, <3>1 DEF IssuesTypeOK, OpenInv, UsersKnow
    <3> QED
      BY <3>2, <3>3, <3>4, <3>5 DEF IssuesInv, OpenInv
  <2>12. ASSUME NEW u \in Users, WriteStatus(u) PROVE IssuesInv'
    <3>0. PICK status \in Status : SetStatus(user[u].issue, status, {}, TRUE)
      BY <2>12 DEF WriteStatus
    <3>1. /\ user[u].issue \in SUBSET Issues /\ status # "none"
          /\ user' = [user EXCEPT ![u] = NoEdit]
          /\ UNCHANGED <<stored, closing, synced, edits, faults, late, lost>>
      BY <2>12, <2>t DEF WriteStatus, IssuesTypeOK, Status
    <3>2. /\ issue' \in [Issues -> Status \cup {"none"}]
          /\ \A i \in user[u].issue : issue'[i] = status
          /\ \A i \in Issues \ user[u].issue : issue'[i] = issue[i]
          /\ cache' \in [held : BOOLEAN, missed : BOOLEAN, excused : BOOLEAN]
          /\ cache'.held = cache.held
          /\ cache'.missed = (cache.missed \/ cache.held)
          /\ cache'.excused = (cache.excused \/ cache.held)
          /\ reader' \in [Readers -> [at : {"idle", "loaded"}, missed : BOOLEAN]]
          /\ raced \subseteq raced' /\ raced' \subseteq Issues
          /\ \A i \in user[u].issue, c \in Closings : i \in closing[c].open => i \in raced'
      <4>1. {} \in SUBSET Closings /\ TRUE \in BOOLEAN /\ Closings \ {} = Closings
        OBVIOUS
      <4> QED
        BY <2>t, <3>0, <3>1, <4>1, StatusSet
    <3>3. IssuesTypeOK'
      BY <2>t, <3>1, <3>2 DEF IssuesTypeOK, NoEdit
    <3>4. FlagInv'
      <4>1. \A s \in Suggestions : Filed(s) => Filed(s)'
        BY <3>1, <3>2, StaysFiled
      <4>2. stored \subseteq Suggestions
        BY <2>t DEF IssuesTypeOK
      <4> QED
        BY <2>t, <3>1, <4>1, <4>2 DEF FlagInv, Accounted, TodoDone, SyncedRead, SyncedMeansFiled
    <3>5. ListInv'
      BY <2>t, <3>1, <3>2 DEF ListInv, MissedHeld, StaleListExplained
    <3>6. OwnIssues'
      <4> SUFFICES ASSUME NEW c \in Closings, NEW s \in Suggestions,
                          closing[c].at \in {"waiting", "merging"} \/ s \in closing[c].todo
                   PROVE  issue'[<<c, s>>] = "none"
        BY <3>1 DEF OwnIssues
      <4>1. <<c, s>> \in Issues /\ issue[<<c, s>>] = "none"
        BY <2>t DEF Issues, OpenInv, OwnIssues
      <4>2. <<c, s>> \notin user[u].issue
        BY <2>t, <4>1 DEF OpenInv, UsersKnow
      <4> QED
        BY <3>2, <4>1, <4>2
    <3>7. OpenKnown'
      <4> SUFFICES ASSUME NEW c \in Closings, NEW i \in closing[c].open
                   PROVE  issue'[i] # "none" /\ (issue'[i] = "open" \/ i \in raced')
        BY <3>1 DEF OpenKnown
      <4>1. i \in Issues /\ issue[i] # "none" /\ (issue[i] = "open" \/ i \in raced)
        BY <2>t, <2>c DEF OpenInv, OpenKnown
      <4> QED
        BY <3>1, <3>2, <4>1
    <3>8. UsersKnow'
      <4> SUFFICES ASSUME NEW v \in Users, NEW i \in user'[v].issue
                   PROVE  issue'[i] # "none"
        BY DEF UsersKnow
      <4>1. i \in user[v].issue /\ user[v].issue \subseteq Issues
        BY <2>t, <3>1 DEF IssuesTypeOK, NoEdit
      <4> QED
        BY <2>t, <3>1, <3>2, <4>1 DEF OpenInv, UsersKnow
    <3> QED
      BY <3>3, <3>4, <3>5, <3>6, <3>7, <3>8 DEF IssuesInv, OpenInv
  <2>13. ASSUME NEW r \in Readers, Load(r) \/ Store(r) PROVE IssuesInv'
    <3>0. UNCHANGED <<stored, issue, closing, synced, user, edits, faults, late, lost, raced>>
      BY <2>13 DEF Load, Store
    <3>1. FlagInv' /\ OwnIssues' /\ OpenKnown' /\ UsersKnow'
      BY <2>t, <3>0, OthersKeep DEF OpenInv, UsersKnow
    <3>2. CASE Load(r)
      BY <2>t, <3>0, <3>1, <3>2 DEF Load, IssuesInv, IssuesTypeOK, OpenInv, ListInv, MissedHeld, StaleListExplained
    <3>3. CASE Store(r)
      <4>1. /\ reader[r] \in [at : {"idle", "loaded"}, missed : BOOLEAN]
            /\ cache' = [held |-> TRUE, missed |-> reader[r].missed, excused |-> reader[r].missed]
            /\ reader' = [reader EXCEPT ![r] = Idle]
        BY <2>t, <3>3 DEF Store, IssuesTypeOK
      <4>2. IssuesTypeOK'
        BY <2>t, <3>0, <4>1 DEF IssuesTypeOK, Idle
      <4>3. ListInv'
        BY <4>1 DEF ListInv, MissedHeld, StaleListExplained
      <4> QED
        BY <3>1, <4>2, <4>3 DEF IssuesInv, OpenInv
    <3> QED
      BY <2>13, <3>2, <3>3
  <2>14. ASSUME Expire PROVE IssuesInv'
    <3>0. cache' = NoList
          /\ UNCHANGED <<stored, issue, closing, synced, reader, user, edits, faults, late, lost, raced>>
      BY <2>14 DEF Expire
    <3>1. FlagInv' /\ OwnIssues' /\ OpenKnown' /\ UsersKnow'
      BY <2>t, <3>0, OthersKeep DEF OpenInv, UsersKnow
    <3> QED
      BY <2>t, <3>0, <3>1 DEF IssuesInv, IssuesTypeOK, OpenInv, ListInv, MissedHeld, StaleListExplained, NoList
  <2>15. CASE UNCHANGED issuesVars
    <3>0. UNCHANGED <<stored, issue, closing, synced, cache, reader, user, edits, faults, late, lost, raced>>
      BY <2>15 DEF issuesVars
    <3>1. FlagInv' /\ OwnIssues' /\ OpenKnown' /\ UsersKnow'
      BY <2>t, <3>0, OthersKeep DEF OpenInv, UsersKnow
    <3> QED
      BY <2>t, <3>0, <3>1 DEF IssuesInv, IssuesTypeOK, OpenInv, ListInv, MissedHeld, StaleListExplained
  <2> QED
    BY <2>1, <2>2, <2>3, <2>4, <2>5, <2>6, <2>7, <2>8, <2>9, <2>10, <2>11, <2>12, <2>13, <2>14, <2>15
       DEF IssuesNext
<1> QED
  BY <1>1, <1>2, PTL DEF IssuesSpec

-----------------------------------------------------------------------------
(* Every variable keeps its type through every closing, edit and crash      *)
(* (kodyIssuesManagement.service.ts).                                       *)
THEOREM IssuesTyped == IssuesSpec => []IssuesTypeOK
<1>1. IssuesInv => IssuesTypeOK
  BY DEF IssuesInv
<1> QED
  BY <1>1, InvHolds, PTL

(* The flag syncedWithIssues is wrong only for the reasons named, for any   *)
(* number of closings of any pull requests (processClosedPr).               *)
THEOREM FlagHasReasons == IssuesSpec => []SyncedMeansFiled
<1>1. IssuesInv => SyncedMeansFiled
  BY DEF IssuesInv, FlagInv
<1> QED
  BY <1>1, InvHolds, PTL

(* The cached list is stale only for the reasons named, for any number of   *)
(* readers, users and closings (clearIssuesCache).                          *)
THEOREM StaleListHasReasons == IssuesSpec => []StaleListExplained
<1>1. IssuesInv => StaleListExplained
  BY DEF IssuesInv, ListInv
<1> QED
  BY <1>1, InvHolds, PTL

(* A settled issue keeps its status until a user changes it or a closing    *)
(* raced with another (resolveExistingIssues).                              *)
THEOREM SettledStays == IssuesSpec => ClosedStaysClosed
<1> DEFINE Stays == \A i \in Issues :
      issue[i] \in {"resolved", "dismissed"} /\ issue'[i] # issue[i] =>
        \/ \E u \in Users : user[u].at = "writing" /\ user'[u].at = "idle"
        \/ i \in raced
<1>1. IssuesInv /\ [IssuesNext]_issuesVars => [Stays]_issuesVars
  <2> SUFFICES ASSUME IssuesInv, IssuesNext, NEW i \in Issues,
                      issue[i] \in {"resolved", "dismissed"}, issue'[i] # issue[i]
               PROVE  \/ \E u \in Users : user[u].at = "writing" /\ user'[u].at = "idle"
                      \/ i \in raced
    BY DEF issuesVars
  <2>t. IssuesTypeOK /\ OwnIssues /\ OpenKnown
    BY DEF IssuesInv, OpenInv
  <2>1. ASSUME NEW c \in Closings, CreateIssue(c) PROVE FALSE
    <3>0. PICK s \in closing[c].todo : SetStatus({<<c, s>>}, "open", {c}, FALSE)
      BY <2>1 DEF CreateIssue
    <3>1. s \in Suggestions /\ issue[<<c, s>>] = "none"
      BY <2>t DEF IssuesTypeOK, OwnIssues
    <3>2. i # <<c, s>>
      BY <3>1
    <3> QED
      BY <3>0, <3>2 DEF SetStatus
  <2>2. ASSUME NEW c \in Closings, DismissAll(c) \/ ResolveIssue(c) PROVE i \in raced
    <3>0. i \in closing[c].open
      BY <2>2 DEF DismissAll, ResolveIssue, SetStatus
    <3> QED
      BY <2>t, <3>0 DEF OpenKnown
  <2>3. ASSUME NEW u \in Users, WriteStatus(u)
        PROVE  user[u].at = "writing" /\ user'[u].at = "idle"
    BY <2>3, <2>t DEF WriteStatus, IssuesTypeOK, NoEdit
  <2>4. ASSUME NEW s \in Suggestions, StoreSuggestion(s) PROVE FALSE
    BY <2>4 DEF StoreSuggestion
  <2>5. ASSUME NEW c \in Closings,
               \/ ReadPr(c) \/ MergeSuggestions(c) \/ CreateFails(c) \/ FindOpen(c)
               \/ ResolvingEnds(c) \/ SetFlag(c) \/ ClearAfter(c) \/ Crash(c)
        PROVE  FALSE
    BY <2>5 DEF ReadPr, MergeSuggestions, CreateFails, FindOpen, ResolvingEnds, SetFlag, ClearAfter, Crash
  <2>6. ASSUME NEW u \in Users, ClearBefore(u) PROVE FALSE
    BY <2>6 DEF ClearBefore
  <2>7. ASSUME NEW r \in Readers, Load(r) \/ Store(r) PROVE FALSE
    BY <2>7 DEF Load, Store
  <2>8. ~Expire
    BY DEF Expire
  <2> QED
    BY <2>1, <2>2, <2>3, <2>4, <2>5, <2>6, <2>7, <2>8 DEF IssuesNext
<1> QED
  BY <1>1, InvHolds, PTL DEF IssuesSpec, ClosedStaysClosed
=============================================================================
