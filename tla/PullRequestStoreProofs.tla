------------------------ MODULE PullRequestStoreProofs ------------------------
(***************************************************************************)
(* What the stored record of a pull request promises, for any number of    *)
(* commits, files, webhooks and faults.                                    *)
(***************************************************************************)
EXTENDS PullRequestStore, SequenceLemmas, WellFoundedInduction

-----------------------------------------------------------------------------
(* Types.                                                                   *)
HookRecords == [kind : {"created", "updated", "fulfilled", "any"},
                at : {"sent", "checking", "saving", "ended"},
                commits : Nat, trigger : BOOLEAN]
ReviewRecords == [at : {"none", "started", "noting", "writing", "ended"}, seen : Nat,
                  path : SUBSET Paths, read : SUBSET Hooks, noted : BOOLEAN]
SaveRecords == [at : {"idle", "fetching", "finding", "creating", "updating",
                      "filing", "writing", "saved"},
                commits : Nat, todo : SUBSET Paths, path : SUBSET Paths, doc : Nat]
FileRecords == [path : Paths, suggestions : SUBSET Hooks]
DocRecords == [status : {"closed", "opened"}, commits : Nat, files : Seq(FileRecords),
               general : SUBSET Hooks]

StoreTypeOK ==
  /\ head \in 1..Len(FilesAt) /\ merged \in BOOLEAN
  /\ hook \in Seq(HookRecords) /\ Len(hook) <= MaxHooks
  /\ review \in [Hooks -> ReviewRecords]
  /\ save \in [Savers -> SaveRecords]
  /\ docs \in Seq(DocRecords)
  /\ faults \in Nat /\ blind \subseteq Nat /\ overlapped \subseteq Hooks

(* The newest commit has been looked at, or will be by a review that is due *)
(* or has started, or has been stored blindly.                              *)
LookedAt ==
  \/ \E n \in Hooks : review[n].seen = head
  \/ head \in blind
  \/ \E n \in DOMAIN hook : hook[n].at = "saving" /\ hook[n].trigger
  \/ \E n \in Hooks : review[n].at = "started"

(* Some webhook is still to decide about the newest commit.                 *)
Undecided ==
  \E n \in DOMAIN hook :
    \/ hook[n].at = "sent" /\ hook[n].kind \in {"created", "updated"}
    \/ hook[n].at = "checking" /\ hook[n].commits = head

(* Whoever finds the newest commit stored is right that it is taken care of. *)
PushInv ==
  /\ ~merged => LookedAt \/ Undecided
  /\ \A i \in DOMAIN docs : docs[i].commits <= head /\ (docs[i].commits = head => LookedAt)
  /\ \A n \in DOMAIN hook :
       hook[n].at = "saving" /\ ~hook[n].trigger /\ hook[n].commits = head => LookedAt

(* A webhook saves while it is being handled, and starts its review at its  *)
(* end; a review saves when it is at its own end.                           *)
Saving == {"fetching", "finding", "creating", "updating", "filing", "writing"}

PhaseInv(n) ==
  /\ save[<<"hook", n>>].at \in Saving => n \in DOMAIN hook /\ hook[n].at = "saving"
  /\ n \notin DOMAIN hook \/ hook[n].at # "ended" => review[n].at = "none"
  /\ review[n].at # "ended" => save[<<"review", n>>].at = "idle"
  /\ n \in DOMAIN hook => hook[n].commits <= head
  /\ n \in DOMAIN hook /\ hook[n].at \in {"sent", "saving"} /\ hook[n].kind # "updated" =>
       hook[n].commits = 0
  /\ n \in DOMAIN hook /\ hook[n].at = "checking" => hook[n].kind = "updated"
  /\ review[n].seen <= head

SaveInv(c) ==
  /\ save[c].at \in {"updating", "filing", "writing"} => docs # <<>>
  /\ IsFiniteSet(save[c].todo)
  /\ save[c].commits <= head

(* The suggestion of a review for a file is where readers look for it, or   *)
(* there are two records.                                                   *)
Found(n) ==
  /\ docs # <<>>
  /\ \/ \E i \in DOMAIN docs[1].files : n \in docs[1].files[i].suggestions
     \/ Len(docs) > 1

(* How far a save has come with the file p that has a suggestion.           *)
Ahead(n, p) ==
  LET s == save[<<"review", n>>]
  IN  \/ s.at = "fetching" /\ review[n].seen \in DOMAIN FilesAt /\ p \in FilesAt[review[n].seen]
      \/ s.at \in {"finding", "creating", "updating", "filing", "writing"} /\ p \in s.todo
      \/ s.at \in {"filing", "writing"} /\ Found(n)
      \/ /\ s.at = "writing" /\ s.path = {p}
         /\ s.doc # 0 => s.doc \in DOMAIN docs /\ HasPath(docs[s.doc], p)

FoundInv(n) ==
  /\ save[<<"review", n>>].at \in Saving =>
       \E p \in Paths : review[n].path = {p} /\ Ahead(n, p)
  /\ review[n].at \in {"noting", "writing"} =>
       /\ review[n].seen \in DOMAIN FilesAt
       /\ review[n].path = {} \/ \E p \in FilesAt[review[n].seen] : review[n].path = {p}
  /\ save[<<"review", n>>].at = "saved" => Found(n)

NotedInv(n) ==
  /\ review[n].at = "writing" => docs # <<>>
  /\ review[n].noted => docs # <<>> /\ n \in docs[1].general \cup overlapped

LocalInv(n) ==
  /\ PhaseInv(n) /\ FoundInv(n) /\ NotedInv(n)
  /\ SaveInv(<<"hook", n>>) /\ SaveInv(<<"review", n>>)

StoreInv == StoreTypeOK /\ PushInv /\ \A n \in Hooks : LocalInv(n)

-----------------------------------------------------------------------------
(* Data.  A set of numbers has a least one.                                 *)
LEMMA LeastNumber ==
  ASSUME NEW T, T \subseteq Nat, T # {}
  PROVE  \E m \in T : \A k \in T : m <= k
<1> DEFINE R == {ss \in Nat \X Nat : ss[1] < ss[2]}
<1>1. IsWellFoundedOn(R, Nat)
  BY NatLessThanWellFounded, Zenon DEF OpToRel
<1> HIDE DEF R
<1>2. PICK m \in T : \A k \in T : ~(<<k, m>> \in R)
  BY <1>1, WFMin
<1>3. ASSUME NEW k \in T
      PROVE  m <= k
  <2>1. ~(<<k, m>> \in R) /\ k \in Nat /\ m \in Nat
    BY <1>2
  <2>2. ~(k < m)
    BY <2>1 DEF R
  <2> QED
    BY <2>1, <2>2
<1> QED
  BY <1>3

LEMMA SaverFacts ==
  /\ \A c \in Savers : c[1] \in {"hook", "review"} /\ c[2] \in Hooks /\ c = <<c[1], c[2]>>
  /\ \A n \in Hooks : <<"hook", n>> \in Savers /\ <<"review", n>> \in Savers
  /\ \A n, m : <<"hook", n>> # <<"review", m>>
  /\ \A n, m, k : <<k, n>> = <<k, m>> => n = m
BY DEF Savers

(* A file that was found is in the record it was found in.                  *)
LEMMA DocWithEffect ==
  ASSUME StoreTypeOK, NEW path
  PROVE  /\ DocWith(path) \in Nat
         /\ DocWith(path) # 0 => DocWith(path) \in DOMAIN docs /\ HasPath(docs[DocWith(path)], path)
<1>1. CASE \E d \in DOMAIN docs : HasPath(docs[d], path)
  <2> DEFINE T == {d \in DOMAIN docs : HasPath(docs[d], path)}
  <2>1. T \subseteq Nat /\ T # {} /\ DOMAIN docs \subseteq Nat
    BY <1>1, SeqFacts DEF StoreTypeOK
  <2>2. PICK m \in T : \A k \in T : m <= k
    BY <2>1, LeastNumber
  <2>3. \E d \in DOMAIN docs :
          /\ HasPath(docs[d], path)
          /\ \A e \in DOMAIN docs : HasPath(docs[e], path) => d <= e
    BY <2>2
  <2> QED
    BY <1>1, <2>1, <2>3 DEF DocWith
<1>2. CASE ~ \E d \in DOMAIN docs : HasPath(docs[d], path)
  BY <1>2 DEF DocWith
<1> QED
  BY <1>1, <1>2

LEMMA FirstOfEffect ==
  ASSUME NEW files \in Seq(FileRecords), NEW path, \E i \in DOMAIN files : files[i].path = path
  PROVE  FirstOf(files, path) \in DOMAIN files
<1> DEFINE T == {i \in DOMAIN files : files[i].path = path}
<1>1. T \subseteq Nat /\ T # {}
  BY SeqFacts
<1>2. PICK m \in T : \A k \in T : m <= k
  BY <1>1, LeastNumber
<1>3. \E i \in DOMAIN files :
        files[i].path = path /\ \A j \in DOMAIN files : files[j].path = path => i <= j
  BY <1>2
<1> QED
  BY <1>3 DEF FirstOf

(* The files of a record that is created.                                   *)
LEMMA NewFiles ==
  ASSUME NEW c \in Savers, StoreTypeOK, IsFiniteSet(save[c].todo)
  PROVE  LET all == {File(c, p) : p \in save[c].todo} IN
         /\ SetToSeq(all) \in Seq(FileRecords)
         /\ \A p \in save[c].todo :
              \E i \in DOMAIN SetToSeq(all) : SetToSeq(all)[i] = File(c, p)
<1> DEFINE todo == save[c].todo
           all  == {File(c, p) : p \in todo}
           f    == [p \in todo |-> File(c, p)]
<1>1. todo \subseteq Paths /\ c[2] \in Hooks
  BY SaverFacts DEF StoreTypeOK, SaveRecords
<1> HIDE DEF todo
<1>2. \A p \in todo : File(c, p) \in FileRecords
  BY <1>1 DEF File, SuggestionsFor, FileRecords
<1>3. IsFiniteSet(all)
  <2>1. f \in [todo -> all] /\ \A t \in all : \E p \in todo : f[p] = t
    OBVIOUS
  <2> HIDE DEF f, all
  <2>2. f \in Surjection(todo, all)
    BY <2>1 DEF Surjection
  <2> QED
    BY <2>2, FS_Surjection DEF todo
<1>4. all \subseteq FileRecords
  BY <1>2
<1>5. SetToSeq(all) \in Seq(all) /\ ToSet(SetToSeq(all)) = all
  BY <1>3, SetAsSequence
<1>6. \A p \in todo : File(c, p) \in all
  OBVIOUS
<1> HIDE DEF all
<1>7. SetToSeq(all) \in Seq(FileRecords)
  BY <1>4, <1>5
<1>8. \A p \in todo : \E i \in DOMAIN SetToSeq(all) : SetToSeq(all)[i] = File(c, p)
  BY <1>5, <1>6 DEF ToSet
<1> QED
  BY <1>7, <1>8 DEF all, todo

-----------------------------------------------------------------------------
(* What the steps have in common.  Records are never taken back, nor what   *)
(* has been found in them.                                                  *)
DocsGrow ==
  /\ docs # <<>> =>
       /\ docs' # <<>>
       /\ docs[1].general \cup overlapped \subseteq docs'[1].general \cup overlapped'
  /\ \A d \in DOMAIN docs :
       d \in DOMAIN docs' /\ \A p \in Paths : HasPath(docs[d], p) => HasPath(docs'[d], p)
  /\ \A n \in Hooks : Found(n) => Found(n)'

LEMMA SameDocsGrow ==
  ASSUME docs' = docs, overlapped \subseteq overlapped'
  PROVE  DocsGrow
BY DEF DocsGrow, Found

LEMMA AheadStays ==
  ASSUME DocsGrow, NEW n \in Hooks, NEW p \in Paths, Ahead(n, p),
         review'[n].seen = review[n].seen,
         save'[<<"review", n>>] = save[<<"review", n>>]
  PROVE  Ahead(n, p)'
<1> DEFINE s == save[<<"review", n>>]
<1>1. CASE s.at = "fetching" /\ review[n].seen \in DOMAIN FilesAt /\ p \in FilesAt[review[n].seen]
  BY <1>1 DEF Ahead
<1>2. CASE s.at \in {"finding", "creating", "updating", "filing", "writing"} /\ p \in s.todo
  BY <1>2 DEF Ahead
<1>3. CASE s.at \in {"filing", "writing"} /\ Found(n)
  <2>1. Found(n)'
    BY <1>3 DEF DocsGrow
  <2> QED
    BY <1>3, <2>1 DEF Ahead
<1>4. CASE /\ s.at = "writing" /\ s.path = {p}
           /\ s.doc # 0 => s.doc \in DOMAIN docs /\ HasPath(docs[s.doc], p)
  <2>1. s.doc # 0 => s.doc \in DOMAIN docs' /\ HasPath(docs'[s.doc], p)
    BY <1>4 DEF DocsGrow
  <2>2. HasPath(docs'[s.doc], p) => HasPath(docs[s.doc], p)'
    BY DEF HasPath
  <2> QED
    BY <1>4, <2>1 DEF Ahead, HasPath
<1> QED
  BY <1>1, <1>2, <1>3, <1>4 DEF Ahead

LEMMA FoundStays ==
  ASSUME DocsGrow, NEW n \in Hooks, FoundInv(n),
         review'[n].seen = review[n].seen, review'[n].path = review[n].path,
         review'[n].at \in {"noting", "writing"} => review'[n].at = review[n].at,
         save'[<<"review", n>>] = save[<<"review", n>>]
  PROVE  FoundInv(n)'
<1>1. save[<<"review", n>>].at \in Saving =>
        \E p \in Paths : review[n].path = {p} /\ Ahead(n, p)'
  BY AheadStays DEF FoundInv
<1>2. Found(n) => Found(n)'
  BY DEF DocsGrow
<1> QED
  BY <1>1, <1>2 DEF FoundInv

(* What a step does not touch stays as it is.                               *)
LEMMA LocalStays ==
  ASSUME StoreTypeOK, head' \in Nat, head <= head', DocsGrow, NEW n \in Hooks, LocalInv(n),
         n \in DOMAIN hook' <=> n \in DOMAIN hook,
         n \in DOMAIN hook => hook'[n] = hook[n],
         review'[n] = review[n],
         save'[<<"hook", n>>] = save[<<"hook", n>>],
         save'[<<"review", n>>] = save[<<"review", n>>]
  PROVE  LocalInv(n)'
<1>1. head \in Nat /\ review[n].seen \in Nat /\ (n \in DOMAIN hook => hook[n].commits \in Nat)
      /\ save[<<"hook", n>>].commits \in Nat /\ save[<<"review", n>>].commits \in Nat
  <2>1. review[n] \in ReviewRecords /\ save[<<"hook", n>>] \in SaveRecords
        /\ save[<<"review", n>>] \in SaveRecords
        /\ (n \in DOMAIN hook => hook[n] \in HookRecords)
    BY SaverFacts, SeqFacts DEF StoreTypeOK
  <2> QED
    BY <2>1, StoreAssumption DEF ReviewRecords, SaveRecords, HookRecords, StoreTypeOK
<1>2. PhaseInv(n)'
  BY <1>1 DEF LocalInv, PhaseInv
<1>3. docs # <<>> => docs' # <<>>
  BY DEF DocsGrow
<1>4. SaveInv(<<"hook", n>>)' /\ SaveInv(<<"review", n>>)'
  BY <1>1, <1>3 DEF LocalInv, SaveInv
<1>5. NotedInv(n)'
  BY DEF LocalInv, NotedInv, DocsGrow
<1>6. FoundInv(n)'
  BY FoundStays DEF LocalInv
<1> QED
  BY <1>2, <1>4, <1>5, <1>6 DEF LocalInv

LEMMA StateFacts ==
  ASSUME StoreTypeOK
  PROVE  /\ head \in Nat /\ head >= 1 /\ head \in DOMAIN FilesAt
         /\ Len(hook) \in Nat /\ DOMAIN hook = 1..Len(hook)
         /\ \A n \in DOMAIN hook : n \in Hooks /\ hook[n] \in HookRecords
         /\ \A n \in Hooks : review[n] \in ReviewRecords
         /\ \A c \in Savers : save[c] \in SaveRecords
         /\ \A n \in Hooks : save[<<"hook", n>>] \in SaveRecords /\ save[<<"review", n>>] \in SaveRecords
         /\ DOMAIN docs = 1..Len(docs) /\ Len(docs) \in Nat
         /\ \A i \in DOMAIN docs : docs[i] \in DocRecords
         /\ \A h \in DOMAIN FilesAt : IsFiniteSet(FilesAt[h]) /\ FilesAt[h] \subseteq Paths
<1>1. Len(hook) \in Nat /\ DOMAIN hook = 1..Len(hook) /\ \A n \in 1..Len(hook) : hook[n] \in HookRecords
  BY SeqFacts DEF StoreTypeOK
<1>2. \A n \in DOMAIN hook : n \in Hooks
  BY <1>1, StoreAssumption DEF StoreTypeOK, Hooks
<1>3. DOMAIN docs = 1..Len(docs) /\ Len(docs) \in Nat /\ \A i \in 1..Len(docs) : docs[i] \in DocRecords
  BY SeqFacts DEF StoreTypeOK
<1>4. head \in Nat /\ head >= 1 /\ head \in DOMAIN FilesAt
  BY StoreAssumption DEF StoreTypeOK
<1>5. \A h \in DOMAIN FilesAt : IsFiniteSet(FilesAt[h]) /\ FilesAt[h] \subseteq Paths
  BY StoreAssumption DEF Paths
<1>6. /\ \A n \in Hooks : review[n] \in ReviewRecords
      /\ \A c \in Savers : save[c] \in SaveRecords
  BY DEF StoreTypeOK
<1> QED
  BY <1>1, <1>2, <1>3, <1>4, <1>5, <1>6, SaverFacts

LEMMA LookedAtStays ==
  ASSUME StoreTypeOK, head' = head, blind \subseteq blind',
         \A n \in Hooks : review[n].seen = head => review'[n].seen = head,
         \A n \in Hooks : review[n].at = "started" =>
           review'[n].at = "started" \/ review'[n].seen = head,
         \A n \in DOMAIN hook : hook[n].at = "saving" /\ hook[n].trigger =>
           \/ n \in DOMAIN hook' /\ hook'[n].at = "saving" /\ hook'[n].trigger
           \/ review'[n].at = "started"
  PROVE  LookedAt => LookedAt'
<1>1. \A n \in DOMAIN hook : n \in Hooks
  BY StateFacts
<1> QED
  BY <1>1 DEF LookedAt

LEMMA PushStays ==
  ASSUME PushInv, head' = head, merged => merged', LookedAt => LookedAt',
         Undecided => Undecided' \/ LookedAt',
         \A i \in DOMAIN docs' :
           /\ docs'[i].commits <= head
           /\ docs'[i].commits = head =>
                LookedAt' \/ (i \in DOMAIN docs /\ docs[i].commits = head),
         \A n \in DOMAIN hook' :
           hook'[n].at = "saving" /\ ~hook'[n].trigger /\ hook'[n].commits = head =>
             \/ LookedAt'
             \/ /\ n \in DOMAIN hook /\ hook[n].at = "saving"
                /\ ~hook[n].trigger /\ hook[n].commits = head
  PROVE  PushInv'
<1>1. ~merged' => LookedAt' \/ Undecided'
  BY DEF PushInv
<1>2. \A i \in DOMAIN docs' : docs'[i].commits <= head' /\ (docs'[i].commits = head' => LookedAt')
  BY DEF PushInv
<1>3. \A n \in DOMAIN hook' :
        hook'[n].at = "saving" /\ ~hook'[n].trigger /\ hook'[n].commits = head' => LookedAt'
  BY DEF PushInv
<1> QED
  BY <1>1, <1>2, <1>3 DEF PushInv

-----------------------------------------------------------------------------
(* The platform.                                                            *)
LEMMA PlatformKeepsInv ==
  ASSUME StoreInv, Push \/ Edit \/ Merge
  PROVE  StoreInv'
<1> USE DEF StoreInv
<1> DEFINE new(kind) == [kind |-> kind, at |-> "sent", commits |-> 0, trigger |-> FALSE]
           k == Len(hook) + 1
<1>1. PICK kind \in {"updated", "fulfilled"} :
        /\ Len(hook) < MaxHooks /\ hook' = Append(hook, new(kind))
        /\ UNCHANGED <<review, save, docs, faults, blind, overlapped>>
        /\ kind = "fulfilled" => merged'
        /\ merged \in BOOLEAN /\ merged' \in BOOLEAN /\ (merged => merged')
        /\ head' \in 1..Len(FilesAt) /\ head <= head' /\ (kind = "fulfilled" => head' = head)
  <2>1. head \in 1..Len(FilesAt) /\ Len(FilesAt) \in Nat /\ merged \in BOOLEAN /\ head \in Nat
    BY StateFacts, StoreAssumption DEF StoreTypeOK
  <2>2. CASE Push
    <3>1. Send("updated") /\ head' = head + 1 /\ head < Len(FilesAt) /\ merged' = merged
      BY <2>2 DEF Push
    <3> QED
      BY <2>1, <3>1 DEF Send
  <2>3. CASE Edit
    <3>1. Send("updated") /\ head' = head /\ merged' = merged
      BY <2>3 DEF Edit
    <3> QED
      BY <2>1, <3>1 DEF Send
  <2>4. CASE Merge
    <3>1. Send("fulfilled") /\ head' = head /\ merged' = TRUE
      BY <2>4 DEF Merge
    <3> QED
      BY <2>1, <3>1 DEF Send
  <2> QED
    BY <2>2, <2>3, <2>4
<1>2. /\ hook \in Seq(HookRecords) /\ new(kind) \in HookRecords /\ MaxHooks \in Nat
      /\ Len(hook) \in Nat /\ DOMAIN hook = 1..Len(hook)
  BY StateFacts, StoreAssumption DEF HookRecords, StoreTypeOK
<1> HIDE DEF new
<1>3. /\ hook' \in Seq(HookRecords) /\ Len(hook') = Len(hook) + 1 /\ Len(hook') <= MaxHooks
      /\ DOMAIN hook' = 1..(Len(hook) + 1) /\ hook'[k] = new(kind)
      /\ \A n \in DOMAIN hook : n \in DOMAIN hook' /\ hook'[n] = hook[n]
      /\ k \notin DOMAIN hook /\ k \in Hooks
  BY <1>1, <1>2 DEF Hooks
<1>4. /\ hook'[k].kind = kind /\ hook'[k].at = "sent" /\ hook'[k].commits = 0
  BY <1>3 DEF new
<1> HIDE DEF k
<1>5. StoreTypeOK'
  BY <1>1, <1>3 DEF StoreTypeOK
<1>6. head \in Nat /\ head' \in Nat /\ DocsGrow
  BY <1>1, StateFacts, StoreAssumption, SameDocsGrow
<1>7. ASSUME NEW n \in Hooks
      PROVE  LocalInv(n)'
  <2>1. CASE n # k
    <3>1. n \in DOMAIN hook' <=> n \in DOMAIN hook
      BY <1>2, <1>3, <2>1 DEF k, Hooks
    <3> QED
      BY <1>1, <1>3, <1>6, <3>1, LocalStays
  <2>2. CASE n = k
    <3>1. n \in DOMAIN hook' /\ hook'[n].at = "sent" /\ hook'[n].commits = 0 /\ n \notin DOMAIN hook
      BY <1>3, <1>4, <2>2 DEF k
    <3>2. review[n].at = "none" /\ save[<<"hook", n>>].at \notin Saving /\ review[n].seen <= head
      BY <3>1 DEF LocalInv, PhaseInv
    <3>3. review[n].seen \in Nat
      BY StateFacts DEF ReviewRecords
    <3>4. PhaseInv(n)'
      BY <1>1, <1>6, <3>1, <3>2, <3>3 DEF LocalInv, PhaseInv
    <3>5. FoundInv(n)' /\ NotedInv(n)'
      BY <1>1, <1>6, FoundStays DEF LocalInv, NotedInv
    <3>6. save[<<"hook", n>>].commits \in Nat /\ save[<<"review", n>>].commits \in Nat
      BY StateFacts DEF SaveRecords
    <3>7. SaveInv(<<"hook", n>>)' /\ SaveInv(<<"review", n>>)'
      BY <1>1, <1>6, <3>6 DEF LocalInv, SaveInv
    <3> QED
      BY <3>4, <3>5, <3>7 DEF LocalInv
  <2> QED
    BY <2>1, <2>2
<1>8. PushInv'
  <2>1. CASE head' = head
    <3>1. LookedAt => LookedAt'
      BY <1>1, <1>3, <2>1, LookedAtStays
    <3>2. Undecided => Undecided'
      BY <1>3, <2>1 DEF Undecided
    <3>3. \A i \in DOMAIN docs' : docs'[i].commits <= head
      BY <1>1 DEF PushInv
    <3>4. \A n \in DOMAIN hook' : n \in DOMAIN hook \/ hook'[n].at = "sent"
      BY <1>2, <1>3, <1>4 DEF k
    <3> QED
      BY <1>1, <1>3, <2>1, <3>1, <3>2, <3>3, <3>4, PushStays
  <2>2. CASE head < head'
    <3>1. Undecided'
      BY <1>1, <1>3, <1>4, <1>6, <2>2 DEF Undecided, k
    <3>2. \A i \in DOMAIN docs' : docs'[i].commits <= head' /\ docs'[i].commits # head'
      <4>1. \A i \in DOMAIN docs : docs[i].commits \in Nat /\ docs[i].commits <= head
        BY StateFacts DEF PushInv, DocRecords
      <4> QED
        BY <1>1, <1>6, <2>2, <4>1
    <3>3. \A n \in DOMAIN hook' : hook'[n].commits # head'
      <4>1. \A n \in DOMAIN hook : hook[n].commits \in Nat /\ hook[n].commits <= head
        BY StateFacts DEF HookRecords, LocalInv, PhaseInv
      <4>2. ASSUME NEW n \in DOMAIN hook'
            PROVE  n \in DOMAIN hook \/ n = k
        BY <1>2, <1>3 DEF k
      <4> QED
        BY <1>3, <1>4, <1>6, <2>2, <4>1, <4>2
    <3> QED
      BY <3>1, <3>2, <3>3 DEF PushInv
  <2> QED
    BY <1>1, <1>6, <2>1, <2>2
<1> QED
  BY <1>5, <1>7, <1>8

-----------------------------------------------------------------------------
(* The webhooks.                                                            *)
LEMMA FetchCommitsKeepsInv ==
  ASSUME StoreInv, NEW n \in DOMAIN hook, FetchCommits(n)
  PROVE  StoreInv'
<1> USE DEF StoreInv
<1>1. /\ hook[n].at = "sent" /\ hook[n].kind = "updated"
      /\ hook' = [hook EXCEPT ![n].at = "checking", ![n].commits = head]
      /\ UNCHANGED <<head, merged, review, save, docs, faults, blind, overlapped>>
  BY DEF FetchCommits
<1>2. /\ hook \in Seq(HookRecords) /\ head \in Nat /\ n \in Hooks /\ hook[n] \in HookRecords
      /\ Len(hook) \in Nat /\ DOMAIN hook = 1..Len(hook)
  BY StateFacts DEF StoreTypeOK
<1>3. /\ hook'[n].at = "checking" /\ hook'[n].commits = head /\ hook'[n] \in HookRecords
      /\ \A m \in DOMAIN hook \ {n} : hook'[m] = hook[m]
      /\ DOMAIN hook' = DOMAIN hook
  BY <1>1, <1>2 DEF HookRecords
<1>4. hook' \in Seq(HookRecords) /\ Len(hook') = Len(hook)
  <2>1. hook' \in [1..Len(hook) -> HookRecords]
    <3>1. hook' = [m \in 1..Len(hook) |-> hook'[m]]
      BY <1>1, <1>2
    <3>2. \A m \in 1..Len(hook) : hook'[m] \in HookRecords
      BY <1>2, <1>3, StateFacts
    <3> QED
      BY <3>1, <3>2
  <2> QED
    BY <1>2, <2>1
<1>5. StoreTypeOK' /\ DocsGrow
  BY <1>1, <1>4, SameDocsGrow DEF StoreTypeOK
<1>6. ASSUME NEW m \in Hooks
      PROVE  LocalInv(m)'
  <2>1. CASE m # n
    BY <1>1, <1>2, <1>3, <1>5, <2>1, LocalStays
  <2>2. CASE m = n
    <3>1. /\ m \in DOMAIN hook' /\ hook'[m].at = "checking" /\ hook'[m].commits = head
          /\ hook[m].at = "sent" /\ m \in DOMAIN hook
      BY <1>1, <1>3, <2>2
    <3>2. PhaseInv(m)'
      BY <1>1, <1>2, <3>1 DEF LocalInv, PhaseInv
    <3>3. FoundInv(m)' /\ NotedInv(m)'
      BY <1>1, <1>5, FoundStays DEF LocalInv, NotedInv
    <3>4. SaveInv(<<"hook", m>>)' /\ SaveInv(<<"review", m>>)'
      BY <1>1 DEF LocalInv, SaveInv
    <3> QED
      BY <3>2, <3>3, <3>4 DEF LocalInv
  <2> QED
    BY <2>1, <2>2
<1>7. PushInv'
  <2>1. LookedAt => LookedAt'
    BY <1>1, <1>3, LookedAtStays
  <2>2. Undecided => Undecided'
    <3>1. Undecided'
      BY <1>1, <1>3 DEF Undecided
    <3> QED
      BY <3>1
  <2>3. \A i \in DOMAIN docs' : docs'[i].commits <= head
    BY <1>1 DEF PushInv
  <2>4. \A m \in DOMAIN hook' : hook'[m].at = "saving" => m # n /\ hook'[m] = hook[m]
    BY <1>3
  <2> QED
    BY <1>1, <1>3, <2>1, <2>2, <2>3, <2>4, PushStays
<1> QED
  BY <1>5, <1>6, <1>7

(* A webhook that starts no review has found its newest commit stored.      *)
LEMMA DecideKeepsInv ==
  ASSUME StoreInv, NEW n \in DOMAIN hook, Decide(n)
  PROVE  StoreInv'
<1> USE DEF StoreInv
<1>1. /\ UNCHANGED <<head, merged, review, docs, blind, overlapped>>
      /\ hook[n].at \in {"sent", "checking"}
      /\ faults' \in Nat
      /\ \E trigger \in BOOLEAN :
           /\ StartsSaving(n, trigger)
           /\ ~trigger => \/ hook[n].at = "checking" /\ Known(hook[n])
                          \/ hook[n].at = "sent" /\ hook[n].kind # "created"
           /\ hook[n].at = "sent" => hook[n].kind # "updated"
  <2>1. faults \in Nat
    BY DEF StoreTypeOK
  <2>2. CASE hook[n].at = "checking" /\ StartsSaving(n, ~Known(hook[n])) /\ UNCHANGED faults
    BY <2>1, <2>2 DEF Decide, Known
  <2>3. CASE hook[n].at = "checking" /\ Fault /\ StartsSaving(n, TRUE)
    <3>1. UNCHANGED <<head, merged, review, docs, blind, overlapped>> /\ faults' \in Nat
      BY <2>1, <2>3 DEF Decide, Fault
    <3>2. TRUE \in BOOLEAN /\ StartsSaving(n, TRUE) /\ hook[n].at = "checking"
      BY <2>3
    <3> QED
      BY <3>1, <3>2
  <2>4. CASE /\ hook[n].at = "sent" /\ hook[n].kind # "updated"
             /\ StartsSaving(n, hook[n].kind = "created") /\ UNCHANGED faults
    BY <2>1, <2>4 DEF Decide
  <2> QED
    BY <2>2, <2>3, <2>4 DEF Decide
<1>2. PICK trigger \in BOOLEAN :
        /\ StartsSaving(n, trigger)
        /\ ~trigger => \/ hook[n].at = "checking" /\ Known(hook[n])
                       \/ hook[n].at = "sent" /\ hook[n].kind # "created"
        /\ hook[n].at = "sent" => hook[n].kind # "updated"
  BY <1>1
<1>3. /\ hook \in Seq(HookRecords) /\ head \in Nat /\ head >= 1 /\ n \in Hooks
      /\ hook[n] \in HookRecords /\ <<"hook", n>> \in Savers
      /\ Len(hook) \in Nat /\ DOMAIN hook = 1..Len(hook)
      /\ save \in [Savers -> SaveRecords]
  BY StateFacts, SaverFacts DEF StoreTypeOK
<1>4. /\ hook' = [hook EXCEPT ![n].at = "saving", ![n].trigger = trigger]
      /\ save' = [save EXCEPT ![<<"hook", n>>].at = "fetching"]
  BY <1>2 DEF StartsSaving
<1>5. /\ hook'[n].at = "saving" /\ hook'[n].commits = hook[n].commits /\ hook'[n].trigger = trigger
      /\ hook'[n].kind = hook[n].kind /\ hook'[n] \in HookRecords
      /\ \A m \in DOMAIN hook \ {n} : hook'[m] = hook[m]
      /\ DOMAIN hook' = DOMAIN hook
  BY <1>3, <1>4 DEF HookRecords
<1>6. /\ save' \in [Savers -> SaveRecords]
      /\ save'[<<"hook", n>>].at = "fetching" /\ save'[<<"hook", n>>].todo = save[<<"hook", n>>].todo
      /\ save'[<<"hook", n>>].commits = save[<<"hook", n>>].commits
      /\ \A c \in Savers : c # <<"hook", n>> => save'[c] = save[c]
  BY <1>3, <1>4 DEF SaveRecords
<1>7. hook' \in Seq(HookRecords) /\ Len(hook') = Len(hook)
  <2>1. hook' \in [1..Len(hook) -> HookRecords]
    <3>1. hook' = [m \in 1..Len(hook) |-> hook'[m]]
      BY <1>3, <1>4
    <3>2. \A m \in 1..Len(hook) : hook'[m] \in HookRecords
      BY <1>3, <1>5, StateFacts
    <3> QED
      BY <3>1, <3>2
  <2> QED
    BY <1>3, <2>1
<1>8. StoreTypeOK' /\ DocsGrow
  BY <1>1, <1>6, <1>7, SameDocsGrow DEF StoreTypeOK
<1>9. /\ \A m \in Hooks : save'[<<"review", m>>] = save[<<"review", m>>]
      /\ \A m \in Hooks : m # n => save'[<<"hook", m>>] = save[<<"hook", m>>]
  BY <1>6, SaverFacts
<1>10. ASSUME NEW m \in Hooks
       PROVE  LocalInv(m)'
  <2>1. CASE m # n
    <3>1. /\ m \in DOMAIN hook' <=> m \in DOMAIN hook
          /\ m \in DOMAIN hook => hook'[m] = hook[m]
      BY <1>5, <2>1
    <3>2. save'[<<"hook", m>>] = save[<<"hook", m>>] /\ save'[<<"review", m>>] = save[<<"review", m>>]
      BY <1>9, <2>1
    <3>3. review'[m] = review[m] /\ head' \in Nat /\ head <= head'
      BY <1>1, <1>3
    <3> QED
      BY <1>8, <3>1, <3>2, <3>3, LocalStays
  <2>2. CASE m = n
    <3>1. /\ m \in DOMAIN hook' /\ hook'[m].at = "saving" /\ hook'[m].commits = hook[m].commits
          /\ hook'[m].kind = hook[m].kind
          /\ hook[m].at # "ended" /\ hook[m].at \in {"sent", "checking"} /\ m \in DOMAIN hook
      BY <1>1, <1>5, <2>2
    <3>2. hook'[m].kind # "updated" => hook[m].at = "sent"
      <4>1. hook[m].at = "checking" => hook[m].kind = "updated"
        BY <3>1 DEF LocalInv, PhaseInv
      <4> QED
        BY <3>1, <4>1
    <3>3. PhaseInv(m)'
      BY <1>1, <1>3, <1>9, <3>1, <3>2 DEF LocalInv, PhaseInv
    <3>4. FoundInv(m)' /\ NotedInv(m)' /\ SaveInv(<<"review", m>>)'
      <4>1. FoundInv(m)'
        BY <1>1, <1>8, <1>9, FoundStays DEF LocalInv
      <4>2. NotedInv(m)' /\ SaveInv(<<"review", m>>)'
        BY <1>1, <1>9 DEF LocalInv, NotedInv, SaveInv
      <4> QED
        BY <4>1, <4>2
    <3>5. SaveInv(<<"hook", m>>)'
      BY <1>1, <1>6, <2>2 DEF LocalInv, SaveInv
    <3> QED
      BY <3>3, <3>4, <3>5 DEF LocalInv
  <2> QED
    BY <2>1, <2>2
<1>11. PushInv'
  <2>1. LookedAt => LookedAt'
    BY <1>1, <1>5, LookedAtStays
  <2>2. trigger => LookedAt'
    BY <1>5 DEF LookedAt
  <2>3. ~trigger /\ hook[n].commits = head => LookedAt
    <3>1. hook[n].at = "sent" => hook[n].commits = 0
      BY <1>2, <1>3 DEF LocalInv, PhaseInv
    <3>2. ASSUME Known(hook[n]), hook[n].commits = head
          PROVE  LookedAt
      <4>1. 1 \in DOMAIN docs /\ docs[1].commits >= head /\ docs[1].commits \in Nat
        BY <3>2, StateFacts DEF Known, DocRecords
      <4> QED
        BY <1>3, <4>1 DEF PushInv
    <3> QED
      BY <1>2, <1>3, <3>1, <3>2
  <2>4. Undecided => Undecided' \/ LookedAt'
    <3> SUFFICES ASSUME NEW m \in DOMAIN hook,
                        \/ hook[m].at = "sent" /\ hook[m].kind \in {"created", "updated"}
                        \/ hook[m].at = "checking" /\ hook[m].commits = head
                 PROVE  Undecided' \/ LookedAt'
      BY DEF Undecided
    <3>1. CASE m # n
      BY <1>1, <1>5, <3>1 DEF Undecided
    <3>2. CASE m = n
      BY <1>2, <2>1, <2>2, <2>3, <3>2
    <3> QED
      BY <3>1, <3>2
  <2>5. \A i \in DOMAIN docs' : docs'[i].commits <= head
    BY <1>1 DEF PushInv
  <2>6. \A m \in DOMAIN hook' :
           hook'[m].at = "saving" /\ ~hook'[m].trigger /\ hook'[m].commits = head =>
             \/ LookedAt'
             \/ /\ m \in DOMAIN hook /\ hook[m].at = "saving"
                /\ ~hook[m].trigger /\ hook[m].commits = head
    BY <1>5, <2>1, <2>3
  <2> QED
    BY <1>1, <2>1, <2>4, <2>5, <2>6, PushStays
<1> QED
  BY <1>8, <1>10, <1>11

-----------------------------------------------------------------------------
(* The saves.  One that goes on leaves all but its own progress as it is.   *)
LEMMA GoingOn ==
  ASSUME StoreInv, NEW c \in Savers, UNCHANGED <<head, hook, review>>, DocsGrow,
         \A d \in Savers : d # c => save'[d] = save[d],
         save[c].at \in Saving, save'[c].at \in Saving, SaveInv(c)',
         c[1] = "review" =>
           \A p \in Paths : review[c[2]].path = {p} /\ Ahead(c[2], p) => Ahead(c[2], p)',
         NEW m \in Hooks
  PROVE  LocalInv(m)'
<1> USE DEF StoreInv
<1>1. /\ c[1] \in {"hook", "review"} /\ c[2] \in Hooks /\ c = <<c[1], c[2]>>
      /\ <<"hook", m>> \in Savers /\ <<"review", m>> \in Savers
  BY SaverFacts
<1>2. head \in Nat /\ head <= head'
  BY StateFacts
<1>3. CASE c # <<"hook", m>> /\ c # <<"review", m>>
  BY <1>1, <1>2, <1>3, LocalStays
<1>4. CASE c = <<"hook", m>>
  <2>1. save'[<<"review", m>>] = save[<<"review", m>>]
    BY <1>1, <1>4, SaverFacts
  <2>2. FoundInv(m)'
    BY <2>1, FoundStays DEF LocalInv
  <2>3. PhaseInv(m)'
    BY <1>4, <2>1 DEF LocalInv, PhaseInv
  <2>4. NotedInv(m)'
    BY DEF LocalInv, NotedInv, DocsGrow
  <2>5. SaveInv(<<"review", m>>)'
    BY <2>1 DEF LocalInv, SaveInv, DocsGrow
  <2> QED
    BY <1>4, <2>2, <2>3, <2>4, <2>5 DEF LocalInv
<1>5. CASE c = <<"review", m>>
  <2>1. /\ save'[<<"hook", m>>] = save[<<"hook", m>>] /\ c[1] = "review" /\ c[2] = m
    BY <1>1, <1>5, SaverFacts
  <2>2. save[c].at # "idle" /\ save'[c].at # "saved"
    BY DEF Saving
  <2>3. review[m].at = "ended"
    BY <1>5, <2>2 DEF LocalInv, PhaseInv
  <2>4. PhaseInv(m)'
    BY <1>5, <2>1, <2>3 DEF LocalInv, PhaseInv
  <2>5. PICK p \in Paths : review[m].path = {p} /\ Ahead(m, p)
    BY <1>5 DEF LocalInv, FoundInv
  <2>6. Ahead(m, p)'
    BY <2>1, <2>5
  <2>7. FoundInv(m)'
    BY <1>5, <2>2, <2>3, <2>5, <2>6 DEF FoundInv
  <2>8. NotedInv(m)'
    BY DEF LocalInv, NotedInv, DocsGrow
  <2>9. SaveInv(<<"hook", m>>)'
    BY <2>1 DEF LocalInv, SaveInv, DocsGrow
  <2> QED
    BY <1>5, <2>4, <2>7, <2>8, <2>9 DEF LocalInv
<1> QED
  BY <1>3, <1>4, <1>5

(* Reading the platform or the records changes no more than the save.       *)
LEMMA ReadingKeepsInv ==
  ASSUME StoreInv, NEW c \in Savers, SaveFetches(c) \/ SaveFinds(c) \/ FindFile(c)
  PROVE  StoreInv'
<1> USE DEF StoreInv
<1> DEFINE n == c[2]
<1>1. UNCHANGED <<head, merged, hook, review, docs, faults, blind, overlapped>>
  BY DEF SaveFetches, SaveFinds, FindFile
<1>2. /\ save \in [Savers -> SaveRecords] /\ save[c] \in SaveRecords /\ n \in Hooks
      /\ c[1] \in {"hook", "review"} /\ c = <<c[1], n>>
      /\ head \in Nat /\ head \in DOMAIN FilesAt /\ SaveInv(c)
  <2>1. n \in Hooks /\ c[1] \in {"hook", "review"} /\ c = <<c[1], n>>
    BY SaverFacts
  <2>2. SaveInv(<<"hook", n>>) /\ SaveInv(<<"review", n>>)
    BY <2>1 DEF LocalInv
  <2>3. SaveInv(c)
    BY <2>1, <2>2
  <2> QED
    BY <2>1, <2>3, StateFacts DEF StoreTypeOK
<1>3. c[1] = "review" /\ save[c].at \in Saving =>
        \E p \in Paths : review[n].path = {p} /\ Ahead(n, p)
  BY <1>2 DEF LocalInv, FoundInv
<1> HIDE DEF n
<1>4. DocsGrow
  BY <1>1, SameDocsGrow
<1>5. CASE /\ \A d \in Savers : d # c => save'[d] = save[d]
           /\ save' \in [Savers -> SaveRecords]
           /\ save[c].at \in Saving /\ save'[c].at \in Saving /\ SaveInv(c)'
           /\ c[1] = "review" => \A p \in Paths : review[n].path = {p} /\ Ahead(n, p) => Ahead(n, p)'
  <2>1. \A m \in Hooks : LocalInv(m)'
    BY <1>1, <1>4, <1>5, GoingOn DEF n
  <2>2. StoreTypeOK'
    BY <1>1, <1>5 DEF StoreTypeOK
  <2>3. PushInv'
    BY <1>1 DEF PushInv, LookedAt, Undecided
  <2> QED
    BY <2>1, <2>2, <2>3
<1>6. CASE SaveFetches(c)
  <2> DEFINE h == IF c[1] = "hook" THEN head ELSE review[n].seen
  <2>1. h \in DOMAIN FilesAt /\ (c[1] = "review" => h = review[n].seen)
    <3>1. c[1] = "review" => review[n].seen \in DOMAIN FilesAt
      BY <1>2, <1>3, <1>6 DEF SaveFetches, Saving, Ahead
    <3> QED
      BY <1>2, <3>1
  <2>2. /\ save[c].at = "fetching"
        /\ save' = [save EXCEPT ![c].at = "finding", ![c].commits = head, ![c].todo = FilesAt[h]]
    BY <1>6 DEF SaveFetches, n
  <2> HIDE DEF h
  <2>3. FilesAt[h] \subseteq Paths /\ IsFiniteSet(FilesAt[h])
    BY <2>1, StateFacts
  <2>4. /\ save' \in [Savers -> SaveRecords] /\ \A d \in Savers : d # c => save'[d] = save[d]
        /\ save'[c].at = "finding" /\ save'[c].commits = head /\ save'[c].todo = FilesAt[h]
    BY <1>2, <2>2, <2>3 DEF SaveRecords
  <2>5. SaveInv(c)'
    BY <1>1, <1>2, <2>3, <2>4 DEF SaveInv
  <2>6. c[1] = "review" => \A p \in Paths : review[n].path = {p} /\ Ahead(n, p) => Ahead(n, p)'
    <3> SUFFICES ASSUME c[1] = "review", NEW p \in Paths, Ahead(n, p)
                 PROVE  Ahead(n, p)'
      OBVIOUS
    <3>1. c = <<"review", n>>
      BY <1>2
    <3>2. p \in FilesAt[review[n].seen]
      BY <2>2, <3>1 DEF Ahead
    <3> QED
      BY <2>1, <2>4, <3>1, <3>2 DEF Ahead
  <2> QED
    BY <1>5, <2>2, <2>4, <2>5, <2>6 DEF Saving
<1>7. CASE SaveFinds(c)
  <2>1. PICK at \in {"creating", "updating"} :
          /\ save[c].at = "finding" /\ save' = [save EXCEPT ![c].at = at]
          /\ at = "updating" => docs # <<>>
    BY <1>7 DEF SaveFinds, Step
  <2>2. /\ save' \in [Savers -> SaveRecords] /\ \A d \in Savers : d # c => save'[d] = save[d]
        /\ save'[c].at = at /\ save'[c].commits = save[c].commits /\ save'[c].todo = save[c].todo
    BY <1>2, <2>1 DEF SaveRecords
  <2>3. SaveInv(c)'
    BY <1>1, <1>2, <2>1, <2>2 DEF SaveInv
  <2>4. c[1] = "review" => \A p \in Paths : review[n].path = {p} /\ Ahead(n, p) => Ahead(n, p)'
    <3> SUFFICES ASSUME c[1] = "review", NEW p \in Paths, Ahead(n, p)
                 PROVE  Ahead(n, p)'
      OBVIOUS
    <3>1. c = <<"review", n>>
      BY <1>2
    <3>2. p \in save[c].todo
      BY <2>1, <3>1 DEF Ahead
    <3> QED
      BY <2>2, <3>1, <3>2 DEF Ahead
  <2> QED
    BY <1>5, <2>1, <2>2, <2>3, <2>4 DEF Saving
<1>8. CASE FindFile(c)
  <2>1. PICK path \in save[c].todo :
          /\ save[c].at = "filing"
          /\ save' = [save EXCEPT ![c].at = "writing", ![c].todo = @ \ {path},
                                  ![c].path = {path}, ![c].doc = DocWith(path)]
    BY <1>8 DEF FindFile
  <2> DEFINE d == DocWith(path)
  <2>2. path \in Paths /\ d \in Nat /\ (d # 0 => d \in DOMAIN docs /\ HasPath(docs[d], path))
    BY <1>2, <2>1, DocWithEffect DEF SaveRecords
  <2>3. save' = [save EXCEPT ![c].at = "writing", ![c].todo = @ \ {path},
                             ![c].path = {path}, ![c].doc = d]
    BY <2>1
  <2> HIDE DEF d
  <2>4. /\ save' \in [Savers -> SaveRecords] /\ \A e \in Savers : e # c => save'[e] = save[e]
        /\ save'[c].at = "writing" /\ save'[c].commits = save[c].commits
        /\ save'[c].todo = save[c].todo \ {path} /\ save'[c].path = {path} /\ save'[c].doc = d
    BY <1>2, <2>2, <2>3 DEF SaveRecords
  <2>5. SaveInv(c)'
    <3>1. IsFiniteSet(save[c].todo \ {path})
      BY <1>2, FS_Subset DEF SaveInv
    <3> QED
      BY <1>1, <1>2, <2>1, <2>4, <3>1 DEF SaveInv
  <2>6. c[1] = "review" => \A p \in Paths : review[n].path = {p} /\ Ahead(n, p) => Ahead(n, p)'
    <3> SUFFICES ASSUME c[1] = "review", NEW p \in Paths, Ahead(n, p)
                 PROVE  Ahead(n, p)'
      OBVIOUS
    <3>1. c = <<"review", n>>
      BY <1>2
    <3>2. p \in save[c].todo \/ Found(n)
      BY <2>1, <3>1 DEF Ahead
    <3>3. CASE p \in save[c].todo /\ p # path
      BY <2>4, <3>1, <3>3 DEF Ahead
    <3>4. CASE p = path
      <4>1. save'[<<"review", n>>].doc # 0 =>
              /\ save'[<<"review", n>>].doc \in DOMAIN docs'
              /\ HasPath(docs'[save'[<<"review", n>>].doc], p)
        BY <1>1, <2>2, <2>4, <3>1, <3>4
      <4> QED
        BY <2>4, <3>1, <3>4, <4>1 DEF Ahead, HasPath
    <3>5. CASE Found(n)
      <4>1. Found(n)'
        BY <1>1, <3>5 DEF Found
      <4> QED
        BY <2>4, <3>1, <4>1 DEF Ahead
    <3> QED
      BY <3>2, <3>3, <3>4, <3>5
  <2> QED
    BY <1>5, <2>1, <2>4, <2>5, <2>6 DEF Saving
<1> QED
  BY <1>6, <1>7, <1>8

(* The newest commit is not stored by a save unless it is looked at, will   *)
(* be, or counts as stored blindly.                                         *)
LEMMA UnseenCovers ==
  ASSUME StoreInv, NEW c \in Savers, save[c].at \in Saving
  PROVE  /\ save[c].commits = head => LookedAt \/ head \in Unseen(c)
         /\ Unseen(c) \subseteq Nat /\ save[c].commits \in Nat /\ save[c].commits <= head
<1> USE DEF StoreInv
<1> DEFINE n == c[2]
           from == IF c[1] = "review" THEN review[n].seen ELSE hook[n].commits
<1>1. /\ c[1] \in {"hook", "review"} /\ n \in Hooks /\ c = <<c[1], n>>
      /\ head \in Nat /\ save[c] \in SaveRecords
  BY StateFacts, SaverFacts
<1>2. LocalInv(n)
  BY <1>1
<1>3. save[c].commits \in Nat /\ save[c].commits <= head
  BY <1>1, <1>2 DEF LocalInv, SaveInv, SaveRecords
<1>4. CASE c[1] = "review"
  <2>1. review[n].seen \in Nat /\ review[n].seen <= head
    BY <1>1, <1>2, StateFacts DEF LocalInv, PhaseInv, ReviewRecords
  <2>2. Unseen(c) = (review[n].seen + 1)..save[c].commits
    BY <1>4 DEF Unseen
  <2>3. review[n].seen = head => LookedAt
    BY <1>1 DEF LookedAt
  <2> HIDE DEF n
  <2> QED
    BY <1>1, <1>3, <2>1, <2>2, <2>3
<1>5. CASE c[1] = "hook"
  <2>1. n \in DOMAIN hook /\ hook[n].at = "saving"
    BY <1>1, <1>2, <1>5 DEF LocalInv, PhaseInv
  <2>2. hook[n].commits \in Nat /\ hook[n].commits <= head /\ hook[n].trigger \in BOOLEAN
    BY <1>2, <2>1, StateFacts DEF LocalInv, PhaseInv, HookRecords
  <2>3. CASE hook[n].trigger
    <3>1. LookedAt /\ Unseen(c) = {}
      BY <1>5, <2>1, <2>3 DEF LookedAt, Unseen
    <3> QED
      BY <1>3, <3>1
  <2>4. CASE ~hook[n].trigger
    <3>1. Unseen(c) = (hook[n].commits + 1)..save[c].commits
      BY <1>5, <2>4 DEF Unseen
    <3>2. hook[n].commits = head => LookedAt
      BY <2>1, <2>4 DEF PushInv
    <3> HIDE DEF n
    <3> QED
      BY <1>1, <1>3, <2>2, <3>1, <3>2
  <2> QED
    BY <2>2, <2>3, <2>4
<1> QED
  BY <1>1, <1>4, <1>5

(* Found and files, seen from the records.                                  *)
LEMMA FoundIn ==
  ASSUME NEW n \in Hooks, docs # <<>>, docs' # <<>>, Len(docs) <= Len(docs'),
         Len(docs) \in Nat, Len(docs') \in Nat,
         \A i \in DOMAIN docs[1].files :
           /\ i \in DOMAIN docs'[1].files
           /\ docs[1].files[i].suggestions \subseteq docs'[1].files[i].suggestions
  PROVE  Found(n) => Found(n)'
BY DEF Found

LEMMA UpdateKeepsInv ==
  ASSUME StoreInv, NEW c \in Savers, SaveUpdates(c)
  PROVE  StoreInv'
<1> USE DEF StoreInv
<1> DEFINE n == c[2]
<1>1. /\ save[c].at = "updating" /\ save[c].at \in Saving
      /\ docs' = [docs EXCEPT ![1] = Refreshed(@, c)]
      /\ blind' = blind \cup Unseen(c)
      /\ save' = [save EXCEPT ![c].at = "filing"]
      /\ UNCHANGED <<head, merged, hook, review, faults, overlapped>>
  BY DEF SaveUpdates, Step, Saving
<1>2. /\ c[1] \in {"hook", "review"} /\ n \in Hooks /\ c = <<c[1], n>>
      /\ save \in [Savers -> SaveRecords] /\ save[c] \in SaveRecords
      /\ docs \in Seq(DocRecords) /\ DOMAIN docs = 1..Len(docs) /\ Len(docs) \in Nat
      /\ head \in Nat
  BY StateFacts, SaverFacts DEF StoreTypeOK
<1>3. SaveInv(c)
  <2>1. SaveInv(<<"hook", n>>) /\ SaveInv(<<"review", n>>)
    BY <1>2 DEF LocalInv
  <2> QED
    BY <1>2, <2>1
<1>4. /\ save[c].commits = head => LookedAt \/ head \in Unseen(c)
      /\ Unseen(c) \subseteq Nat /\ save[c].commits \in Nat /\ save[c].commits <= head
  BY <1>1, UnseenCovers
<1>5. docs # <<>> /\ 1 \in DOMAIN docs /\ docs[1] \in DocRecords
  BY <1>1, <1>2, <1>3, StateFacts DEF SaveInv
<1>6. /\ docs'[1].commits = save[c].commits /\ docs'[1].files = docs[1].files
      /\ docs'[1].general = docs[1].general /\ docs'[1] \in DocRecords
      /\ \A d \in DOMAIN docs : d # 1 => docs'[d] = docs[d]
      /\ DOMAIN docs' = DOMAIN docs /\ Len(docs') = Len(docs) /\ docs' \in Seq(DocRecords)
  <2>1. Refreshed(docs[1], c) \in DocRecords
    BY <1>4, <1>5 DEF Refreshed, DocRecords, Status
  <2>2. /\ Refreshed(docs[1], c).commits = save[c].commits
        /\ Refreshed(docs[1], c).files = docs[1].files
        /\ Refreshed(docs[1], c).general = docs[1].general
    BY <1>5 DEF Refreshed, DocRecords
  <2> QED
    BY <1>1, <1>2, <1>5, <2>1, <2>2
<1>7. docs' # <<>>
  BY <1>2, <1>5, <1>6
<1>8. DocsGrow
  <2>1. \A m \in Hooks : Found(m) => Found(m)'
    BY <1>2, <1>5, <1>6, <1>7, FoundIn
  <2>2. \A d \in DOMAIN docs : \A p \in Paths : HasPath(docs[d], p) => HasPath(docs'[d], p)
    BY <1>6 DEF HasPath
  <2> QED
    BY <1>1, <1>6, <1>7, <2>1, <2>2 DEF DocsGrow
<1> HIDE DEF n
<1>9. /\ save' \in [Savers -> SaveRecords] /\ \A d \in Savers : d # c => save'[d] = save[d]
      /\ save'[c].at = "filing" /\ save'[c].todo = save[c].todo
      /\ save'[c].commits = save[c].commits
  BY <1>1, <1>2 DEF SaveRecords
<1>10. SaveInv(c)'
  BY <1>1, <1>3, <1>7, <1>9 DEF SaveInv
<1>11. c[1] = "review" => \A p \in Paths : review[n].path = {p} /\ Ahead(n, p) => Ahead(n, p)'
  <2> SUFFICES ASSUME c[1] = "review", NEW p \in Paths, Ahead(n, p)
               PROVE  Ahead(n, p)'
    OBVIOUS
  <2>1. c = <<"review", n>>
    BY <1>2
  <2>2. p \in save[c].todo
    BY <1>1, <2>1 DEF Ahead
  <2> QED
    BY <1>9, <2>1, <2>2 DEF Ahead
<1>12. \A m \in Hooks : LocalInv(m)'
  BY <1>1, <1>8, <1>9, <1>10, <1>11, GoingOn DEF n, Saving
<1>13. StoreTypeOK'
  BY <1>1, <1>4, <1>6, <1>9 DEF StoreTypeOK
<1>14. PushInv'
  <2>1. LookedAt => LookedAt'
    BY <1>1 DEF LookedAt
  <2>2. head \in Unseen(c) => LookedAt'
    BY <1>1 DEF LookedAt
  <2>3. Undecided => Undecided'
    BY <1>1 DEF Undecided
  <2>4. \A i \in DOMAIN docs' :
           /\ docs'[i].commits <= head
           /\ docs'[i].commits = head =>
                LookedAt' \/ (i \in DOMAIN docs /\ docs[i].commits = head)
    BY <1>4, <1>6, <2>1, <2>2 DEF PushInv
  <2> QED
    BY <1>1, <2>1, <2>3, <2>4, PushStays
<1> QED
  BY <1>12, <1>13, <1>14

LEMMA WriteKeepsInv ==
  ASSUME StoreInv, NEW c \in Savers, WriteFile(c)
  PROVE  StoreInv'
<1> USE DEF StoreInv
<1> DEFINE n == c[2]
           d == save[c].doc
<1>1. PICK path \in save[c].path :
        docs' = IF d = 0
                THEN [docs EXCEPT ![1].files = Append(@, File(c, path))]
                ELSE [docs EXCEPT ![d].files[FirstOf(docs[d].files, path)].suggestions =
                         @ \cup SuggestionsFor(c, path)]
  BY DEF WriteFile
<1>2. /\ save[c].at = "writing" /\ save[c].at \in Saving
      /\ save' = [save EXCEPT ![c].at = "filing"]
      /\ UNCHANGED <<head, merged, hook, review, faults, blind, overlapped>>
  BY DEF WriteFile, Step, Saving
<1>3. /\ c[1] \in {"hook", "review"} /\ n \in Hooks /\ c = <<c[1], n>>
      /\ save \in [Savers -> SaveRecords] /\ save[c] \in SaveRecords
      /\ docs \in Seq(DocRecords) /\ DOMAIN docs = 1..Len(docs) /\ Len(docs) \in Nat
      /\ head \in Nat
  BY StateFacts, SaverFacts DEF StoreTypeOK
<1>4. SaveInv(c)
  <2>1. SaveInv(<<"hook", n>>) /\ SaveInv(<<"review", n>>)
    BY <1>3 DEF LocalInv
  <2> QED
    BY <1>3, <2>1
<1>5. docs # <<>> /\ 1 \in DOMAIN docs /\ docs[1] \in DocRecords /\ docs[1].files \in Seq(FileRecords)
  <2>1. docs # <<>>
    BY <1>2, <1>4 DEF SaveInv
  <2>2. 1 \in DOMAIN docs
    BY <1>3, <2>1
  <2>3. docs[1] \in DocRecords
    BY <2>2, StateFacts
  <2> QED
    BY <2>1, <2>2, <2>3 DEF DocRecords
<1>6. /\ path \in Paths /\ File(c, path) \in FileRecords
      /\ SuggestionsFor(c, path) \subseteq Hooks
  BY <1>3 DEF SaveRecords, File, FileRecords, SuggestionsFor
<1> DEFINE own == File(c, path)
           sugg == SuggestionsFor(c, path)
<1>7. /\ DOMAIN docs' = DOMAIN docs /\ Len(docs') = Len(docs) /\ docs' \in Seq(DocRecords)
      /\ \A e \in DOMAIN docs :
           /\ docs'[e].commits = docs[e].commits /\ docs'[e].general = docs[e].general
           /\ \A i \in DOMAIN docs[e].files :
                /\ i \in DOMAIN docs'[e].files
                /\ docs'[e].files[i].path = docs[e].files[i].path
                /\ docs[e].files[i].suggestions \subseteq docs'[e].files[i].suggestions
      /\ d = 0 => \E i \in DOMAIN docs'[1].files : docs'[1].files[i].suggestions = sugg
      /\ d # 0 /\ d \in DOMAIN docs /\ HasPath(docs[d], path) =>
           \E i \in DOMAIN docs'[d].files : sugg \subseteq docs'[d].files[i].suggestions
  <2>1. CASE d = 0
    <3> DEFINE files == Append(docs[1].files, own)
               doc == [docs[1] EXCEPT !.files = files]
    <3>1. docs' = [docs EXCEPT ![1] = doc]
      BY <1>1, <2>1
    <3>2. /\ files \in Seq(FileRecords) /\ Len(docs[1].files) + 1 \in DOMAIN files
          /\ files[Len(docs[1].files) + 1] = own
          /\ \A i \in DOMAIN docs[1].files : i \in DOMAIN files /\ files[i] = docs[1].files[i]
      BY <1>5, <1>6
    <3> HIDE DEF files
    <3>3. /\ doc \in DocRecords /\ doc.files = files /\ doc.commits = docs[1].commits
          /\ doc.general = docs[1].general
      BY <1>5, <3>2 DEF DocRecords
    <3> HIDE DEF doc
    <3>4. /\ DOMAIN docs' = DOMAIN docs /\ Len(docs') = Len(docs) /\ docs' \in Seq(DocRecords)
          /\ docs'[1] = doc /\ \A e \in DOMAIN docs : e # 1 => docs'[e] = docs[e]
      BY <1>3, <1>5, <3>1, <3>3
    <3>5. own.suggestions = sugg
      BY DEF File
    <3> HIDE DEF own, sugg
    <3> QED
      BY <2>1, <3>2, <3>3, <3>4, <3>5
  <2>2. CASE d # 0 /\ d \notin DOMAIN docs
    <3>1. docs' = docs
      BY <1>1, <1>3, <2>2
    <3> QED
      BY <1>3, <2>2, <3>1
  <2>3. CASE d # 0 /\ d \in DOMAIN docs
    <3> DEFINE files == docs[d].files
               k == FirstOf(files, path)
               news == [files EXCEPT ![k].suggestions = @ \cup sugg]
               doc == [docs[d] EXCEPT !.files = news]
    <3>1. docs' = [docs EXCEPT ![d] = doc]
      BY <1>1, <2>3
    <3>2. docs[d] \in DocRecords /\ files \in Seq(FileRecords)
      BY <2>3, StateFacts DEF DocRecords
    <3>3. HasPath(docs[d], path) => k \in DOMAIN files
      BY <3>2, FirstOfEffect DEF HasPath
    <3> HIDE DEF files, k, sugg
    <3>4. /\ news \in Seq(FileRecords) /\ DOMAIN news = DOMAIN files
          /\ \A i \in DOMAIN files : i # k => news[i] = files[i]
          /\ k \in DOMAIN files => /\ news[k].suggestions = files[k].suggestions \cup sugg
                                   /\ news[k].path = files[k].path
      <4> DEFINE pushed == [files[k] EXCEPT !.suggestions = @ \cup sugg]
      <4>1. sugg \subseteq Hooks
        BY <1>6 DEF sugg
      <4>2. DOMAIN files = 1..Len(files) /\ Len(files) \in Nat
            /\ \A i \in 1..Len(files) : files[i] \in FileRecords
        BY <3>2, SeqFacts
      <4>3. k \in DOMAIN files => /\ pushed \in FileRecords
                                 /\ pushed.suggestions = files[k].suggestions \cup sugg
                                 /\ pushed.path = files[k].path
        BY <4>1, <4>2 DEF FileRecords
      <4>4. news = [files EXCEPT ![k] = pushed]
        OBVIOUS
      <4> HIDE DEF pushed, news
      <4>5. /\ DOMAIN news = DOMAIN files /\ news = [i \in 1..Len(files) |-> news[i]]
            /\ \A i \in DOMAIN files : i # k => news[i] = files[i]
            /\ k \in DOMAIN files => news[k] = pushed
        BY <4>2, <4>4
      <4>6. \A i \in 1..Len(files) : news[i] \in FileRecords
        BY <4>2, <4>3, <4>5
      <4>7. news \in Seq(FileRecords)
        BY <4>2, <4>5, <4>6
      <4> QED
        BY <4>3, <4>5, <4>7
    <3> HIDE DEF news
    <3>5. /\ doc \in DocRecords /\ doc.files = news /\ doc.commits = docs[d].commits
          /\ doc.general = docs[d].general
      BY <3>2, <3>4 DEF DocRecords
    <3> HIDE DEF doc
    <3>6. /\ DOMAIN docs' = DOMAIN docs /\ Len(docs') = Len(docs) /\ docs' \in Seq(DocRecords)
          /\ docs'[d] = doc /\ \A e \in DOMAIN docs : e # d => docs'[e] = docs[e]
      BY <1>3, <2>3, <3>1, <3>5
    <3>7. files = docs[d].files
      BY DEF files
    <3>8. \A i \in DOMAIN files :
            i \in DOMAIN news /\ news[i].path = files[i].path
            /\ files[i].suggestions \subseteq news[i].suggestions
      BY <3>4
    <3> QED
      BY <2>3, <3>3, <3>4, <3>5, <3>6, <3>7, <3>8
  <2> QED
    BY <2>1, <2>2, <2>3
<1>8. docs' # <<>>
  BY <1>3, <1>5, <1>7
<1>9. DocsGrow
  <2>1. \A m \in Hooks : Found(m) => Found(m)'
    BY <1>3, <1>5, <1>7, <1>8, FoundIn
  <2>2. \A e \in DOMAIN docs : \A p \in Paths : HasPath(docs[e], p) => HasPath(docs'[e], p)
    BY <1>7 DEF HasPath
  <2> QED
    BY <1>2, <1>5, <1>7, <1>8, <2>1, <2>2 DEF DocsGrow
<1>10. /\ save' \in [Savers -> SaveRecords] /\ \A e \in Savers : e # c => save'[e] = save[e]
       /\ save'[c].at = "filing" /\ save'[c].todo = save[c].todo
       /\ save'[c].commits = save[c].commits
  BY <1>2, <1>3 DEF SaveRecords
<1>11. SaveInv(c)'
  BY <1>2, <1>4, <1>8, <1>10 DEF SaveInv
<1>12. c[1] = "review" => \A p \in Paths : review[n].path = {p} /\ Ahead(n, p) => Ahead(n, p)'
  <2> SUFFICES ASSUME c[1] = "review", NEW p \in Paths, Ahead(n, p), review[n].path = {p}
               PROVE  Ahead(n, p)'
    OBVIOUS
  <2>1. c = <<"review", n>> /\ save'[<<"review", n>>].at = "filing"
    BY <1>3, <1>10
  <2>2. CASE p \in save[c].todo
    BY <1>10, <2>1, <2>2 DEF Ahead
  <2>3. CASE Found(n)
    BY <1>3, <1>9, <2>1, <2>3 DEF Ahead, DocsGrow
  <2>4. CASE save[c].path = {p} /\ (d # 0 => d \in DOMAIN docs /\ HasPath(docs[d], p))
    <3>1. path = p /\ n \in sugg
      BY <2>1, <2>4 DEF SuggestionsFor
    <3>2. CASE d = 0 \/ d = 1
      <4>1. \E i \in DOMAIN docs'[1].files : n \in docs'[1].files[i].suggestions
        BY <1>7, <2>4, <3>1, <3>2
      <4>2. Found(n)'
        BY <1>8, <4>1 DEF Found
      <4> QED
        BY <2>1, <4>2 DEF Ahead
    <3>3. CASE d # 0 /\ d # 1
      <4>1. Len(docs') > 1
        BY <1>3, <1>7, <2>4, <3>3
      <4>2. Found(n)'
        BY <1>8, <4>1 DEF Found
      <4> QED
        BY <2>1, <4>2 DEF Ahead
    <3> QED
      BY <3>2, <3>3
  <2>5. Ahead(n, p) => \/ p \in save[c].todo \/ Found(n)
                       \/ save[c].path = {p} /\ (d # 0 => d \in DOMAIN docs /\ HasPath(docs[d], p))
    BY <1>2, <2>1 DEF Ahead
  <2> QED
    BY <2>2, <2>3, <2>4, <2>5
<1> HIDE DEF n, d
<1>13. \A m \in Hooks : LocalInv(m)'
  BY <1>2, <1>9, <1>10, <1>11, <1>12, GoingOn DEF n, Saving
<1>14. StoreTypeOK'
  BY <1>2, <1>7, <1>10 DEF StoreTypeOK
<1>15. PushInv'
  BY <1>2, <1>7 DEF PushInv, LookedAt, Undecided
<1> QED
  BY <1>13, <1>14, <1>15

-----------------------------------------------------------------------------
(* The end of a save, and what its caller does then.                        *)
LEMMA CallerEffect ==
  ASSUME StoreInv, NEW c \in Savers, save[c].at \in Saving, NEW outcome \in {"idle", "saved"},
         CallerGoesOn(c, outcome)
  PROVE  /\ save' \in [Savers -> SaveRecords] /\ \A d \in Savers : d # c => save'[d] = save[d]
         /\ save'[c].at = outcome /\ save'[c].todo = {} /\ save'[c].commits = 0
         /\ hook' \in Seq(HookRecords) /\ Len(hook') = Len(hook) /\ DOMAIN hook' = DOMAIN hook
         /\ \A m \in DOMAIN hook : c # <<"hook", m>> => hook'[m] = hook[m]
         /\ review' \in [Hooks -> ReviewRecords]
         /\ \A m \in Hooks : c[2] # m => review'[m] = review[m]
         /\ review'[c[2]].seen = review[c[2]].seen /\ review'[c[2]].noted = review[c[2]].noted
         /\ c[1] = "hook" =>
              /\ c[2] \in DOMAIN hook /\ hook[c[2]].at = "saving" /\ hook'[c[2]] = Ended
              /\ review[c[2]].at = "none" /\ review'[c[2]].path = review[c[2]].path
              /\ review'[c[2]].at = IF hook[c[2]].trigger THEN "started" ELSE "none"
         /\ c[1] = "review" =>
              /\ review[c[2]].at = "ended" /\ review'[c[2]].at = "ended"
              /\ review'[c[2]].path = {} /\ hook' = hook
<1> USE DEF StoreInv
<1> DEFINE n == c[2]
<1>1. /\ c[1] \in {"hook", "review"} /\ n \in Hooks /\ c = <<c[1], n>>
      /\ save \in [Savers -> SaveRecords] /\ review \in [Hooks -> ReviewRecords]
      /\ hook \in Seq(HookRecords) /\ DOMAIN hook = 1..Len(hook) /\ Len(hook) \in Nat
      /\ review[n] \in ReviewRecords
  BY StateFacts, SaverFacts DEF StoreTypeOK
<1>2. LocalInv(n)
  BY <1>1
<1> HIDE DEF n
<1>3. /\ save' \in [Savers -> SaveRecords] /\ \A d \in Savers : d # c => save'[d] = save[d]
      /\ save'[c].at = outcome /\ save'[c].todo = {} /\ save'[c].commits = 0
  <2> DEFINE s == [NoSave EXCEPT !.at = outcome]
  <2>1. s \in SaveRecords /\ s.at = outcome /\ s.todo = {} /\ s.commits = 0
    BY DEF NoSave, SaveRecords
  <2>2. save' = [save EXCEPT ![c] = s]
    BY DEF CallerGoesOn
  <2> HIDE DEF s
  <2> QED
    BY <1>1, <2>1, <2>2
<1>4. CASE c[1] = "hook"
  <2>1. n \in DOMAIN hook /\ hook[n].at = "saving" /\ review[n].at = "none"
    BY <1>1, <1>2, <1>4 DEF LocalInv, PhaseInv
  <2>2. hook' = [hook EXCEPT ![n] = Ended]
    BY <1>4 DEF CallerGoesOn, n
  <2>3. Ended \in HookRecords
    BY DEF Ended, HookRecords
  <2>4. /\ DOMAIN hook' = DOMAIN hook /\ hook'[n] = Ended /\ hook' = [m \in 1..Len(hook) |-> hook'[m]]
        /\ \A m \in DOMAIN hook : m # n => hook'[m] = hook[m]
    BY <1>1, <2>1, <2>2
  <2>5. hook' \in Seq(HookRecords) /\ Len(hook') = Len(hook)
    <3>1. \A m \in 1..Len(hook) : hook'[m] \in HookRecords
      BY <1>1, <2>3, <2>4, StateFacts
    <3>2. hook' \in [1..Len(hook) -> HookRecords]
      BY <2>4, <3>1
    <3> QED
      BY <1>1, <3>2
  <2>6. review' = IF hook[n].trigger THEN [review EXCEPT ![n].at = "started"] ELSE review
    BY <1>4 DEF CallerGoesOn, n
  <2>7. /\ review' \in [Hooks -> ReviewRecords]
        /\ \A m \in Hooks : n # m => review'[m] = review[m]
        /\ review'[n].seen = review[n].seen /\ review'[n].noted = review[n].noted
        /\ review'[n].path = review[n].path
        /\ review'[n].at = IF hook[n].trigger THEN "started" ELSE "none"
    <3>1. CASE hook[n].trigger
      BY <1>1, <2>6, <3>1 DEF ReviewRecords
    <3>2. CASE ~hook[n].trigger
      BY <1>1, <2>1, <2>6, <3>2
    <3> QED
      BY <3>1, <3>2
  <2>8. \A m \in DOMAIN hook : c # <<"hook", m>> => m # n
    BY <1>1, <1>4
  <2> QED
    BY <1>3, <1>4, <2>1, <2>4, <2>5, <2>7, <2>8 DEF n
<1>5. CASE c[1] = "review"
  <2>1. review[n].at = "ended"
    <3>1. save[<<"review", n>>].at # "idle"
      BY <1>1, <1>5 DEF Saving
    <3> QED
      BY <1>2, <3>1 DEF LocalInv, PhaseInv
  <2>2. hook' = hook /\ review' = [review EXCEPT ![n].path = {}]
    BY <1>5 DEF CallerGoesOn, n
  <2>3. /\ review' \in [Hooks -> ReviewRecords]
        /\ \A m \in Hooks : n # m => review'[m] = review[m]
        /\ review'[n].seen = review[n].seen /\ review'[n].noted = review[n].noted
        /\ review'[n].path = {} /\ review'[n].at = "ended"
    BY <1>1, <2>1, <2>2 DEF ReviewRecords
  <2> QED
    BY <1>1, <1>3, <1>5, <2>1, <2>2, <2>3 DEF n
<1> QED
  BY <1>1, <1>4, <1>5

LEMMA CallerKeepsLocal ==
  ASSUME StoreInv, NEW c \in Savers, save[c].at \in Saving, NEW outcome \in {"idle", "saved"},
         CallerGoesOn(c, outcome), head' = head, DocsGrow,
         c[1] = "review" /\ outcome = "saved" => Found(c[2])',
         NEW m \in Hooks
  PROVE  LocalInv(m)'
<1> USE DEF StoreInv
<1>1. /\ c[1] \in {"hook", "review"} /\ c[2] \in Hooks /\ c = <<c[1], c[2]>>
      /\ <<"hook", m>> \in Savers /\ <<"review", m>> \in Savers /\ head \in Nat
  BY SaverFacts, StateFacts
<1>2. LocalInv(m)
  OBVIOUS
<1>3. CASE c # <<"hook", m>> /\ c # <<"review", m>>
  <2>1. c[2] # m
    BY <1>1, <1>3
  <2>2. /\ save'[<<"hook", m>>] = save[<<"hook", m>>] /\ save'[<<"review", m>>] = save[<<"review", m>>]
        /\ review'[m] = review[m] /\ DOMAIN hook' = DOMAIN hook
        /\ m \in DOMAIN hook => hook'[m] = hook[m]
    BY <1>1, <1>3, <2>1, CallerEffect
  <2> QED
    BY <1>1, <1>2, <2>2, LocalStays
<1>4. CASE c = <<"hook", m>>
  <2>1. c[1] = "hook" /\ c[2] = m /\ <<"review", m>> # c
    BY <1>4, SaverFacts
  <2>2. /\ save'[<<"review", m>>] = save[<<"review", m>>]
        /\ save'[<<"hook", m>>].at = outcome /\ save'[<<"hook", m>>].todo = {}
        /\ save'[<<"hook", m>>].commits = 0
        /\ m \in DOMAIN hook /\ m \in DOMAIN hook' /\ hook[m].at = "saving" /\ hook'[m] = Ended
        /\ review[m].at = "none" /\ review'[m].path = review[m].path
        /\ review'[m].at \in {"none", "started"}
        /\ review'[m].seen = review[m].seen /\ review'[m].noted = review[m].noted
    <3>1. /\ \A d \in Savers : d # c => save'[d] = save[d]
          /\ save'[c].at = outcome /\ save'[c].todo = {} /\ save'[c].commits = 0
          /\ review'[m].seen = review[m].seen /\ review'[m].noted = review[m].noted
      BY <2>1, CallerEffect
    <3>2. /\ m \in DOMAIN hook /\ DOMAIN hook' = DOMAIN hook
          /\ hook[m].at = "saving" /\ hook'[m] = Ended
          /\ review[m].at = "none" /\ review'[m].path = review[m].path
          /\ review'[m].at \in {"none", "started"}
      BY <2>1, CallerEffect
    <3> QED
      BY <1>1, <1>4, <2>1, <3>1, <3>2
  <2>3. PhaseInv(m)'
    BY <1>1, <1>2, <2>2 DEF LocalInv, PhaseInv, Ended, Saving
  <2>4. FoundInv(m)'
    BY <1>2, <2>2, FoundStays DEF LocalInv
  <2>5. NotedInv(m)'
    BY <1>2, <2>2 DEF LocalInv, NotedInv, DocsGrow
  <2>6. SaveInv(<<"hook", m>>)' /\ SaveInv(<<"review", m>>)'
    <3>1. IsFiniteSet({})
      BY FS_EmptySet
    <3> QED
      BY <1>1, <1>2, <2>2, <3>1 DEF LocalInv, SaveInv, DocsGrow
  <2> QED
    BY <2>3, <2>4, <2>5, <2>6 DEF LocalInv
<1>5. CASE c = <<"review", m>>
  <2>1. c[1] = "review" /\ c[2] = m /\ <<"hook", m>> # c
    BY <1>5, SaverFacts
  <2>2. /\ save'[<<"hook", m>>] = save[<<"hook", m>>]
        /\ save'[<<"review", m>>].at = outcome /\ save'[<<"review", m>>].todo = {}
        /\ save'[<<"review", m>>].commits = 0
        /\ hook' = hook /\ review[m].at = "ended" /\ review'[m].at = "ended"
        /\ review'[m].seen = review[m].seen /\ review'[m].noted = review[m].noted
    BY <1>1, <1>5, <2>1, CallerEffect
  <2>3. PhaseInv(m)'
    BY <1>1, <1>2, <2>2 DEF LocalInv, PhaseInv
  <2>4. FoundInv(m)'
    BY <2>1, <2>2 DEF FoundInv, Saving
  <2>5. NotedInv(m)'
    BY <1>2, <2>2 DEF LocalInv, NotedInv, DocsGrow
  <2>6. SaveInv(<<"hook", m>>)' /\ SaveInv(<<"review", m>>)'
    <3>1. IsFiniteSet({})
      BY FS_EmptySet
    <3> QED
      BY <1>1, <1>2, <2>2, <3>1 DEF LocalInv, SaveInv, DocsGrow
  <2> QED
    BY <2>3, <2>4, <2>5, <2>6 DEF LocalInv
<1> QED
  BY <1>3, <1>4, <1>5

(* A webhook that is done has left the newest commit to its review, if it   *)
(* was to start one.                                                        *)
LEMMA CallerKeepsPush ==
  ASSUME StoreInv, NEW c \in Savers, save[c].at \in Saving, NEW outcome \in {"idle", "saved"},
         CallerGoesOn(c, outcome), head' = head, merged' = merged, blind \subseteq blind',
         \A i \in DOMAIN docs' :
           /\ docs'[i].commits <= head
           /\ docs'[i].commits = head =>
                \/ LookedAt \/ head \in blind'
                \/ i \in DOMAIN docs /\ docs[i].commits = head
  PROVE  PushInv'
<1> USE DEF StoreInv
<1>1. c[1] \in {"hook", "review"} /\ c[2] \in Hooks /\ c = <<c[1], c[2]>>
  BY SaverFacts
<1>2. /\ DOMAIN hook' = DOMAIN hook
      /\ \A m \in DOMAIN hook : c # <<"hook", m>> => hook'[m] = hook[m]
      /\ \A m \in Hooks : c[2] # m => review'[m] = review[m]
      /\ review'[c[2]].seen = review[c[2]].seen
      /\ c[1] = "hook" =>
           /\ hook[c[2]].at = "saving" /\ hook'[c[2]].at = "ended"
           /\ review[c[2]].at = "none"
           /\ hook[c[2]].trigger => review'[c[2]].at = "started"
      /\ c[1] = "review" => review[c[2]].at = "ended"
  BY CallerEffect DEF Ended
<1>3. \A m \in DOMAIN hook : c = <<"hook", m>> => c[1] = "hook" /\ c[2] = m
  OBVIOUS
<1>4. LookedAt => LookedAt'
  <2>1. \A n \in Hooks : review[n].seen = head => review'[n].seen = head
    BY <1>2
  <2>2. \A n \in Hooks : review[n].at = "started" => review'[n].at = "started"
    BY <1>1, <1>2
  <2>3. \A n \in DOMAIN hook : hook[n].at = "saving" /\ hook[n].trigger =>
          \/ n \in DOMAIN hook' /\ hook'[n].at = "saving" /\ hook'[n].trigger
          \/ review'[n].at = "started"
    BY <1>2, <1>3
  <2> QED
    BY <2>1, <2>2, <2>3, LookedAtStays
<1>5. Undecided => Undecided'
  <2> SUFFICES ASSUME NEW m \in DOMAIN hook,
                      \/ hook[m].at = "sent" /\ hook[m].kind \in {"created", "updated"}
                      \/ hook[m].at = "checking" /\ hook[m].commits = head
               PROVE  Undecided'
    BY DEF Undecided
  <2>1. hook'[m] = hook[m]
    BY <1>2, <1>3
  <2> QED
    BY <1>2, <2>1 DEF Undecided
<1>6. head \in blind' => LookedAt'
  BY DEF LookedAt
<1>7. \A m \in DOMAIN hook' :
        hook'[m].at = "saving" => m \in DOMAIN hook /\ hook'[m] = hook[m]
  BY <1>2, <1>3
<1> QED
  BY <1>4, <1>5, <1>6, <1>7, PushStays

LEMMA CreateKeepsInv ==
  ASSUME StoreInv, NEW c \in Savers, SaveCreates(c)
  PROVE  StoreInv'
<1> USE DEF StoreInv
<1> DEFINE files == SetToSeq({File(c, p) : p \in save[c].todo})
           new == [status |-> Status(c), commits |-> save[c].commits, files |-> files,
                   general |-> {}]
<1>1. /\ save[c].at = "creating" /\ save[c].at \in Saving
      /\ docs' = Append(docs, new) /\ blind' = blind \cup Unseen(c)
      /\ CallerGoesOn(c, "saved")
      /\ UNCHANGED <<head, merged, faults, overlapped>>
  BY DEF SaveCreates, Saving
<1>2. /\ c[1] \in {"hook", "review"} /\ c[2] \in Hooks /\ c = <<c[1], c[2]>>
      /\ docs \in Seq(DocRecords) /\ DOMAIN docs = 1..Len(docs) /\ Len(docs) \in Nat
      /\ save[c] \in SaveRecords
  BY StateFacts, SaverFacts DEF StoreTypeOK
<1>3. LocalInv(c[2])
  BY <1>2
<1>4. IsFiniteSet(save[c].todo)
  BY <1>2, <1>3 DEF LocalInv, SaveInv
<1>5. /\ files \in Seq(FileRecords)
      /\ \A p \in save[c].todo : \E i \in DOMAIN files : files[i] = File(c, p)
  BY <1>4, NewFiles
<1>6. /\ save[c].commits = head => LookedAt \/ head \in Unseen(c)
      /\ Unseen(c) \subseteq Nat /\ save[c].commits \in Nat /\ save[c].commits <= head
  BY <1>1, UnseenCovers
<1> HIDE DEF files
<1>7. new \in DocRecords /\ new.commits = save[c].commits /\ new.files = files
  BY <1>5, <1>6 DEF DocRecords, Status
<1> HIDE DEF new
<1>8. /\ docs' \in Seq(DocRecords) /\ Len(docs') = Len(docs) + 1 /\ docs' # <<>>
      /\ DOMAIN docs' = 1..(Len(docs) + 1) /\ docs'[Len(docs) + 1] = new
      /\ \A d \in DOMAIN docs : d \in DOMAIN docs' /\ docs'[d] = docs[d]
  BY <1>1, <1>2, <1>7
<1>9. docs # <<>> => 1 \in DOMAIN docs /\ docs'[1] = docs[1]
  BY <1>2, <1>8
<1>10. DocsGrow
  <2>1. ASSUME NEW m \in Hooks, Found(m)
        PROVE  Found(m)'
    <3>1. docs # <<>> /\ Len(docs) <= Len(docs') /\ Len(docs') \in Nat
      BY <1>2, <1>8, <2>1 DEF Found
    <3> QED
      BY <1>2, <1>8, <1>9, <2>1, <3>1, FoundIn
  <2>2. \A d \in DOMAIN docs : \A p \in Paths : HasPath(docs[d], p) => HasPath(docs'[d], p)
    BY <1>8
  <2> QED
    BY <1>1, <1>8, <1>9, <2>1, <2>2 DEF DocsGrow
<1>11. ASSUME c[1] = "review"
       PROVE  Found(c[2])'
  <2>1. PICK p \in Paths : review[c[2]].path = {p} /\ p \in save[c].todo
    BY <1>1, <1>2, <1>3, <1>11 DEF LocalInv, FoundInv, Ahead
  <2>2. PICK i \in DOMAIN files : files[i] = File(c, p)
    BY <1>5, <2>1
  <2>3. c[2] \in File(c, p).suggestions
    BY <1>11, <2>1 DEF File, SuggestionsFor
  <2>4. CASE docs = <<>>
    <3>1. docs'[1] = new /\ docs' # <<>>
      BY <1>1, <2>4
    <3>2. \E j \in DOMAIN docs'[1].files : c[2] \in docs'[1].files[j].suggestions
      BY <1>7, <2>2, <2>3, <3>1
    <3> QED
      BY <3>1, <3>2 DEF Found
  <2>5. CASE docs # <<>>
    <3>1. Len(docs') > 1 /\ docs' # <<>>
      BY <1>2, <1>8, <2>5
    <3> QED
      BY <3>1 DEF Found
  <2> QED
    BY <2>4, <2>5
<1>12. \A m \in Hooks : LocalInv(m)'
  BY <1>1, <1>10, <1>11, CallerKeepsLocal
<1>13. PushInv'
  <2>1. \A i \in DOMAIN docs' :
          /\ docs'[i].commits <= head
          /\ docs'[i].commits = head =>
               \/ LookedAt \/ head \in blind'
               \/ i \in DOMAIN docs /\ docs[i].commits = head
    <3> SUFFICES ASSUME NEW i \in DOMAIN docs'
                 PROVE  /\ docs'[i].commits <= head
                        /\ docs'[i].commits = head =>
                             \/ LookedAt \/ head \in blind'
                             \/ i \in DOMAIN docs /\ docs[i].commits = head
      OBVIOUS
    <3>1. CASE i \in DOMAIN docs
      BY <1>8, <3>1 DEF PushInv
    <3>2. CASE i \notin DOMAIN docs
      <4>1. docs'[i] = new
        BY <1>2, <1>8, <3>2
      <4> QED
        BY <1>1, <1>6, <1>7, <4>1
    <3> QED
      BY <3>1, <3>2
  <2> QED
    BY <1>1, <2>1, CallerKeepsPush
<1>14. StoreTypeOK'
  <2>1. /\ save' \in [Savers -> SaveRecords] /\ hook' \in Seq(HookRecords)
        /\ Len(hook') = Len(hook) /\ review' \in [Hooks -> ReviewRecords]
    BY <1>1, CallerEffect
  <2>2. blind' \subseteq Nat
    BY <1>1, <1>6 DEF StoreTypeOK
  <2> QED
    BY <1>1, <1>8, <2>1, <2>2 DEF StoreTypeOK
<1> QED
  BY <1>12, <1>13, <1>14

(* A save that goes through all its files has not lost the one that has a   *)
(* suggestion; one that fails promises nothing.                             *)
LEMMA EndKeepsInv ==
  ASSUME StoreInv, NEW c \in Savers, SaveEnds(c) \/ SaveFails(c)
  PROVE  StoreInv'
<1> USE DEF StoreInv
<1>1. c[1] \in {"hook", "review"} /\ c[2] \in Hooks /\ c = <<c[1], c[2]>> /\ faults \in Nat
  BY SaverFacts DEF StoreTypeOK
<1>2. PICK outcome \in {"idle", "saved"} :
        /\ save[c].at \in Saving
        /\ CallerGoesOn(c, outcome)
        /\ UNCHANGED <<head, merged, docs, blind, overlapped>> /\ faults' \in Nat
        /\ outcome = "saved" => save[c].at = "filing" /\ save[c].todo = {}
  <2>1. CASE SaveEnds(c)
    BY <1>1, <2>1 DEF SaveEnds, Saving
  <2>2. CASE SaveFails(c)
    BY <1>1, <2>2 DEF SaveFails, Saving, Fault
  <2> QED
    BY <2>1, <2>2
<1>3. DocsGrow
  BY <1>2, SameDocsGrow
<1>4. c[1] = "review" /\ outcome = "saved" => Found(c[2])'
  <2> SUFFICES ASSUME c[1] = "review", outcome = "saved"
               PROVE  Found(c[2])'
    OBVIOUS
  <2>1. LocalInv(c[2]) /\ c = <<"review", c[2]>>
    BY <1>1
  <2>2. Found(c[2])
    BY <1>2, <2>1 DEF LocalInv, FoundInv, Ahead
  <2> QED
    BY <1>2, <2>2 DEF Found
<1>5. \A m \in Hooks : LocalInv(m)'
  BY <1>2, <1>3, <1>4, CallerKeepsLocal
<1>6. PushInv'
  <2>1. \A i \in DOMAIN docs' : docs'[i].commits <= head /\ i \in DOMAIN docs
                               /\ docs'[i].commits = docs[i].commits
    BY <1>2 DEF PushInv
  <2> QED
    BY <1>2, <2>1, CallerKeepsPush
<1>7. StoreTypeOK'
  <2>1. /\ save' \in [Savers -> SaveRecords] /\ hook' \in Seq(HookRecords)
        /\ Len(hook') = Len(hook) /\ review' \in [Hooks -> ReviewRecords]
    BY <1>2, CallerEffect
  <2> QED
    BY <1>2, <2>1 DEF StoreTypeOK
<1> QED
  BY <1>5, <1>6, <1>7

-----------------------------------------------------------------------------
(* The reviews.  What one does changes its own progress, and a save only by *)
(* beginning one.                                                           *)
LEMMA ReviewStep ==
  ASSUME StoreInv, NEW n \in Hooks, UNCHANGED <<head, merged, hook, faults, blind>>,
         DocsGrow, overlapped' \subseteq Hooks, docs' \in Seq(DocRecords),
         DOMAIN docs' = DOMAIN docs,
         \A i \in DOMAIN docs : docs'[i].commits = docs[i].commits,
         review' \in [Hooks -> ReviewRecords],
         \A m \in Hooks \ {n} : review'[m] = review[m],
         review[n].at \in {"started", "noting", "writing"},
         review'[n].at \in {"noting", "writing", "ended"},
         review'[n].seen = (IF review[n].at = "started" THEN head ELSE review[n].seen),
         review'[n].path = {} \/ \E p \in FilesAt[review'[n].seen] : review'[n].path = {p},
         review'[n].at = "writing" => docs' # <<>>,
         review'[n].noted => \/ review[n].noted
                             \/ docs' # <<>> /\ n \in docs'[1].general \cup overlapped',
         \/ UNCHANGED save /\ (review'[n].at # "ended" \/ review'[n].path = {})
         \/ /\ review'[n].at = "ended" /\ review'[n].path # {}
            /\ save' = [save EXCEPT ![<<"review", n>>].at = "fetching"]
  PROVE  StoreInv'
<1> USE DEF StoreInv
<1> DEFINE c == <<"review", n>>
<1>1. /\ c \in Savers /\ <<"hook", n>> \in Savers /\ c # <<"hook", n>>
      /\ save \in [Savers -> SaveRecords] /\ save[c] \in SaveRecords
      /\ head \in Nat /\ head \in DOMAIN FilesAt /\ LocalInv(n)
  BY StateFacts, SaverFacts DEF StoreTypeOK
<1>2. /\ save[c].at = "idle"
      /\ n \in DOMAIN hook /\ hook[n].at = "ended"
  BY <1>1 DEF LocalInv, PhaseInv
<1>3. /\ save' \in [Savers -> SaveRecords] /\ \A d \in Savers : d # c => save'[d] = save[d]
      /\ save'[c].todo = save[c].todo /\ save'[c].commits = save[c].commits
      /\ \/ save'[c].at = "idle" /\ (review'[n].at # "ended" \/ review'[n].path = {})
         \/ save'[c].at = "fetching" /\ review'[n].at = "ended" /\ review'[n].path # {}
  <2>1. CASE UNCHANGED save /\ (review'[n].at # "ended" \/ review'[n].path = {})
    BY <1>1, <1>2, <2>1
  <2>2. CASE /\ review'[n].at = "ended" /\ review'[n].path # {}
             /\ save' = [save EXCEPT ![c].at = "fetching"]
    <3> HIDE DEF c
    <3> QED
      BY <1>1, <2>2 DEF SaveRecords
  <2> QED
    BY <2>1, <2>2
<1>4. ASSUME NEW m \in Hooks
      PROVE  LocalInv(m)'
  <2>1. <<"hook", m>> \in Savers /\ <<"review", m>> \in Savers /\ <<"hook", m>> # c
        /\ save'[<<"hook", m>>] = save[<<"hook", m>>]
    BY <1>3, SaverFacts
  <2>2. CASE m # n
    <3>1. save'[<<"review", m>>] = save[<<"review", m>>] /\ review'[m] = review[m]
      BY <1>3, <2>1, <2>2, SaverFacts
    <3>2. head' \in Nat /\ head <= head' /\ LocalInv(m)
      BY <1>1
    <3> QED
      BY <2>1, <3>1, <3>2, LocalStays
  <2>3. CASE m = n
    <3>1. review[n].seen \in Nat /\ review[n].seen <= head
      BY <1>1, StateFacts DEF LocalInv, PhaseInv, ReviewRecords
    <3>2. review'[n].seen \in DOMAIN FilesAt /\ review'[n].seen <= head
      BY <1>1, <3>1 DEF LocalInv, FoundInv
    <3>3. PhaseInv(n)'
      BY <1>1, <1>2, <1>3, <2>1, <2>3, <3>2 DEF LocalInv, PhaseInv, Saving
    <3>4. FoundInv(n)'
      <4>1. CASE save'[c].at = "idle"
        BY <3>2, <4>1 DEF FoundInv, Saving
      <4>2. CASE save'[c].at = "fetching" /\ review'[n].at = "ended" /\ review'[n].path # {}
        <5>1. PICK p \in FilesAt[review'[n].seen] : review'[n].path = {p}
          BY <4>2
        <5>2. p \in Paths
          BY <3>2 DEF Paths
        <5>3. Ahead(n, p)'
          BY <3>2, <4>2, <5>1 DEF Ahead
        <5> QED
          BY <4>2, <5>1, <5>2, <5>3 DEF FoundInv
      <4> QED
        BY <1>3, <4>1, <4>2
    <3>5. NotedInv(n)'
      <4>1. review[n].noted => docs' # <<>> /\ n \in docs'[1].general \cup overlapped'
        BY <1>1 DEF LocalInv, NotedInv, DocsGrow
      <4> QED
        BY <4>1 DEF NotedInv
    <3>6. SaveInv(<<"hook", n>>)' /\ SaveInv(c)'
      BY <1>1, <1>3, <2>1, <2>3 DEF LocalInv, SaveInv, DocsGrow
    <3> QED
      BY <2>3, <3>3, <3>4, <3>5, <3>6 DEF LocalInv
  <2> QED
    BY <2>2, <2>3
<1> HIDE DEF c
<1>5. StoreTypeOK'
  BY <1>3 DEF StoreTypeOK
<1>6. PushInv'
  <2>1. LookedAt => LookedAt'
    BY LookedAtStays
  <2>2. Undecided => Undecided'
    BY DEF Undecided
  <2> QED
    BY <2>1, <2>2, PushStays DEF PushInv
<1> QED
  BY <1>4, <1>5, <1>6

LEMMA AnalyseKeepsInv ==
  ASSUME StoreInv, NEW n \in Hooks, Analyse(n)
  PROVE  StoreInv'
<1>1. /\ review \in [Hooks -> ReviewRecords] /\ review[n] \in ReviewRecords
      /\ head \in Nat /\ head \in DOMAIN FilesAt
      /\ docs \in Seq(DocRecords) /\ overlapped \subseteq Hooks
  BY StateFacts DEF StoreInv, StoreTypeOK
<1>2. PICK path \in {{}} \cup {{p} : p \in FilesAt[head]} :
        \/ /\ review' = [review EXCEPT ![n].at = "noting", ![n].seen = head, ![n].path = path]
           /\ UNCHANGED save
        \/ /\ review' = [review EXCEPT ![n].at = "ended", ![n].seen = head, ![n].path = path]
           /\ NowSaves(n, path)
  BY DEF Analyse
<1>3. /\ review[n].at = "started"
      /\ UNCHANGED <<head, merged, hook, docs, faults, blind, overlapped>>
  BY DEF Analyse
<1>4. path \subseteq Paths /\ (path = {} \/ \E p \in FilesAt[head] : path = {p})
  BY <1>1 DEF Paths
<1>5. PICK at \in {"noting", "ended"} :
        /\ review' = [review EXCEPT ![n].at = at, ![n].seen = head, ![n].path = path]
        /\ \/ UNCHANGED save /\ (at # "ended" \/ path = {})
           \/ /\ at = "ended" /\ path # {}
              /\ save' = [save EXCEPT ![<<"review", n>>].at = "fetching"]
  BY <1>2 DEF NowSaves
<1>6. /\ review' \in [Hooks -> ReviewRecords]
      /\ \A m \in Hooks \ {n} : review'[m] = review[m]
      /\ review'[n].at = at /\ review'[n].seen = head /\ review'[n].path = path
      /\ review'[n].noted = review[n].noted
  BY <1>1, <1>4, <1>5 DEF ReviewRecords
<1>7. DocsGrow
  BY <1>3, SameDocsGrow
<1>8. /\ review'[n].path = {} \/ \E p \in FilesAt[review'[n].seen] : review'[n].path = {p}
      /\ review'[n].noted => \/ review[n].noted
                             \/ docs' # <<>> /\ n \in docs'[1].general \cup overlapped'
      /\ docs' \in Seq(DocRecords) /\ overlapped' \subseteq Hooks
  BY <1>1, <1>3, <1>4, <1>6
<1>9. \/ UNCHANGED save /\ (review'[n].at # "ended" \/ review'[n].path = {})
      \/ /\ review'[n].at = "ended" /\ review'[n].path # {}
         /\ save' = [save EXCEPT ![<<"review", n>>].at = "fetching"]
  BY <1>5, <1>6
<1> QED
  BY <1>3, <1>6, <1>7, <1>8, <1>9, ReviewStep

LEMMA ReadKeepsInv ==
  ASSUME StoreInv, NEW n \in Hooks, ReadGeneral(n)
  PROVE  StoreInv'
<1>1. /\ review \in [Hooks -> ReviewRecords] /\ review[n] \in ReviewRecords
      /\ docs \in Seq(DocRecords) /\ overlapped \subseteq Hooks
      /\ docs # <<>> => docs[1].general \subseteq Hooks
  <2>1. docs # <<>> => docs[1] \in DocRecords
    BY StateFacts DEF StoreInv
  <2> QED
    BY <2>1, StateFacts DEF StoreInv, StoreTypeOK, DocRecords
<1>2. /\ review[n].at = "noting"
      /\ UNCHANGED <<head, merged, hook, docs, faults, blind, overlapped>>
  BY DEF ReadGeneral
<1>3. review[n].path = {} \/ \E p \in FilesAt[review[n].seen] : review[n].path = {p}
  BY <1>2 DEF StoreInv, LocalInv, FoundInv
<1>4. DocsGrow
  BY <1>2, SameDocsGrow
<1>5. CASE /\ docs = <<>>
           /\ review' = [review EXCEPT ![n].at = "ended"]
           /\ NowSaves(n, review[n].path)
  <2>1. /\ review' \in [Hooks -> ReviewRecords]
        /\ \A m \in Hooks \ {n} : review'[m] = review[m]
        /\ review'[n].at = "ended" /\ review'[n].seen = review[n].seen
        /\ review'[n].path = review[n].path /\ review'[n].noted = review[n].noted
    BY <1>1, <1>5 DEF ReviewRecords
  <2>2. \/ UNCHANGED save /\ review[n].path = {}
        \/ /\ review[n].path # {}
           /\ save' = [save EXCEPT ![<<"review", n>>].at = "fetching"]
    BY <1>5 DEF NowSaves
  <2> QED
    BY <1>1, <1>2, <1>3, <1>4, <2>1, <2>2, ReviewStep
<1>6. CASE /\ docs # <<>>
           /\ review' = [review EXCEPT ![n].at = "writing", ![n].read = docs[1].general]
           /\ UNCHANGED save
  <2>1. /\ review' \in [Hooks -> ReviewRecords]
        /\ \A m \in Hooks \ {n} : review'[m] = review[m]
        /\ review'[n].at = "writing" /\ review'[n].seen = review[n].seen
        /\ review'[n].path = review[n].path /\ review'[n].noted = review[n].noted
    BY <1>1, <1>6 DEF ReviewRecords
  <2>2. /\ review'[n].path = {} \/ \E p \in FilesAt[review'[n].seen] : review'[n].path = {p}
        /\ docs' # <<>> /\ docs' \in Seq(DocRecords) /\ overlapped' \subseteq Hooks
        /\ review'[n].noted => review[n].noted
        /\ UNCHANGED save /\ review'[n].at # "ended" /\ review[n].at # "started"
    BY <1>1, <1>2, <1>3, <1>6, <2>1
  <2> QED
    BY <1>2, <1>4, <2>1, <2>2, ReviewStep
<1> QED
  BY <1>5, <1>6 DEF ReadGeneral

(* What a review writes back replaces the list; whatever it had not read is *)
(* counted as overlapped.                                                   *)
LEMMA WriteGeneralKeepsInv ==
  ASSUME StoreInv, NEW n \in Hooks, WriteGeneral(n)
  PROVE  StoreInv'
<1> DEFINE general == review[n].read \cup {n}
           doc == [docs[1] EXCEPT !.general = general]
<1>1. /\ review \in [Hooks -> ReviewRecords] /\ review[n] \in ReviewRecords
      /\ docs \in Seq(DocRecords) /\ overlapped \subseteq Hooks
      /\ DOMAIN docs = 1..Len(docs) /\ Len(docs) \in Nat
  BY StateFacts DEF StoreInv, StoreTypeOK
<1>2. /\ review[n].at = "writing"
      /\ docs' = [docs EXCEPT ![1] = doc]
      /\ overlapped' = overlapped \cup (docs[1].general \ review[n].read)
      /\ review' = [review EXCEPT ![n].at = "ended", ![n].read = {}, ![n].noted = TRUE]
      /\ NowSaves(n, review[n].path)
      /\ UNCHANGED <<head, merged, hook, faults, blind>>
  BY DEF WriteGeneral
<1>3. /\ docs # <<>>
      /\ review[n].path = {} \/ \E p \in FilesAt[review[n].seen] : review[n].path = {p}
  BY <1>2 DEF StoreInv, LocalInv, NotedInv, FoundInv
<1>4. 1 \in DOMAIN docs /\ docs[1] \in DocRecords
  BY <1>1, <1>3, StateFacts DEF StoreInv
<1>5. general \subseteq Hooks /\ n \in general /\ review[n].read \subseteq general
  BY <1>1 DEF ReviewRecords
<1> HIDE DEF general
<1>6. /\ doc \in DocRecords /\ doc.general = general /\ doc.files = docs[1].files
      /\ doc.commits = docs[1].commits
  BY <1>4, <1>5 DEF DocRecords
<1> HIDE DEF doc
<1>7. /\ docs' \in Seq(DocRecords) /\ DOMAIN docs' = DOMAIN docs /\ Len(docs') = Len(docs)
      /\ docs' # <<>> /\ docs'[1] = doc /\ \A d \in DOMAIN docs : d # 1 => docs'[d] = docs[d]
  BY <1>1, <1>2, <1>3, <1>4, <1>6
<1>8. DocsGrow
  <2>1. docs[1].general \cup overlapped \subseteq docs'[1].general \cup overlapped'
    BY <1>2, <1>5, <1>6, <1>7
  <2>2. \A d \in DOMAIN docs : docs'[d].files = docs[d].files
    BY <1>6, <1>7
  <2>3. \A d \in DOMAIN docs : \A p \in Paths : HasPath(docs[d], p) => HasPath(docs'[d], p)
    BY <2>2 DEF HasPath
  <2>4. \A m \in Hooks : Found(m) => Found(m)'
    BY <1>1, <1>3, <1>4, <1>7, <2>2, FoundIn
  <2> QED
    BY <1>7, <2>1, <2>3, <2>4 DEF DocsGrow
<1>9. overlapped' \subseteq Hooks /\ n \in docs'[1].general
  BY <1>1, <1>2, <1>4, <1>5, <1>6, <1>7 DEF DocRecords
<1>10. /\ review' \in [Hooks -> ReviewRecords]
       /\ \A m \in Hooks \ {n} : review'[m] = review[m]
       /\ review'[n].at = "ended" /\ review'[n].seen = review[n].seen
       /\ review'[n].path = review[n].path
  BY <1>1, <1>2 DEF ReviewRecords
<1>11. \/ UNCHANGED save /\ review[n].path = {}
       \/ /\ review[n].path # {}
          /\ save' = [save EXCEPT ![<<"review", n>>].at = "fetching"]
  BY <1>2 DEF NowSaves
<1>12. \A d \in DOMAIN docs : docs'[d].commits = docs[d].commits
  BY <1>6, <1>7
<1> QED
  <2>1. review'[n].path = {} \/ \E p \in FilesAt[review'[n].seen] : review'[n].path = {p}
    BY <1>3, <1>10
  <2>2. \/ UNCHANGED save /\ review'[n].path = {}
        \/ /\ review'[n].path # {}
           /\ save' = [save EXCEPT ![<<"review", n>>].at = "fetching"]
    BY <1>10, <1>11
  <2>3. docs' # <<>> /\ n \in docs'[1].general \cup overlapped' /\ overlapped' \subseteq Hooks
    BY <1>7, <1>9
  <2>4. /\ UNCHANGED <<head, merged, hook, faults, blind>> /\ review[n].at = "writing"
        /\ docs' \in Seq(DocRecords) /\ DOMAIN docs' = DOMAIN docs
    BY <1>2, <1>7
  <2> QED
    BY <1>8, <1>10, <1>12, <2>1, <2>2, <2>3, <2>4, ReviewStep

-----------------------------------------------------------------------------
LEMMA StoreInitInv == StoreInit => StoreInv
<1> SUFFICES ASSUME StoreInit
             PROVE  StoreInv
  OBVIOUS
<1> USE DEF StoreInit
<1> DEFINE first == [kind |-> "created", at |-> "sent", commits |-> 0, trigger |-> FALSE]
<1>1. /\ head = 1 /\ head \in 1..Len(FilesAt) /\ Len(FilesAt) \in Nat
      /\ MaxHooks \in Nat /\ MaxHooks >= 1
  BY StoreAssumption
<1>2. first \in HookRecords
  BY DEF HookRecords
<1>3. /\ hook \in Seq(HookRecords) /\ Len(hook) = 1 /\ DOMAIN hook = {1} /\ hook[1] = first
  BY <1>2
<1>4. \A n \in Hooks : review[n] = NoReview
  OBVIOUS
<1>5. \A c \in Savers : save[c] = NoSave
  OBVIOUS
<1>6. StoreTypeOK
  <2>1. NoReview \in ReviewRecords /\ NoSave \in SaveRecords
    BY DEF NoReview, ReviewRecords, NoSave, SaveRecords
  <2>2. review \in [Hooks -> ReviewRecords] /\ save \in [Savers -> SaveRecords]
    BY <2>1
  <2>3. docs \in Seq(DocRecords)
    OBVIOUS
  <2> QED
    BY <1>1, <1>3, <2>2, <2>3 DEF StoreTypeOK
<1>7. PushInv
  <2>1. Undecided
    BY <1>3 DEF Undecided
  <2>2. \A n \in DOMAIN hook : hook[n].at = "sent"
    BY <1>3
  <2> QED
    BY <2>1, <2>2 DEF PushInv
<1>8. ASSUME NEW n \in Hooks
      PROVE  LocalInv(n)
  <2>1. /\ review[n] = NoReview /\ save[<<"hook", n>>] = NoSave /\ save[<<"review", n>>] = NoSave
    BY <1>4, <1>5, SaverFacts
  <2>2. n \in DOMAIN hook => hook[n] = first
    BY <1>3
  <2>3. PhaseInv(n)
    BY <1>1, <2>1, <2>2 DEF PhaseInv, NoReview, NoSave, Saving
  <2>4. FoundInv(n) /\ NotedInv(n)
    BY <2>1 DEF FoundInv, NotedInv, NoReview, NoSave, Saving
  <2>5. SaveInv(<<"hook", n>>) /\ SaveInv(<<"review", n>>)
    <3>1. IsFiniteSet({})
      BY FS_EmptySet
    <3> QED
      <4>1. NoSave.at = "idle" /\ NoSave.todo = {} /\ NoSave.commits <= head
        BY <1>1 DEF NoSave
      <4> HIDE DEF StoreInit
      <4> QED
        BY <2>1, <3>1, <4>1 DEF SaveInv
  <2> QED
    BY <2>3, <2>4, <2>5 DEF LocalInv
<1> QED
  BY <1>6, <1>7, <1>8 DEF StoreInv

(* Every step keeps the invariant.                                          *)
THEOREM StoreHolds == StoreSpec => []StoreInv
<1>1. StoreInv /\ [StoreNext]_storeVars => StoreInv'
  <2> SUFFICES ASSUME StoreInv, [StoreNext]_storeVars
               PROVE  StoreInv'
    OBVIOUS
  <2>1. CASE Push \/ Edit \/ Merge
    BY <2>1, PlatformKeepsInv
  <2>2. ASSUME NEW n \in DOMAIN hook, FetchCommits(n) \/ Decide(n)
        PROVE  StoreInv'
    BY <2>2, FetchCommitsKeepsInv, DecideKeepsInv
  <2>3. ASSUME NEW c \in Savers,
               \/ SaveFetches(c) \/ SaveFinds(c) \/ SaveCreates(c) \/ SaveUpdates(c)
               \/ FindFile(c) \/ WriteFile(c) \/ SaveEnds(c) \/ SaveFails(c)
        PROVE  StoreInv'
    BY <2>3, ReadingKeepsInv, CreateKeepsInv, UpdateKeepsInv, WriteKeepsInv, EndKeepsInv
  <2>4. ASSUME NEW n \in Hooks, Analyse(n) \/ ReadGeneral(n) \/ WriteGeneral(n)
        PROVE  StoreInv'
    BY <2>4, AnalyseKeepsInv, ReadKeepsInv, WriteGeneralKeepsInv
  <2>5. CASE UNCHANGED storeVars
    <3> USE <2>5 DEF storeVars
    <3>1. StoreTypeOK' /\ PushInv'
      BY DEF StoreInv, StoreTypeOK, PushInv, LookedAt, Undecided
    <3>2. ASSUME NEW n \in Hooks
          PROVE  LocalInv(n)'
      <4>1. LocalInv(n)
        BY DEF StoreInv
      <4>2. PhaseInv(n)' /\ NotedInv(n)'
        BY <4>1 DEF LocalInv, PhaseInv, NotedInv
      <4>3. SaveInv(<<"hook", n>>)' /\ SaveInv(<<"review", n>>)'
        BY <4>1 DEF LocalInv, SaveInv
      <4>4. FoundInv(n)'
        BY <4>1 DEF LocalInv, FoundInv, Ahead, Found, HasPath
      <4> QED
        BY <4>2, <4>3, <4>4 DEF LocalInv
    <3> QED
      BY <3>1, <3>2 DEF StoreInv
  <2> QED
    BY <2>1, <2>2, <2>3, <2>4, <2>5 DEF StoreNext
<1> QED
  BY StoreInitInv, <1>1, PTL DEF StoreSpec

(* A push is looked at, or stored blindly, by the time every webhook has    *)
(* been handled: by then nobody is left to decide about it, or to start the *)
(* review that is due.                                                      *)
THEOREM PushesAreSeen == StoreSpec => []NoPushIgnored
<1>1. StoreInv => NoPushIgnored
  <2> SUFFICES ASSUME StoreInv, Quiet, ~merged
               PROVE  (\E n \in Hooks : review[n].seen = head) \/ head \in blind
    BY DEF NoPushIgnored
  <2>1. ~Undecided
    BY DEF Quiet, Undecided
  <2>2. LookedAt
    BY <2>1 DEF StoreInv, PushInv
  <2> QED
    BY <2>2 DEF LookedAt, Quiet
<1> QED
  BY StoreHolds, <1>1, PTL

(* A suggestion that a review saved is in the record that readers find, but *)
(* for the two interleavings the property names.                            *)
THEOREM SuggestionsAreFound == StoreSpec => []SavedIsFound
<1>1. StoreInv => SavedIsFound
  BY DEF StoreInv, LocalInv, FoundInv, NotedInv, Found, SavedIsFound
<1> QED
  BY StoreHolds, <1>1, PTL
===============================================================================
