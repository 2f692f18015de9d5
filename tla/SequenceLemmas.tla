--------------------------- MODULE SequenceLemmas ---------------------------
(***************************************************************************)
(* Lemmas about the queues of the event runtime: sequences of calls in     *)
(* which no call occurs twice.                                             *)
(***************************************************************************)
EXTENDS SequencesExt, FiniteSetTheorems, SequenceTheorems, TLAPS

(* The positions and elements of a sequence.                                *)
LEMMA SeqFacts ==
  ASSUME NEW S, NEW q \in Seq(S)
  PROVE  /\ Len(q) \in Nat /\ DOMAIN q = 1..Len(q)
         /\ \A i \in 1..Len(q) : q[i] \in S
         /\ \A x : x \in ToSet(q) <=> \E i \in 1..Len(q) : q[i] = x
         /\ ToSet(q) \subseteq S
         /\ q = <<>> <=> Len(q) = 0
         /\ \A x : Contains(q, x) <=> x \in ToSet(q)
BY DEF ToSet, Contains

(* A part of a sequence.                                                    *)
LEMMA PartOf ==
  ASSUME NEW S, NEW q \in Seq(S), NEW m \in Nat \ {0}, NEW n \in Nat,
         m <= n + 1, n <= Len(q)
  PROVE  LET p == SubSeq(q, m, n) IN
         /\ p \in Seq(S) /\ Len(p) = n - m + 1
         /\ \A i \in 1..(n - m + 1) : p[i] = q[m + i - 1]
         /\ \A x : x \in ToSet(p) <=> \E i \in m..n : q[i] = x
         /\ IsInjective(q) => IsInjective(p)
<1> DEFINE p == SubSeq(q, m, n)
<1>1. Len(q) \in Nat /\ DOMAIN q = 1..Len(q) /\ \A i \in m..n : q[i] \in S
  BY SeqFacts
<1>2. /\ p \in Seq(S) /\ Len(p) = n - m + 1
      /\ \A i \in 1..(n - m + 1) : p[i] = q[m + i - 1]
  BY <1>1, SubSeqProperties
<1> HIDE DEF p
<1>3. DOMAIN p = 1..(n - m + 1)
  BY <1>2
<1>4. ASSUME NEW x
      PROVE  x \in ToSet(p) <=> \E i \in m..n : q[i] = x
  <2>1. ASSUME NEW i \in 1..(n - m + 1), p[i] = x
        PROVE  \E j \in m..n : q[j] = x
    <3>1. m + i - 1 \in m..n
      OBVIOUS
    <3> QED
      BY <1>2, <2>1, <3>1
  <2>2. ASSUME NEW j \in m..n, q[j] = x
        PROVE  \E i \in 1..(n - m + 1) : p[i] = x
    <3>1. j - m + 1 \in 1..(n - m + 1) /\ m + (j - m + 1) - 1 = j
      OBVIOUS
    <3> QED
      BY <1>2, <2>2, <3>1
  <2> QED
    BY <1>3, <2>1, <2>2 DEF ToSet
<1>5. ASSUME IsInjective(q)
      PROVE  IsInjective(p)
  <2> SUFFICES ASSUME NEW i \in 1..(n - m + 1), NEW j \in 1..(n - m + 1), p[i] = p[j]
               PROVE  i = j
    BY <1>3 DEF IsInjective
  <2>1. m + i - 1 \in DOMAIN q /\ m + j - 1 \in DOMAIN q
    BY <1>1
  <2>2. m + i - 1 = m + j - 1
    BY <1>2, <1>5, <2>1 DEF IsInjective
  <2> QED
    BY <2>2
<1> QED
  BY <1>2, <1>4, <1>5 DEF p

(* An element put in at a position.                                         *)
LEMMA InsertPlaces ==
  ASSUME NEW S, NEW q \in Seq(S), NEW e \in S, NEW k \in 1..(Len(q) + 1)
  PROVE  LET a == InsertAt(q, k, e) IN
         /\ a \in Seq(S) /\ Len(a) = Len(q) + 1
         /\ \A i \in 1..(Len(q) + 1) :
              a[i] = IF i < k THEN q[i] ELSE IF i = k THEN e ELSE q[i - 1]
<1> DEFINE a == InsertAt(q, k, e)
           front == SubSeq(q, 1, k - 1)
           back  == SubSeq(q, k, Len(q))
           mid   == front \o <<e>>
<1>1. Len(q) \in Nat /\ DOMAIN q = 1..Len(q) /\ \A i \in 1..Len(q) : q[i] \in S
  BY SeqFacts
<1>2. /\ front \in Seq(S) /\ Len(front) = k - 1
      /\ \A i \in 1..(k - 1) : front[i] = q[i]
  <2>1. 1 <= (k - 1) + 1 /\ k - 1 <= Len(q) /\ k - 1 \in Nat
    BY <1>1
  <2> QED
    BY <1>1, <2>1, SubSeqProperties
<1>3. /\ back \in Seq(S) /\ Len(back) = Len(q) - k + 1
      /\ \A i \in 1..(Len(q) - k + 1) : back[i] = q[k + i - 1]
  BY <1>1, SubSeqProperties
<1>4. /\ mid \in Seq(S) /\ Len(mid) = k
      /\ \A i \in 1..k : mid[i] = IF i < k THEN q[i] ELSE e
  <2> HIDE DEF front
  <2>1. <<e>> \in Seq(S) /\ Len(<<e>>) = 1 /\ <<e>>[1] = e
    OBVIOUS
  <2>2. /\ mid \in Seq(S) /\ Len(mid) = k - 1 + 1
        /\ \A i \in 1..(k - 1 + 1) :
             mid[i] = IF i <= k - 1 THEN front[i] ELSE <<e>>[i - (k - 1)]
    BY <1>2, <2>1, ConcatProperties
  <2> HIDE DEF mid
  <2>3. ASSUME NEW i \in 1..k PROVE mid[i] = IF i < k THEN q[i] ELSE e
    <3>1. CASE i < k
      BY <1>2, <2>2, <3>1
    <3>2. CASE i = k
      BY <2>1, <2>2, <3>2
    <3> QED
      BY <3>1, <3>2
  <2> QED
    BY <2>2, <2>3
<1> HIDE DEF front, back, mid
<1>5. a = mid \o back
  BY DEF InsertAt, mid, front, back
<1> HIDE DEF a
<1>6. /\ a \in Seq(S) /\ Len(a) = Len(mid) + Len(back)
      /\ \A i \in 1..(Len(mid) + Len(back)) :
           a[i] = IF i <= Len(mid) THEN mid[i] ELSE back[i - Len(mid)]
  BY ONLY <1>3, <1>4, <1>5, ConcatProperties
<1>7. Len(a) = Len(q) + 1 /\ DOMAIN a = 1..(Len(q) + 1)
  BY <1>1, <1>3, <1>4, <1>6
<1>8. ASSUME NEW i \in 1..(Len(q) + 1)
      PROVE  a[i] = IF i < k THEN q[i] ELSE IF i = k THEN e ELSE q[i - 1]
  <2>1. a[i] = IF i <= k THEN mid[i] ELSE back[i - k]
    BY <1>1, <1>3, <1>4, <1>6
  <2>2. CASE i <= k
    BY <1>4, <2>1, <2>2
  <2>3. CASE i > k
    <3>1. i - k \in 1..(Len(q) - k + 1) /\ k + (i - k) - 1 = i - 1
      BY <1>1, <2>3
    <3> QED
      BY <1>3, <2>1, <2>3, <3>1
  <2> QED
    BY <1>1, <2>2, <2>3
<1> QED
  BY <1>6, <1>7, <1>8 DEF a

LEMMA InsertOnce ==
  ASSUME NEW S, NEW q \in Seq(S), NEW e \in S, NEW k \in 1..(Len(q) + 1)
  PROVE  LET a == InsertAt(q, k, e) IN
         /\ a \in Seq(S) /\ Len(a) = Len(q) + 1
         /\ \A i \in 1..(Len(q) + 1) :
              a[i] = IF i < k THEN q[i] ELSE IF i = k THEN e ELSE q[i - 1]
         /\ \A x : x \in ToSet(a) <=> x = e \/ x \in ToSet(q)
         /\ IsInjective(q) /\ e \notin ToSet(q) => IsInjective(a)
<1> DEFINE a == InsertAt(q, k, e)
<1>1. Len(q) \in Nat /\ DOMAIN q = 1..Len(q) /\ \A i \in 1..Len(q) : q[i] \in S
  BY SeqFacts
<1>6. /\ a \in Seq(S) /\ Len(a) = Len(q) + 1
      /\ \A i \in 1..(Len(q) + 1) :
           a[i] = IF i < k THEN q[i] ELSE IF i = k THEN e ELSE q[i - 1]
  <2>1. a \in Seq(S)
    BY InsertPlaces
  <2>2. Len(a) = Len(q) + 1
    BY InsertPlaces
  <2>3. ASSUME NEW i \in 1..(Len(q) + 1)
        PROVE  a[i] = IF i < k THEN q[i] ELSE IF i = k THEN e ELSE q[i - 1]
    BY InsertPlaces
  <2> QED
    BY <2>1, <2>2, <2>3
<1> HIDE DEF a
<1>7. Len(a) = Len(q) + 1 /\ DOMAIN a = 1..(Len(q) + 1)
  BY <1>6, SeqFacts
<1>8. \A i \in 1..(Len(q) + 1) : a[i] = IF i < k THEN q[i] ELSE IF i = k THEN e ELSE q[i - 1]
  BY <1>6
<1>9. ASSUME NEW x
      PROVE  x \in ToSet(a) <=> x = e \/ x \in ToSet(q)
  <2>1. ASSUME NEW j \in 1..Len(q), q[j] = x
        PROVE  \E i \in 1..(Len(q) + 1) : a[i] = x
    <3>1. CASE j < k
      BY <1>1, <1>8, <2>1, <3>1
    <3>2. CASE j >= k
      <4>1. j + 1 \in 1..(Len(q) + 1) /\ j + 1 > k /\ (j + 1) - 1 = j
        BY <1>1, <3>2
      <4>2. a[j + 1] = q[(j + 1) - 1]
        BY ONLY <1>8, <4>1
      <4> QED
        BY <2>1, <4>1, <4>2
    <3> QED
      BY <1>1, <3>1, <3>2
  <2>2. a[k] = e
    BY <1>8
  <2>3. ASSUME NEW i \in 1..(Len(q) + 1)
        PROVE  a[i] = e \/ \E j \in 1..Len(q) : q[j] = a[i]
    BY <1>1, <1>8
  <2> QED
    BY <1>1, <1>7, <2>1, <2>2, <2>3 DEF ToSet
<1>10. ASSUME IsInjective(q), e \notin ToSet(q)
       PROVE  IsInjective(a)
  <2>1. \A i \in 1..Len(q) : q[i] # e
    BY <1>1, <1>10 DEF ToSet
  <2>2. \A i, j \in 1..Len(q) : q[i] = q[j] => i = j
    BY <1>1, <1>10 DEF IsInjective
  <2> SUFFICES ASSUME NEW i \in 1..(Len(q) + 1), NEW j \in 1..(Len(q) + 1), a[i] = a[j]
               PROVE  i = j
    BY <1>7 DEF IsInjective
  <2> QED
    BY <1>1, <1>8, <2>1, <2>2
<1> QED
  BY <1>6, <1>7, <1>8, <1>9, <1>10 DEF a

(* An element added at the end, and one sequence after another.             *)
LEMMA AppendElements ==
  ASSUME NEW S, NEW q \in Seq(S), NEW e \in S
  PROVE  /\ Append(q, e) \in Seq(S)
         /\ \A x : x \in ToSet(Append(q, e)) <=> x = e \/ x \in ToSet(q)
<1> DEFINE a == Append(q, e)
<1>1. /\ a \in Seq(S) /\ Len(q) \in Nat /\ DOMAIN q = 1..Len(q)
      /\ DOMAIN a = 1..(Len(q) + 1)
      /\ \A i \in 1..Len(q) : a[i] = q[i]
      /\ a[Len(q) + 1] = e
  OBVIOUS
<1> HIDE DEF a
<1>2. \A x : x \in ToSet(a) <=> x = e \/ x \in ToSet(q)
  BY <1>1 DEF ToSet
<1> QED
  BY <1>1, <1>2 DEF a

LEMMA ConcatElements ==
  ASSUME NEW S, NEW p \in Seq(S), NEW q \in Seq(S)
  PROVE  p \o q \in Seq(S) /\ ToSet(p \o q) = ToSet(p) \cup ToSet(q)
<1> DEFINE a == p \o q
<1>1. /\ a \in Seq(S) /\ Len(a) = Len(p) + Len(q)
      /\ \A i \in 1..(Len(p) + Len(q)) : a[i] = IF i <= Len(p) THEN p[i] ELSE q[i - Len(p)]
  BY ConcatProperties
<1>2. /\ Len(p) \in Nat /\ Len(q) \in Nat
      /\ \A x : x \in ToSet(p) <=> \E i \in 1..Len(p) : p[i] = x
      /\ \A x : x \in ToSet(q) <=> \E i \in 1..Len(q) : q[i] = x
  BY SeqFacts
<1> HIDE DEF a
<1>3. \A x : x \in ToSet(a) <=> \E i \in 1..(Len(p) + Len(q)) : a[i] = x
  BY <1>1, SeqFacts
<1>4. ASSUME NEW i \in 1..Len(q) PROVE \E k \in 1..(Len(p) + Len(q)) : a[k] = q[i]
  <2>1. /\ Len(p) + i \in 1..(Len(p) + Len(q)) /\ ~(Len(p) + i <= Len(p))
        /\ (Len(p) + i) - Len(p) = i
    BY <1>2
  <2> QED
    BY <1>1, <2>1
<1>5. \A i \in 1..Len(p) : i \in 1..(Len(p) + Len(q)) /\ a[i] = p[i]
  BY <1>1, <1>2
<1>6. ASSUME NEW k \in 1..(Len(p) + Len(q)) PROVE a[k] \in ToSet(p) \cup ToSet(q)
  <2>1. CASE k <= Len(p)
    BY <1>1, <1>2, <2>1
  <2>2. CASE k > Len(p)
    <3>1. k - Len(p) \in 1..Len(q) /\ ~(k <= Len(p))
      BY <1>2, <2>2
    <3> QED
      BY <1>1, <1>2, <3>1
  <2> QED
    BY <1>2, <2>1, <2>2
<1>7. ToSet(a) = ToSet(p) \cup ToSet(q)
  BY <1>2, <1>3, <1>4, <1>5, <1>6
<1> QED
  BY <1>1, <1>7 DEF a

(* The first of a sequence and the others.                                  *)
LEMMA HeadAndTail ==
  ASSUME NEW S, NEW q \in Seq(S), q # <<>>
  PROVE  /\ Head(q) \in S /\ Head(q) \in ToSet(q)
         /\ Tail(q) \in Seq(S) /\ ToSet(Tail(q)) \subseteq ToSet(q)
         /\ Len(q) # 1 => Tail(q) # <<>>
<1> DEFINE t == Tail(q)
<1>1. /\ Len(q) \in Nat /\ Len(q) >= 1 /\ Head(q) = q[1]
      /\ \A i \in 1..Len(q) : q[i] \in S
      /\ t \in Seq(S) /\ Len(t) = Len(q) - 1
      /\ \A i \in 1..(Len(q) - 1) : t[i] = q[i + 1]
  OBVIOUS
<1> HIDE DEF t
<1>2. \A x : x \in ToSet(q) <=> \E i \in 1..Len(q) : q[i] = x
  BY SeqFacts
<1>3. \A x : x \in ToSet(t) <=> \E i \in 1..(Len(q) - 1) : t[i] = x
  BY <1>1, SeqFacts
<1>4. ASSUME NEW x \in ToSet(t)
      PROVE  x \in ToSet(q)
  <2>1. PICK i \in 1..(Len(q) - 1) : t[i] = x
    BY <1>3
  <2>2. i + 1 \in 1..Len(q) /\ q[i + 1] = x
    BY <1>1, <2>1
  <2> QED
    BY <1>2, <2>2
<1>5. Head(q) \in ToSet(q)
  BY <1>1, <1>2
<1>6. Len(q) # 1 => t # <<>>
  BY <1>1
<1> QED
  BY <1>1, <1>4, <1>5, <1>6 DEF t

(* An element added at the end, of which there is no other.                 *)
LEMMA AppendOnce ==
  ASSUME NEW S, NEW q \in Seq(S), NEW e \in S, IsInjective(q), e \notin ToSet(q)
  PROVE  LET a == Append(q, e) IN
         /\ a \in Seq(S) /\ IsInjective(a)
         /\ \A x : x \in ToSet(a) <=> x = e \/ x \in ToSet(q)
         /\ \A i, j \in DOMAIN a : i < j =>
              \/ a[j] = e /\ a[i] # e
              \/ \E m, n \in DOMAIN q : m < n /\ q[m] = a[i] /\ q[n] = a[j]
<1> DEFINE a == Append(q, e)
<1>1. /\ a \in Seq(S) /\ Len(a) = Len(q) + 1
      /\ \A i \in 1..Len(q) : a[i] = q[i]
      /\ a[Len(q) + 1] = e
      /\ DOMAIN q = 1..Len(q) /\ DOMAIN a = 1..(Len(q) + 1) /\ Len(q) \in Nat
  OBVIOUS
<1>2. \A i \in DOMAIN q : q[i] # e
  BY DEF ToSet
<1>3. IsInjective(a)
  BY <1>1, <1>2 DEF IsInjective
<1>4. \A x : x \in ToSet(a) <=> x = e \/ x \in ToSet(q)
  BY <1>1 DEF ToSet
<1>5. ASSUME NEW i \in DOMAIN a, NEW j \in DOMAIN a, i < j
      PROVE  \/ a[j] = e /\ a[i] # e
             \/ \E m, n \in DOMAIN q : m < n /\ q[m] = a[i] /\ q[n] = a[j]
  BY <1>1, <1>2, <1>5
<1> QED
  BY <1>1, <1>3, <1>4, <1>5

(* An element taken out by its position.                                    *)
LEMMA RemoveOnce ==
  ASSUME NEW S, NEW q \in Seq(S), NEW k \in DOMAIN q, IsInjective(q)
  PROVE  LET a == RemoveAt(q, k) IN
         /\ a \in Seq(S) /\ IsInjective(a)
         /\ \A x : x \in ToSet(a) <=> x \in ToSet(q) /\ x # q[k]
         /\ \A i, j \in DOMAIN a : i < j =>
              \E m, n \in DOMAIN q : m < n /\ q[m] = a[i] /\ q[n] = a[j]
<1> DEFINE r == RemoveAt(q, k)
           skip(i) == IF i < k THEN i ELSE i + 1
<1>1. /\ Len(q) \in Nat /\ k \in 1..Len(q) /\ DOMAIN q = 1..Len(q)
      /\ \A i \in 1..Len(q) : q[i] \in S
      /\ \A i, j \in 1..Len(q) : q[i] = q[j] => i = j
  BY DEF IsInjective
<1> DEFINE front == SubSeq(q, 1, k - 1)
           back  == SubSeq(q, k + 1, Len(q))
<1>2. /\ front \in Seq(S) /\ Len(front) = k - 1
      /\ \A i \in 1..(k - 1) : front[i] = q[i]
      /\ back \in Seq(S) /\ Len(back) = Len(q) - k
      /\ \A i \in 1..(Len(q) - k) : back[i] = q[k + i]
  <2>1. \A i \in 1..Len(q) : q[i] \in S
    BY <1>1
  <2>2. /\ front \in Seq(S) /\ Len(front) = k - 1
        /\ \A i \in 1..(k - 1) : front[i] = q[i]
    BY <2>1, <1>1, SubSeqProperties
  <2>3. /\ back \in Seq(S) /\ Len(back) = Len(q) - k
        /\ \A i \in 1..(Len(q) - k) : back[i] = q[k + i]
    BY <2>1, <1>1, SubSeqProperties
  <2> QED
    BY <2>2, <2>3
<1>3. /\ r \in Seq(S) /\ Len(r) = Len(q) - 1 /\ DOMAIN r = 1..(Len(q) - 1)
      /\ \A i \in 1..(Len(q) - 1) : r[i] = q[skip(i)]
  <2> HIDE DEF front, back, r
  <2>1. r = front \o back
    BY DEF RemoveAt, front, back, r
  <2>2. /\ r \in Seq(S) /\ Len(r) = Len(front) + Len(back)
        /\ \A i \in 1..(Len(front) + Len(back)) :
             r[i] = IF i <= Len(front) THEN front[i] ELSE back[i - Len(front)]
    BY ONLY <1>2, <2>1, ConcatProperties
  <2>3. Len(r) = Len(q) - 1 /\ DOMAIN r = 1..(Len(q) - 1)
    BY <1>1, <1>2, <2>2
  <2>4. ASSUME NEW i \in 1..(Len(q) - 1) PROVE r[i] = q[skip(i)]
    <3>1. r[i] = IF i <= k - 1 THEN front[i] ELSE back[i - (k - 1)]
      BY ONLY <1>1, <1>2, <2>2
    <3>2. CASE i < k
      BY ONLY <1>1, <1>2, <3>1, <3>2
    <3>3. CASE i >= k
      <4>1. i - (k - 1) \in 1..(Len(q) - k) /\ k + (i - (k - 1)) = i + 1
        BY ONLY <1>1, <3>3
      <4> QED
        BY ONLY <1>1, <1>2, <3>1, <3>3, <4>1
    <3> QED
      BY <1>1, <3>2, <3>3
  <2> QED
    BY <2>2, <2>3, <2>4
<1>4. \A i, j \in DOMAIN r : r[i] = r[j] => i = j
  <2> SUFFICES ASSUME NEW i \in DOMAIN r, NEW j \in DOMAIN r, r[i] = r[j]
               PROVE  i = j
    OBVIOUS
  <2>1. skip(i) \in DOMAIN q /\ skip(j) \in DOMAIN q
    BY <1>1, <1>3
  <2>2. skip(i) = skip(j)
    BY <1>1, <1>3, <2>1
  <2> QED
    BY <1>1, <1>3, <2>2
<1>5. ASSUME NEW x
      PROVE  (\E i \in DOMAIN r : r[i] = x) <=> x # q[k] /\ \E i \in DOMAIN q : q[i] = x
  <2>1. ASSUME NEW i \in DOMAIN r, r[i] = x
        PROVE  x # q[k] /\ \E j \in DOMAIN q : q[j] = x
    <3>1. skip(i) \in DOMAIN q /\ skip(i) # k
      BY <1>1, <1>3
    <3> QED
      BY <1>1, <1>3, <2>1, <3>1
  <2>2. ASSUME NEW j \in DOMAIN q, q[j] = x, x # q[k]
        PROVE  \E i \in DOMAIN r : r[i] = x
    <3>1. CASE j < k
      <4>1. j \in DOMAIN r /\ skip(j) = j
        BY <1>1, <1>3, <3>1
      <4> QED
        BY <1>3, <2>2, <4>1
    <3>2. CASE j > k
      <4>1. j - 1 \in DOMAIN r /\ skip(j - 1) = j
        BY <1>1, <1>3, <3>2
      <4> QED
        BY <1>3, <2>2, <4>1
    <3> QED
      BY <1>1, <2>2, <3>1, <3>2
  <2> QED
    BY <2>1, <2>2
<1>6. ASSUME NEW i \in DOMAIN r, NEW j \in DOMAIN r, i < j
      PROVE  \E m, n \in DOMAIN q : m < n /\ q[m] = r[i] /\ q[n] = r[j]
  <2>1. skip(i) \in DOMAIN q /\ skip(j) \in DOMAIN q /\ skip(i) < skip(j)
    BY <1>1, <1>3, <1>6
  <2> QED
    BY <1>3, <2>1
<1>7. IsInjective(r) /\ \A x : x \in ToSet(r) <=> x \in ToSet(q) /\ x # q[k]
  <2> HIDE DEF r
  <2> QED
    BY <1>4, <1>5 DEF IsInjective, ToSet
<1> QED
  BY <1>3, <1>6, <1>7

(* The head is taken out like any other.                                    *)
LEMMA TailOnce ==
  ASSUME NEW S, NEW q \in Seq(S), q # <<>>, IsInjective(q)
  PROVE  LET a == Tail(q) IN
         /\ a \in Seq(S) /\ IsInjective(a) /\ Head(q) \in S /\ Head(q) \in ToSet(q)
         /\ \A x : x \in ToSet(a) <=> x \in ToSet(q) /\ x # Head(q)
         /\ \A i, j \in DOMAIN a : i < j =>
              \E m, n \in DOMAIN q : m < n /\ q[m] = a[i] /\ q[n] = a[j]
<1> DEFINE t == Tail(q)
<1>1. /\ Len(q) \in Nat /\ Len(q) >= 1 /\ DOMAIN q = 1..Len(q)
      /\ \A i \in 1..Len(q) : q[i] \in S
      /\ Head(q) = q[1]
      /\ t \in Seq(S) /\ DOMAIN t = 1..(Len(q) - 1)
      /\ \A i \in 1..(Len(q) - 1) : t[i] = q[i + 1]
      /\ \A i, j \in 1..Len(q) : q[i] = q[j] => i = j
  BY DEF IsInjective
<1>2. \A i, j \in DOMAIN t : t[i] = t[j] => i = j
  <2> SUFFICES ASSUME NEW i \in DOMAIN t, NEW j \in DOMAIN t, t[i] = t[j]
               PROVE  i = j
    OBVIOUS
  <2>1. i + 1 = j + 1
    BY <1>1
  <2> QED
    BY <1>1, <2>1
<1>3. ASSUME NEW x
      PROVE  (\E i \in DOMAIN t : t[i] = x) <=> x # Head(q) /\ \E i \in DOMAIN q : q[i] = x
  <2>1. ASSUME NEW i \in DOMAIN t, t[i] = x
        PROVE  x # Head(q) /\ \E j \in DOMAIN q : q[j] = x
    <3>1. i + 1 \in DOMAIN q /\ i + 1 # 1 /\ 1 \in DOMAIN q
      BY <1>1
    <3> QED
      BY <1>1, <2>1, <3>1
  <2>2. ASSUME NEW j \in DOMAIN q, q[j] = x, x # Head(q)
        PROVE  \E i \in DOMAIN t : t[i] = x
    <3>1. j # 1
      BY <1>1, <2>2
    <3>2. j - 1 \in DOMAIN t /\ t[j - 1] = q[j]
      BY <1>1, <3>1
    <3> QED
      BY <2>2, <3>2
  <2> QED
    BY <2>1, <2>2
<1>4. ASSUME NEW i \in DOMAIN t, NEW j \in DOMAIN t, i < j
      PROVE  \E m, n \in DOMAIN q : m < n /\ q[m] = t[i] /\ q[n] = t[j]
  <2>1. i + 1 \in DOMAIN q /\ j + 1 \in DOMAIN q /\ i + 1 < j + 1
    BY <1>1, <1>4
  <2> QED
    BY <1>1, <2>1
<1>5. IsInjective(t) /\ \A x : x \in ToSet(t) <=> x \in ToSet(q) /\ x # Head(q)
  <2> HIDE DEF t
  <2> QED
    BY <1>2, <1>3 DEF IsInjective, ToSet
<1>6. t \in Seq(S) /\ Head(q) \in S /\ Head(q) \in ToSet(q)
  BY <1>1 DEF ToSet
<1> QED
  BY <1>4, <1>5, <1>6

(* A sequence without repetition has as many elements as positions.         *)
LEMMA CardinalityOnce ==
  ASSUME NEW S, NEW q \in Seq(S)
  PROVE  /\ IsFiniteSet(ToSet(q)) /\ Cardinality(ToSet(q)) <= Len(q)
         /\ IsInjective(q) => Cardinality(ToSet(q)) = Len(q)
<1>1. Len(q) \in Nat /\ DOMAIN q = 1..Len(q)
  OBVIOUS
<1>2. q \in Surjection(1..Len(q), ToSet(q))
  <2>1. q \in [1..Len(q) -> ToSet(q)]
    BY <1>1 DEF ToSet
  <2>2. \A x \in ToSet(q) : \E i \in 1..Len(q) : q[i] = x
    BY <1>1 DEF ToSet
  <2> QED
    BY <2>1, <2>2 DEF Surjection
<1>3. IsFiniteSet(1..Len(q)) /\ Cardinality(1..Len(q)) = Len(q)
  BY <1>1, FS_Interval
<1>4. /\ IsFiniteSet(ToSet(q)) /\ Cardinality(ToSet(q)) <= Len(q)
      /\ Cardinality(ToSet(q)) = Len(q) <=> q \in Injection(1..Len(q), ToSet(q))
  BY <1>2, <1>3, FS_Surjection
<1>5. IsInjective(q) => q \in Injection(1..Len(q), ToSet(q))
  BY <1>2 DEF Injection, Surjection
<1> QED
  BY <1>4, <1>5

(* A finite set laid out as a sequence.                                     *)
LEMMA SetAsSequence ==
  ASSUME NEW S, IsFiniteSet(S)
  PROVE  SetToSeq(S) \in Seq(S) /\ ToSet(SetToSeq(S)) = S
<1> DEFINE n == Cardinality(S)
           q == SetToSeq(S)
<1>1. n \in Nat /\ ExistsBijection(1..n, S)
  BY FS_CardinalityType
<1>2. \E f \in [1..n -> S] : IsInjective(f)
  <2>1. PICK f : f \in Bijection(1..n, S)
    BY <1>1 DEF ExistsBijection
  <2>2. f \in [1..n -> S] /\ IsInjective(f)
    BY <2>1 DEF Bijection, Injection
  <2> QED
    BY <2>2
<1>3. q \in [1..n -> S] /\ IsInjective(q)
  BY <1>2 DEF SetToSeq
<1> HIDE DEF q
<1>4. q \in Injection(1..n, S)
  BY <1>3 DEF Injection
<1>5. IsFiniteSet(1..n) /\ Cardinality(1..n) = n
  BY <1>1, FS_Interval
<1>6. q \in Surjection(1..n, S)
  BY <1>4, <1>5, FS_Injection
<1>7. ToSet(q) = S
  <2>1. \A t \in S : \E i \in 1..n : q[i] = t
    BY <1>6 DEF Surjection
  <2> QED
    BY <1>3, <2>1 DEF ToSet
<1>8. q \in Seq(S)
  <2> HIDE DEF n
  <2> QED
    BY <1>1, <1>3
<1> QED
  BY <1>7, <1>8 DEF q
=============================================================================
