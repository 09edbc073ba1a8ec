---------------------------- MODULE EvictionProofs ---------------------------
(***************************************************************************)
(* Proofs about the lists of the eviction policies, about LruEviction and  *)
(* about ArcEviction, for any set of keys and any capacity.                *)
(***************************************************************************)
EXTENDS LruEviction, ArcEviction, SequenceTheorems, WellFoundedInduction, TLAPS

(* Every non-empty set of naturals has a least element.                    *)
LEMMA LeastNatural ==
  ASSUME NEW T, T \subseteq Nat, T # {}
  PROVE  \E m \in T : \A y \in T : m <= y
<1> DEFINE Less == {e \in Nat \X Nat : e[1] < e[2]}
<1>1. IsWellFoundedOn(Less, Nat)
  BY NatLessThanWellFounded DEF OpToRel
<1>2. PICK m \in T : \A y \in T : ~ (<<y, m>> \in Less)
  <2> HIDE DEF Less
  <2> QED BY <1>1, WFMin
<1>3. ASSUME NEW y \in T PROVE m <= y
  <2>1. ~ (<<y, m>> \in Less) BY <1>2
  <2> QED BY <2>1
<1> QED BY <1>2, <1>3

(* The first position that satisfies a test, and the last one.             *)
LEMMA MinInSet ==
  ASSUME NEW T, T \subseteq Nat, T # {}
  PROVE  Min(T) \in T
BY LeastNatural DEF Min

(* The same for the greatest element, of a bounded set.                    *)
LEMMA MaxInSet ==
  ASSUME NEW n \in Nat, NEW T, T \subseteq 1 .. n, T # {}
  PROVE  Max(T) \in T /\ \A y \in T : y <= Max(T)
<1> DEFINE Gaps == {n - i : i \in T}
<1>1. Gaps \subseteq Nat /\ Gaps # {}
  <2>1. PICK i \in T : TRUE OBVIOUS
  <2>2. n - i \in Gaps BY <2>1
  <2>3. ASSUME NEW g \in Gaps PROVE g \in Nat OBVIOUS
  <2> QED BY <2>2, <2>3
<1>2. PICK g \in Gaps : \A y \in Gaps : g <= y
  <2> HIDE DEF Gaps
  <2> QED BY <1>1, LeastNatural
<1>3. PICK m \in T : g = n - m
  OBVIOUS
<1>4. ASSUME NEW y \in T PROVE m >= y
  <2>1. g <= n - y BY <1>2
  <2> QED BY <1>3, <2>1
<1>5. \E z \in T : \A y \in T : z >= y
  BY <1>4
<1>6. Max(T) \in T /\ \A y \in T : Max(T) >= y
  BY <1>5 DEF Max
<1> QED BY <1>6

-----------------------------------------------------------------------------
(* Erasing a member removes one position and shifts the ones behind it.    *)
LEMMA WithoutMember ==
  ASSUME NEW S, NEW s \in Seq(S), NEW k, k \in Range(s)
  PROVE  \E i \in 1 .. Len(s) :
           /\ s[i] = k
           /\ Without(s, k) \in Seq(S)
           /\ Len(Without(s, k)) = Len(s) - 1
           /\ \A j \in 1 .. Len(s) - 1 :
                Without(s, k)[j] = IF j < i THEN s[j] ELSE s[j + 1]
<1> DEFINE at == {i \in DOMAIN s : s[i] = k}
           i == Min(at)
<1>1. Len(s) \in Nat /\ DOMAIN s = 1 .. Len(s)
  OBVIOUS
<1>2. at \subseteq DOMAIN s /\ at # {} /\ \A j \in at : s[j] = k
  BY DEF Range
<1>3. Without(s, k) = IF at = {} THEN s ELSE SubSeq(s, 1, i - 1) \o SubSeq(s, i + 1, Len(s))
  BY Zenon DEF Without
<1>4. at \subseteq Nat
  BY <1>1, <1>2
<1> HIDE DEF at
<1>5. i \in at
  BY <1>2, <1>4, MinInSet
<1>6. Without(s, k) = SubSeq(s, 1, i - 1) \o SubSeq(s, i + 1, Len(s))
  BY <1>2, <1>3
<1> HIDE DEF i
<1>7. i \in 1 .. Len(s) /\ s[i] = k
  BY <1>1, <1>2, <1>5
<1> DEFINE front == SubSeq(s, 1, i - 1)
           back == SubSeq(s, i + 1, Len(s))
<1>8. \A j \in 1 .. Len(s) : s[j] \in S
  BY <1>1
<1>9. /\ front \in Seq(S) /\ Len(front) = i - 1
      /\ \A j \in 1 .. i - 1 : front[j] = s[j]
  <2>1. \A j \in 1 .. i - 1 : s[j] \in S
    BY <1>1, <1>7, <1>8
  <2> QED BY <1>1, <1>7, <2>1, SubSeqProperties
<1>10. /\ back \in Seq(S) /\ Len(back) = Len(s) - i
       /\ \A j \in 1 .. Len(s) - i : back[j] = s[i + j]
  <2>1. \A j \in i + 1 .. Len(s) : s[j] \in S
    BY <1>1, <1>7, <1>8
  <2>2. i + 1 \in Int /\ Len(s) \in Int
    BY <1>1, <1>7
  <2>3. /\ back \in Seq(S)
        /\ Len(back) = IF i + 1 <= Len(s) THEN Len(s) - (i + 1) + 1 ELSE 0
        /\ \A j \in 1 .. Len(s) - (i + 1) + 1 : back[j] = s[(i + 1) + j - 1]
    BY <2>1, <2>2, SubSeqProperties
  <2> HIDE DEF back
  <2>4. Len(back) = Len(s) - i
    <3>1. Len(back) = IF i + 1 <= Len(s) THEN Len(s) - (i + 1) + 1 ELSE 0
      BY <2>3
    <3>2. Len(s) \in Nat /\ i \in 1 .. Len(s)
      BY <1>1, <1>7
    <3> QED BY <3>1, <3>2
  <2>5. ASSUME NEW j \in 1 .. Len(s) - i PROVE back[j] = s[i + j]
    <3>1. j \in 1 .. Len(s) - (i + 1) + 1 /\ (i + 1) + j - 1 = i + j
      BY <1>1, <1>7
    <3> QED BY <2>3, <3>1
  <2> QED BY <2>3, <2>4, <2>5
<1>11. Without(s, k) = front \o back
  BY <1>6
<1> HIDE DEF front, back
<1>12. /\ front \o back \in Seq(S) /\ Len(front \o back) = Len(s) - 1
       /\ \A j \in 1 .. Len(s) - 1 :
            (front \o back)[j] = IF j <= i - 1 THEN front[j] ELSE back[j - (i - 1)]
  <2>1. /\ front \o back \in Seq(S) /\ Len(front \o back) = Len(front) + Len(back)
        /\ \A j \in 1 .. Len(front) + Len(back) :
             (front \o back)[j] = IF j <= Len(front) THEN front[j] ELSE back[j - Len(front)]
    BY <1>9, <1>10, ConcatProperties
  <2>2. Len(front) = i - 1 /\ Len(front) + Len(back) = Len(s) - 1
    BY <1>1, <1>7, <1>9, <1>10
  <2> QED BY <2>1, <2>2
<1>13. ASSUME NEW j \in 1 .. Len(s) - 1
       PROVE  (front \o back)[j] = IF j < i THEN s[j] ELSE s[j + 1]
  <2>1. CASE j < i
    BY <1>1, <1>7, <1>9, <1>12, <2>1
  <2>2. CASE ~(j < i)
    <3>1. j - (i - 1) \in 1 .. Len(s) - i /\ i + (j - (i - 1)) = j + 1
      BY <1>1, <1>7, <2>2
    <3> QED BY <1>1, <1>7, <1>10, <1>12, <2>2, <3>1
  <2> QED BY <2>1, <2>2
<1> QED BY <1>7, <1>11, <1>12, <1>13

(* Erasing a key that pos_ does not have changes nothing.                  *)
LEMMA WithoutOther ==
  ASSUME NEW S, NEW s \in Seq(S), NEW k, k \notin Range(s)
  PROVE  Without(s, k) = s
<1> DEFINE at == {i \in DOMAIN s : s[i] = k}
<1>1. at = {}
  BY DEF Range
<1>2. Without(s, k) = IF at = {} THEN s
                      ELSE SubSeq(s, 1, Min(at) - 1) \o SubSeq(s, Min(at) + 1, Len(s))
  BY Zenon DEF Without
<1> HIDE DEF at
<1> QED BY <1>1, <1>2

(* No key twice in a list.                                                 *)
Distinct(s) == \A i, j \in DOMAIN s : s[i] = s[j] => i = j

(* Erasing a key leaves the others, once each and in their order.          *)
LEMMA WithoutKeeps ==
  ASSUME NEW S, NEW s \in Seq(S), NEW k, Distinct(s)
  PROVE  LET w == Without(s, k)
         IN  /\ w \in Seq(S)
             /\ Range(w) = Range(s) \ {k}
             /\ \A a, b \in DOMAIN w : a < b =>
                  \E x, y \in DOMAIN s : x < y /\ w[a] = s[x] /\ w[b] = s[y]
             /\ Distinct(w)
             /\ Len(w) = IF k \in Range(s) THEN Len(s) - 1 ELSE Len(s)
<1>1. CASE k \notin Range(s)
  BY <1>1, WithoutOther
<1>2. CASE k \in Range(s)
  <2> DEFINE w == Without(s, k)
  <2>1. Len(s) \in Nat /\ DOMAIN s = 1 .. Len(s)
    OBVIOUS
  <2>2. PICK i \in 1 .. Len(s) :
          /\ s[i] = k /\ w \in Seq(S) /\ Len(w) = Len(s) - 1
          /\ \A j \in 1 .. Len(s) - 1 : w[j] = IF j < i THEN s[j] ELSE s[j + 1]
    BY <1>2, WithoutMember
  <2> HIDE DEF w
  <2>3. DOMAIN w = 1 .. Len(s) - 1
    BY <2>1, <2>2
  <2> DEFINE from(j) == IF j < i THEN j ELSE j + 1
  <2>4. ASSUME NEW j \in DOMAIN w
        PROVE  from(j) \in DOMAIN s /\ from(j) # i /\ w[j] = s[from(j)]
    BY <2>1, <2>2, <2>3
  <2>5. ASSUME NEW a \in DOMAIN w, NEW b \in DOMAIN w, a < b
        PROVE  from(a) < from(b)
    BY <2>1, <2>2, <2>3, <2>5
  <2>6. ASSUME NEW j \in DOMAIN s, j # i
        PROVE  \E a \in DOMAIN w : w[a] = s[j]
    <3>1. CASE j < i
      <4>1. j \in DOMAIN w /\ w[j] = s[j]
        BY <2>1, <2>2, <2>3, <3>1
      <4> QED BY <4>1
    <3>2. CASE ~(j < i)
      <4>1. j - 1 \in 1 .. Len(s) - 1 /\ ~(j - 1 < i) /\ (j - 1) + 1 = j
        BY <2>1, <2>2, <2>6, <3>2
      <4>2. w[j - 1] = s[j]
        BY <2>2, <4>1
      <4> QED BY <2>3, <4>1, <4>2
    <3> QED BY <3>1, <3>2
  <2> HIDE DEF from
  <2>7. \A a, b \in DOMAIN w : a < b =>
          \E x, y \in DOMAIN s : x < y /\ w[a] = s[x] /\ w[b] = s[y]
    BY <2>4, <2>5
  <2>8. Distinct(w)
    <3>1. ASSUME NEW a \in DOMAIN w, NEW b \in DOMAIN w, a < b, w[a] = w[b]
          PROVE  FALSE
      BY <2>1, <2>4, <2>5, <3>1 DEF Distinct
    <3> QED BY <2>1, <2>3, <3>1 DEF Distinct
  <2>9. Range(w) = Range(s) \ {k}
    <3>1. ASSUME NEW j \in DOMAIN w PROVE w[j] \in Range(s) \ {k}
      BY <2>1, <2>2, <2>4 DEF Distinct, Range
    <3>2. ASSUME NEW e \in Range(s) \ {k} PROVE e \in Range(w)
      BY <2>2, <2>6 DEF Range
    <3> QED BY <3>1, <3>2 DEF Range
  <2> QED BY <1>2, <2>2, <2>7, <2>8, <2>9 DEF w
<1> QED BY <1>1, <1>2

(* push_front.                                                             *)
LEMMA PushFrontIs ==
  ASSUME NEW S, NEW s \in Seq(S), NEW k \in S
  PROVE  LET w == PushFront(s, k)
         IN  /\ w \in Seq(S)
             /\ Len(w) = Len(s) + 1
             /\ \A j \in 1 .. Len(w) : w[j] = IF j = 1 THEN k ELSE s[j - 1]
             /\ Range(w) = Range(s) \cup {k}
             /\ Distinct(s) /\ k \notin Range(s) => Distinct(w)
<1> DEFINE w == PushFront(s, k)
<1>1. Len(s) \in Nat /\ DOMAIN s = 1 .. Len(s)
  OBVIOUS
<1>2. <<k>> \in Seq(S) /\ Len(<<k>>) = 1 /\ <<k>>[1] = k
  OBVIOUS
<1>3. w = <<k>> \o s
  BY DEF PushFront
<1> HIDE DEF w
<1>4. /\ w \in Seq(S) /\ Len(w) = Len(s) + 1
      /\ \A j \in 1 .. Len(s) + 1 : w[j] = IF j <= 1 THEN <<k>>[j] ELSE s[j - 1]
  BY <1>1, <1>2, <1>3, ConcatProperties
<1>5. DOMAIN w = 1 .. Len(s) + 1
  BY <1>1, <1>4
<1>6. \A j \in 1 .. Len(w) : w[j] = IF j = 1 THEN k ELSE s[j - 1]
  BY <1>1, <1>2, <1>4
<1>7. Range(w) = Range(s) \cup {k}
  <2>1. ASSUME NEW j \in DOMAIN w PROVE w[j] \in Range(s) \cup {k}
    BY <1>1, <1>4, <1>5, <1>6 DEF Range
  <2>2. k \in Range(w)
    <3>1. 1 \in DOMAIN w /\ w[1] = k BY <1>1, <1>4, <1>5, <1>6
    <3> QED BY <3>1 DEF Range
  <2>3. ASSUME NEW j \in DOMAIN s PROVE s[j] \in Range(w)
    <3>1. j + 1 \in DOMAIN w /\ w[j + 1] = s[j]
      BY <1>1, <1>4, <1>5, <1>6
    <3> QED BY <3>1 DEF Range
  <2> QED BY <2>1, <2>2, <2>3 DEF Range
<1>8. ASSUME Distinct(s), k \notin Range(s) PROVE Distinct(w)
  <2>1. ASSUME NEW j \in DOMAIN s PROVE s[j] # k
    BY <1>8 DEF Range
  <2>2. ASSUME NEW a \in DOMAIN w, NEW b \in DOMAIN w, w[a] = w[b] PROVE a = b
    <3>1. CASE a = 1 \/ b = 1
      <4>1. ASSUME NEW d \in DOMAIN w, d # 1 PROVE w[d] # w[1]
        <5>1. d - 1 \in DOMAIN s /\ w[d] = s[d - 1] /\ w[1] = k
          BY <1>1, <1>4, <1>5, <1>6, <4>1
        <5> QED BY <2>1, <5>1
      <4> QED BY <2>2, <3>1, <4>1
    <3>2. CASE a # 1 /\ b # 1
      <4>1. a - 1 \in DOMAIN s /\ b - 1 \in DOMAIN s /\ s[a - 1] = s[b - 1]
        BY <1>1, <1>4, <1>5, <1>6, <2>2, <3>2
      <4>2. a - 1 = b - 1
        BY <1>8, <4>1 DEF Distinct
      <4> QED BY <1>5, <4>2
    <3> QED BY <3>1, <3>2
  <2> QED BY <2>2 DEF Distinct
<1> QED BY <1>4, <1>6, <1>7, <1>8 DEF w

(* SelectVictim's walk from the back ends at the last key that is not      *)
(* excluded, or finds none.                                                *)
LEMMA OldestIs ==
  ASSUME NEW S, NEW s \in Seq(S), NoKey \notin S, NEW excluded
  PROVE  IF Range(s) \subseteq {excluded} THEN Oldest(s, excluded) = NoKey
         ELSE \E i \in DOMAIN s :
                /\ Oldest(s, excluded) = s[i] /\ s[i] # excluded
                /\ \A j \in DOMAIN s : i < j => s[j] = excluded
<1> DEFINE others == {i \in DOMAIN s : s[i] # excluded}
           i == Max(others)
<1>1. Len(s) \in Nat /\ DOMAIN s = 1 .. Len(s)
  OBVIOUS
<1>2. others \subseteq 1 .. Len(s)
  BY <1>1
<1>3. others = {} <=> Range(s) \subseteq {excluded}
  BY DEF Range
<1>4. Oldest(s, excluded) = IF others = {} THEN NoKey ELSE s[i]
  BY Zenon DEF Oldest
<1>6. \A j \in DOMAIN s : j \in others <=> s[j] # excluded
  BY <1>1
<1> HIDE DEF others, i
<1>7. CASE others = {}
  BY <1>3, <1>4, <1>7
<1>8. CASE others # {}
  <2>1. i \in others /\ \A j \in others : j <= i
    BY <1>1, <1>2, <1>8, MaxInSet DEF i
  <2>2. i \in DOMAIN s
    BY <1>1, <1>2, <2>1
  <2>3. \A j \in DOMAIN s : i < j => s[j] = excluded
    BY <1>1, <1>6, <2>1, <2>2
  <2> QED BY <1>3, <1>4, <1>6, <1>8, <2>1, <2>2, <2>3
<1> QED BY <1>7, <1>8

(* EraseLru's pop_back.                                                    *)
LEMMA FrontIs ==
  ASSUME NEW S, NEW s \in Seq(S), s # <<>>
  PROVE  LET w == PopBack(s)
         IN  /\ w \in Seq(S)
             /\ Len(w) = Len(s) - 1
             /\ Range(w) \subseteq Range(s)
             /\ Distinct(s) => Distinct(w)
<1> DEFINE w == PopBack(s)
<1>1. Len(s) \in Nat \ {0} /\ DOMAIN s = 1 .. Len(s)
  BY EmptySeq
<1>2. \A j \in 1 .. Len(s) - 1 : s[j] \in S
  BY <1>1
<1>3. w = SubSeq(s, 1, Len(s) - 1)
  BY DEF PopBack
<1> HIDE DEF w
<1>4. /\ w \in Seq(S) /\ Len(w) = Len(s) - 1
      /\ \A j \in 1 .. Len(s) - 1 : w[j] = s[j]
  BY <1>1, <1>2, <1>3, SubSeqProperties
<1>5. DOMAIN w = 1 .. Len(s) - 1 /\ \A j \in DOMAIN w : j \in DOMAIN s /\ w[j] = s[j]
  BY <1>1, <1>4
<1>6. Range(w) \subseteq Range(s)
  BY <1>5 DEF Range
<1>7. Distinct(s) => Distinct(w)
  BY <1>5 DEF Distinct
<1> QED BY <1>4, <1>6, <1>7 DEF w

(* A used or inserted key goes to the front; the others keep their order.  *)
LEMMA MovedToFront ==
  ASSUME NEW s \in Seq(Key), NEW k \in Key, Distinct(s)
  PROVE  LET m == PushFront(Without(s, k), k)
         IN  /\ m \in Seq(Key) /\ Distinct(m)
             /\ Range(m) = Range(s) \cup {k}
             /\ \A a, b \in DOMAIN m : a < b =>
                  \/ m[a] = k /\ m[b] \in Range(m) \ {k}
                  \/ \E x, y \in DOMAIN s : x < y /\ s[x] # k /\ m[a] = s[x] /\ m[b] = s[y]
<1> DEFINE w == Without(s, k)
           m == PushFront(w, k)
<1>1. /\ w \in Seq(Key) /\ Range(w) = Range(s) \ {k} /\ Distinct(w)
      /\ \A a, b \in DOMAIN w : a < b =>
           \E x, y \in DOMAIN s : x < y /\ w[a] = s[x] /\ w[b] = s[y]
  BY WithoutKeeps
<1> HIDE DEF w
<1>2. /\ m \in Seq(Key) /\ Len(m) = Len(w) + 1
      /\ \A j \in 1 .. Len(m) : m[j] = IF j = 1 THEN k ELSE w[j - 1]
      /\ Range(m) = Range(w) \cup {k} /\ Distinct(m)
  <2>1. w \in Seq(Key) /\ Distinct(w) /\ k \notin Range(w)
    BY <1>1
  <2>2. m \in Seq(Key) /\ Len(m) = Len(w) + 1 /\ Range(m) = Range(w) \cup {k}
    BY <2>1, PushFrontIs
  <2>3. \A j \in 1 .. Len(m) : m[j] = IF j = 1 THEN k ELSE w[j - 1]
    BY <2>1, PushFrontIs
  <2>4. Distinct(m)
    BY <2>1, PushFrontIs
  <2> QED BY <2>2, <2>3, <2>4
<1> HIDE DEF m
<1>3. Len(w) \in Nat /\ DOMAIN w = 1 .. Len(w) /\ DOMAIN m = 1 .. Len(w) + 1
  BY <1>1, <1>2
<1>4. ASSUME NEW a \in DOMAIN m, NEW b \in DOMAIN m, a < b
      PROVE  \/ m[a] = k /\ m[b] \in Range(m) \ {k}
             \/ \E x, y \in DOMAIN s : x < y /\ s[x] # k /\ m[a] = s[x] /\ m[b] = s[y]
  <2>1. b - 1 \in DOMAIN w /\ m[b] = w[b - 1]
    BY <1>2, <1>3, <1>4
  <2>2. \A j \in DOMAIN w : w[j] \in Range(s) \ {k}
    BY <1>1 DEF Range
  <2>3. CASE a = 1
    <3>1. m[a] = k
      BY <1>2, <1>3, <2>3
    <3> QED BY <1>1, <1>2, <2>1, <2>2, <3>1
  <2>4. CASE a # 1
    <3>1. a - 1 \in DOMAIN w /\ m[a] = w[a - 1] /\ a - 1 < b - 1
      BY <1>2, <1>3, <1>4, <2>4
    <3>2. PICK x, y \in DOMAIN s : x < y /\ w[a - 1] = s[x] /\ w[b - 1] = s[y]
      BY <1>1, <2>1, <3>1
    <3> QED BY <2>1, <2>2, <3>1, <3>2
  <2> QED BY <2>3, <2>4
<1>5. Range(m) = Range(s) \cup {k}
  BY <1>1, <1>2
<1> QED BY <1>2, <1>4, <1>5 DEF m, w

-----------------------------------------------------------------------------
(* The list and the history of LruEviction; the reserved victim is still   *)
(* in the list, which no single call would show.                           *)
LruInv ==
  /\ lru \in [order : Seq(Key), reserved : Key \cup {NoKey}]
  /\ newer \subseteq Key \X Key
  /\ OrderIsRecency
  /\ lru.reserved # NoKey => lru.reserved \in Range(lru.order)

(* lru_ never lists a key twice.                                           *)
LEMMA OrderIsDistinct ==
  ASSUME LruInv PROVE lru.order \in Seq(Key) /\ Distinct(lru.order)
<1>1. lru.order \in Seq(Key)
  BY DEF LruInv
<1>2. DOMAIN lru.order \subseteq Nat
  BY <1>1
<1>3. \A i, j \in DOMAIN lru.order : i < j => lru.order[i] # lru.order[j]
  BY DEF LruInv, OrderIsRecency
<1>4. ASSUME NEW i \in DOMAIN lru.order, NEW j \in DOMAIN lru.order,
             lru.order[i] = lru.order[j]
      PROVE  i = j
  <2>1. i < j \/ j < i \/ i = j
    BY <1>2
  <2> QED BY <1>3, <1>4, <2>1
<1> QED BY <1>1, <1>4 DEF Distinct

(* What a use of k does to the invariant: OnAccess and OnInsert.           *)
LEMMA UseKeepsLruInv ==
  ASSUME LruInv, NEW k \in Key, lru' = MoveToFront(lru, k), UsedNow(k)
  PROVE  LruInv' /\ Range(lru'.order) = Range(lru.order) \cup {k}
<1> DEFINE s == lru.order
           m == PushFront(Without(s, k), k)
<1>1. s \in Seq(Key) /\ Distinct(s)
  BY OrderIsDistinct
<1>2. lru'.order = m /\ lru'.reserved = lru.reserved
      /\ lru' = [order |-> lru'.order, reserved |-> lru'.reserved]
  BY DEF LruInv, MoveToFront
<1>3. /\ m \in Seq(Key) /\ Range(m) = Range(s) \cup {k}
      /\ \A a, b \in DOMAIN m : a < b =>
           \/ m[a] = k /\ m[b] \in Range(m) \ {k}
           \/ \E x, y \in DOMAIN s : x < y /\ s[x] # k /\ m[a] = s[x] /\ m[b] = s[y]
  BY <1>1, MovedToFront
<1>4. Distinct(m)
  BY <1>1, MovedToFront
<1>5. newer' = {e \in newer : e[1] # k} \cup ({k} \X (Range(m) \ {k}))
  BY <1>2 DEF UsedNow
<1>6. lru.reserved \in Key \cup {NoKey} /\ newer \subseteq Key \X Key
  BY DEF LruInv
<1>7. \A x, y \in DOMAIN s : x < y => <<s[x], s[y]>> \in newer
  BY DEF LruInv, OrderIsRecency
<1>8. lru.reserved # NoKey => lru.reserved \in Range(s)
  BY DEF LruInv
<1> HIDE DEF m, s
<1>9. DOMAIN m \subseteq Nat /\ Range(m) \subseteq Key
  BY <1>3 DEF Range
<1>10. ASSUME NEW a \in DOMAIN m, NEW b \in DOMAIN m, a < b
       PROVE  m[a] # m[b] /\ <<m[a], m[b]>> \in newer'
  <2>1. m[a] # m[b]
    BY <1>4, <1>9, <1>10 DEF Distinct
  <2>2. CASE m[a] = k /\ m[b] \in Range(m) \ {k}
    BY <1>5, <2>1, <2>2
  <2>3. CASE \E x, y \in DOMAIN s : x < y /\ s[x] # k /\ m[a] = s[x] /\ m[b] = s[y]
    <3>1. PICK x, y \in DOMAIN s : x < y /\ s[x] # k /\ m[a] = s[x] /\ m[b] = s[y]
      BY <2>3
    <3>2. <<s[x], s[y]>> \in newer /\ <<s[x], s[y]>>[1] # k
      BY <1>7, <3>1
    <3> QED BY <1>5, <2>1, <3>1, <3>2
  <2> QED BY <1>3, <1>10, <2>2, <2>3
<1>11. newer' \subseteq Key \X Key
  BY <1>5, <1>6, <1>9
<1>12. OrderIsRecency'
  BY <1>2, <1>10 DEF OrderIsRecency
<1>13. lru' \in [order : Seq(Key), reserved : Key \cup {NoKey}]
  BY <1>2, <1>3, <1>6
<1>14. lru'.reserved # NoKey => lru'.reserved \in Range(lru'.order)
  BY <1>2, <1>3, <1>8
<1> QED BY <1>2, <1>3, <1>11, <1>12, <1>13, <1>14 DEF LruInv, s

(* What losing k does to it: OnRemove and CommitVictim.                    *)
LEMMA LossKeepsLruInv ==
  ASSUME LruInv, NEW k \in Key, NEW r,
         lru' = [order |-> Without(lru.order, k), reserved |-> r],
         r = IF lru.reserved = k THEN NoKey ELSE lru.reserved, Forget(k)
  PROVE  LruInv' /\ Range(lru'.order) = Range(lru.order) \ {k}
<1> DEFINE s == lru.order
           w == Without(s, k)
<1>1. s \in Seq(Key) /\ Distinct(s)
  BY OrderIsDistinct
<1>2. lru'.order = w /\ lru'.reserved = r
  OBVIOUS
<1>3. /\ w \in Seq(Key) /\ Range(w) = Range(s) \ {k}
      /\ \A a, b \in DOMAIN w : a < b =>
           \E x, y \in DOMAIN s : x < y /\ w[a] = s[x] /\ w[b] = s[y]
  <2> HIDE DEF s
  <2> QED BY <1>1, WithoutKeeps
<1>4. newer' = {e \in newer : k \notin {e[1], e[2]}}
  BY DEF Forget
<1>5. lru.reserved \in Key \cup {NoKey} /\ newer \subseteq Key \X Key
  BY DEF LruInv
<1>6. \A x, y \in DOMAIN s : x < y => s[x] # s[y] /\ <<s[x], s[y]>> \in newer
  BY DEF LruInv, OrderIsRecency
<1>7. lru.reserved # NoKey => lru.reserved \in Range(s)
  BY DEF LruInv
<1> HIDE DEF w, s
<1>8. ASSUME NEW a \in DOMAIN w, NEW b \in DOMAIN w, a < b
      PROVE  w[a] # w[b] /\ <<w[a], w[b]>> \in newer'
  <2>1. PICK x, y \in DOMAIN s : x < y /\ w[a] = s[x] /\ w[b] = s[y]
    BY <1>3, <1>8
  <2>2. w[a] # k /\ w[b] # k
    BY <1>3 DEF Range
  <2>3. <<w[a], w[b]>> \in newer /\ k \notin {<<w[a], w[b]>>[1], <<w[a], w[b]>>[2]}
    BY <1>6, <2>1, <2>2
  <2> QED BY <1>4, <1>6, <2>1, <2>3
<1>9. OrderIsRecency'
  BY <1>2, <1>8 DEF OrderIsRecency
<1>10. newer' \subseteq Key \X Key
  BY <1>4, <1>5
<1>11. lru' \in [order : Seq(Key), reserved : Key \cup {NoKey}]
  BY <1>2, <1>3, <1>5
<1>12. lru'.reserved # NoKey => lru'.reserved \in Range(lru'.order)
  BY <1>2, <1>3, <1>7
<1> QED BY <1>2, <1>3, <1>9, <1>10, <1>11, <1>12 DEF LruInv, s

(* Choosing a victim or giving it up changes the reservation only.         *)
LEMMA ReservationKeepsLruInv ==
  ASSUME LruInv, NEW r \in Range(lru.order) \cup {NoKey},
         lru' = [lru EXCEPT !.reserved = r], UNCHANGED newer
  PROVE  LruInv' /\ lru'.order = lru.order /\ lru'.reserved = r
<1>1. lru'.order = lru.order /\ lru'.reserved = r
      /\ lru' = [order |-> lru'.order, reserved |-> lru'.reserved]
  BY DEF LruInv
<1>2. lru.order \in Seq(Key)
  BY DEF LruInv
<1>3. r \in Key \cup {NoKey}
  BY <1>2 DEF Range
<1>4. lru' \in [order : Seq(Key), reserved : Key \cup {NoKey}]
  BY <1>1, <1>2, <1>3
<1>5. OrderIsRecency'
  BY <1>1 DEF LruInv, OrderIsRecency
<1> QED BY <1>1, <1>4, <1>5 DEF LruInv

(* SelectVictim's answer: in the list, not excluded, everything behind it  *)
(* excluded.                                                               *)
LEMMA VictimIs ==
  ASSUME LruInv, NEW excluded, LruVictim(lru, excluded) # NoKey
  PROVE  \E i \in DOMAIN lru.order :
           /\ LruVictim(lru, excluded) = lru.order[i] /\ lru.order[i] # excluded
           /\ \A j \in DOMAIN lru.order : i < j => lru.order[j] = excluded
<1> DEFINE s == lru.order
<1>1. s \in Seq(Key) /\ NoKey \notin Key
  BY KeysAssumption DEF LruInv
<1>2. LruVictim(lru, excluded) = Oldest(s, excluded)
  BY DEF LruVictim
<1> HIDE DEF s
<1> QED BY <1>1, <1>2, OldestIs DEF s

(* Every call of the policy keeps the invariant and is a call of the       *)
(* contract, or changes nothing of what the contract shows.                *)
LEMMA LruStep ==
  ASSUME LruInv, [LruNext]_lruVars
  PROVE  LruInv' /\ [LruPolicy!PolicyNext]_(LruPolicy!policyVars)
<1> DEFINE Shown == LruPolicy!PolicyNext \/ UNCHANGED <<Range(lru.order), lru.reserved>>
<1> SUFFICES LruInv' /\ Shown
  BY DEF LruPolicy!policyVars
<1>0. NoKey \notin Key
  BY KeysAssumption
<1>1. ASSUME NEW k \in Key, Access(k) PROVE LruInv' /\ Shown
  <2>1. CASE LruKnows(lru, k) /\ k # lru.reserved
    <3>1. lru' = MoveToFront(lru, k) /\ UsedNow(k)
      BY <1>1, <2>1 DEF Access, LruOnAccess
    <3>2. LruInv' /\ Range(lru'.order) = Range(lru.order)
      BY <2>1, <3>1, UseKeepsLruInv DEF LruKnows
    <3>3. lru'.reserved = lru.reserved
      BY <3>1 DEF MoveToFront, LruInv
    <3> QED BY <3>2, <3>3
  <2>2. CASE ~(LruKnows(lru, k) /\ k # lru.reserved)
    <3>1. UNCHANGED lruVars
      BY <1>1, <2>2 DEF Access, LruOnAccess, lruVars
    <3> QED BY <3>1 DEF lruVars, LruInv, OrderIsRecency
  <2> QED BY <2>1, <2>2
<1>2. ASSUME NEW k \in Key, Insert(k) PROVE LruInv' /\ Shown
  <2>1. lru' = MoveToFront(lru, k) /\ UsedNow(k) /\ k # lru.reserved
    BY <1>2 DEF Insert, LruOnInsert
  <2>2. LruInv' /\ Range(lru'.order) = Range(lru.order) \cup {k}
    BY <2>1, UseKeepsLruInv
  <2>3. lru'.reserved = lru.reserved
    BY <2>1 DEF MoveToFront, LruInv
  <2>4. LruPolicy!OnInsert(k)
    BY <2>1, <2>2, <2>3 DEF LruPolicy!OnInsert
  <2> QED BY <2>2, <2>4 DEF LruPolicy!PolicyNext
<1>3. ASSUME NEW k \in Key, RemoveKey(k) PROVE LruInv' /\ Shown
  <2> DEFINE r == IF lru.reserved = k THEN NoKey ELSE lru.reserved
  <2>1. lru' = [order |-> Without(lru.order, k), reserved |-> r] /\ Forget(k)
    BY <1>3 DEF RemoveKey, LruOnRemove
  <2>2. LruInv' /\ Range(lru'.order) = Range(lru.order) \ {k}
    BY <2>1, LossKeepsLruInv
  <2>3. LruPolicy!OnRemove(k)
    BY <2>1, <2>2 DEF LruPolicy!OnRemove
  <2> QED BY <2>2, <2>3 DEF LruPolicy!PolicyNext
<1>4. ASSUME NEW k \in Key, Commit(k) PROVE LruInv' /\ Shown
  <2>1. lru' = [order |-> Without(lru.order, k), reserved |-> NoKey] /\ Forget(k)
        /\ lru.reserved = k /\ k \in Range(lru.order)
    BY <1>4 DEF Commit, LruMayCommit, LruCommit, LruKnows
  <2>2. LruInv' /\ Range(lru'.order) = Range(lru.order) \ {k}
    BY <2>1, LossKeepsLruInv
  <2>3. LruPolicy!ValidateVictimCommit(k) /\ LruPolicy!CommitVictim(k)
    BY <2>1, <2>2 DEF LruPolicy!ValidateVictimCommit, LruPolicy!CommitVictim
  <2> QED BY <2>2, <2>3 DEF LruPolicy!PolicyNext
<1>5. ASSUME NEW k \in Key, Cancel(k) PROVE LruInv' /\ Shown
  <2>1. lru' = [lru EXCEPT !.reserved = NoKey] /\ UNCHANGED newer /\ lru.reserved = k
    BY <1>5 DEF Cancel
  <2>2. LruInv' /\ lru'.order = lru.order /\ lru'.reserved = NoKey
    BY <2>1, ReservationKeepsLruInv
  <2>3. LruPolicy!CancelVictim(k)
    BY <2>1, <2>2 DEF LruPolicy!CancelVictim
  <2> QED BY <2>2, <2>3 DEF LruPolicy!PolicyNext
<1>6. ASSUME NEW excluded \in Key \cup {NoKey}, Select(excluded) PROVE LruInv' /\ Shown
  <2> DEFINE v == LruVictim(lru, excluded)
  <2>1. lru' = [lru EXCEPT !.reserved = v] /\ UNCHANGED newer /\ lru.reserved = NoKey
        /\ v # NoKey
    BY <1>6 DEF Select
  <2>2. v \in Range(lru.order) \ {excluded}
    BY <2>1, VictimIs DEF Range
  <2> HIDE DEF v
  <2>3. LruInv' /\ lru'.order = lru.order /\ lru'.reserved = v
    BY <2>1, <2>2, ReservationKeepsLruInv
  <2>4. LruPolicy!SelectVictim(excluded)
    BY <2>1, <2>2, <2>3 DEF LruPolicy!SelectVictim
  <2> QED BY <2>3, <2>4 DEF LruPolicy!PolicyNext
<1>7. CASE UNCHANGED lruVars
  BY <1>7 DEF lruVars, LruInv, OrderIsRecency
<1> QED BY <1>1, <1>2, <1>3, <1>4, <1>5, <1>6, <1>7 DEF LruNext

(* An LruEviction that has just been constructed.                          *)
LEMMA LruStart == LruInit => LruInv /\ LruPolicy!PolicyInit
<1> SUFFICES ASSUME LruInit PROVE LruInv /\ LruPolicy!PolicyInit
  OBVIOUS
<1>1. lru.order = <<>> /\ lru.reserved = NoKey /\ newer = {}
      /\ lru = [order |-> <<>>, reserved |-> NoKey]
  BY DEF LruInit, LruEmpty
<1>2. <<>> \in Seq(Key) /\ DOMAIN <<>> = {}
  OBVIOUS
<1>3. lru \in [order : Seq(Key), reserved : Key \cup {NoKey}]
  BY <1>1, <1>2
<1>4. OrderIsRecency
  BY <1>1, <1>2 DEF OrderIsRecency
<1>5. Range(lru.order) = {}
  BY <1>1, <1>2 DEF Range
<1> QED BY <1>1, <1>3, <1>4, <1>5 DEF LruInv, LruPolicy!PolicyInit

(* order_ lists each resident once and in the order of last use after any  *)
(* sequence of calls of LruEviction, whatever the number of keys: a        *)
(* reservation in progress, its commit or its cancellation included.       *)
THEOREM LruOrder == LruSpec => []OrderIsRecency
<1>1. LruSpec => []LruInv
  BY LruStart, LruStep, PTL DEF LruSpec
<1>2. LruInv => OrderIsRecency
  BY DEF LruInv
<1> QED BY <1>1, <1>2, PTL

(* SelectVictim reserves the resident that was used least recently, the    *)
(* excluded key aside.                                                     *)
THEOREM LruVictimIsLeastRecent == LruSpec => VictimIsLeastRecent
<1> DEFINE LeastRecent ==
      \A excluded \in Key \cup {NoKey} : Select(excluded) =>
        \A k \in Range(lru.order) \ {excluded, lru'.reserved} :
          <<k, lru'.reserved>> \in newer
<1>1. LruSpec => []LruInv
  BY LruStart, LruStep, PTL DEF LruSpec
<1>2. ASSUME LruInv PROVE LeastRecent
  <2>1. SUFFICES ASSUME NEW excluded \in Key \cup {NoKey}, Select(excluded),
                        NEW k \in Range(lru.order) \ {excluded, lru'.reserved}
                 PROVE  <<k, lru'.reserved>> \in newer
    OBVIOUS
  <2>2. lru'.reserved = LruVictim(lru, excluded) /\ LruVictim(lru, excluded) # NoKey
    BY <1>2, <2>1 DEF Select, LruInv
  <2>3. PICK i \in DOMAIN lru.order :
          /\ lru'.reserved = lru.order[i]
          /\ \A j \in DOMAIN lru.order : i < j => lru.order[j] = excluded
    BY <1>2, <2>2, VictimIs
  <2>4. PICK j \in DOMAIN lru.order : k = lru.order[j]
    BY <2>1 DEF Range
  <2>5. j < i
    <3>1. i \in Nat /\ j \in Nat
      BY <1>2, OrderIsDistinct
    <3>2. j # i /\ ~(i < j)
      BY <2>1, <2>3, <2>4
    <3> QED BY <3>1, <3>2
  <2> QED BY <1>2, <2>3, <2>4, <2>5 DEF LruInv, OrderIsRecency
<1>3. LruInv => [LeastRecent]_lruVars
  BY <1>2
<1>4. VictimIsLeastRecent <=> [][LeastRecent]_lruVars
  BY DEF VictimIsLeastRecent
<1> HIDE DEF LeastRecent
<1> QED BY <1>1, <1>3, <1>4, PTL

(* LruEviction keeps the contract of eviction_policy.h for any number of   *)
(* keys.                                                                   *)
THEOREM LruKeepsContract == LruSpec => LruImplementsPolicy
<1>1. LruInit => LruPolicy!PolicyInit /\ LruInv
  BY LruStart
<1>2. LruInv /\ [LruNext]_lruVars
        => LruInv' /\ [LruPolicy!PolicyNext]_(LruPolicy!policyVars)
  BY LruStep
<1> QED BY <1>1, <1>2, PTL DEF LruSpec, LruImplementsPolicy, LruPolicy!PolicySpec


-----------------------------------------------------------------------------
(* ArcEviction.                                                            *)

(* The members of ArcEviction.                                             *)
ArcFields == {"t1", "t2", "b1", "b2", "p", "lastHitInB2", "reserved", "source"}

(* Four lists of keys.                                                     *)
ArcShape(a) == DOMAIN a = ArcFields /\ \A l \in Lists : a[l] \in Seq(Key)

(* pos_ has one entry for each key: it is in one list at most and once.    *)
Apart(a) ==
  /\ \A l \in Lists : Distinct(a[l])
  /\ \A l, m \in Lists : l # m => Range(a[l]) \cap Range(a[m]) = {}

(* The reserved victim is in the list it was chosen from.                  *)
VictimInSource(a) ==
  a.reserved # NoKey => a.source \in {"t1", "t2"} /\ a.reserved \in Range(a[a.source])

(* The state of the object between two calls.                              *)
ArcGood(a) ==
  /\ ArcShape(a) /\ Apart(a) /\ VictimInSource(a)
  /\ a.p \in 0 .. PUnit * c
  /\ a.reserved \in Key \cup {NoKey}

(* The two ways to say that no key is in two places.                       *)
LEMMA ApartIs ==
  ASSUME NEW a, ArcShape(a)
  PROVE  Apart(a) <=> \A l, m \in Lists : \A i \in DOMAIN a[l], j \in DOMAIN a[m] :
                        a[l][i] = a[m][j] => l = m /\ i = j
<1>1. ASSUME Apart(a), NEW l \in Lists, NEW m \in Lists,
             NEW i \in DOMAIN a[l], NEW j \in DOMAIN a[m], a[l][i] = a[m][j]
      PROVE  l = m /\ i = j
  <2>1. a[l][i] \in Range(a[l]) /\ a[m][j] \in Range(a[m])
    BY DEF Range
  <2>2. l = m
    BY <1>1, <2>1 DEF Apart
  <2> QED BY <1>1, <2>2 DEF Apart, Distinct
<1>2. ASSUME \A l, m \in Lists : \A i \in DOMAIN a[l], j \in DOMAIN a[m] :
               a[l][i] = a[m][j] => l = m /\ i = j
      PROVE  Apart(a)
  <2>1. \A l \in Lists : Distinct(a[l])
    BY <1>2 DEF Distinct
  <2>2. ASSUME NEW l \in Lists, NEW m \in Lists, l # m, NEW e \in Range(a[l]) \cap Range(a[m])
        PROVE  FALSE
    BY <1>2, <2>2 DEF Range
  <2> QED BY <2>1, <2>2 DEF Apart
<1> QED BY <1>1, <1>2

(* pos_[k].list.                                                           *)
LEMMA ListOfIs ==
  ASSUME NEW a, Apart(a), NEW l \in Lists, NEW k \in Range(a[l])
  PROVE  ListOf(a, k) = l
<1>1. ListOf(a, k) \in Lists /\ k \in Range(a[ListOf(a, k)])
  BY DEF ListOf
<1> QED BY <1>1 DEF Apart

(* Relink moves a key to the front of a list: the destination gains it,    *)
(* the list it was in loses it, no other list changes.                     *)
LEMMA Relinked ==
  ASSUME NEW a, ArcShape(a), Apart(a), NEW k \in KeysIn(a, Lists), NEW dst \in Lists
  PROVE  LET b == Relink(a, k, dst)
         IN  /\ ArcShape(b) /\ Apart(b)
             /\ Range(b[dst]) = Range(a[dst]) \cup {k}
             /\ \A l \in Lists \ {dst} : Range(b[l]) = Range(a[l]) \ {k}
             /\ \A f \in ArcFields \ Lists : b[f] = a[f]
<1> DEFINE b == Relink(a, k, dst)
<1>1. PICK src \in Lists : k \in Range(a[src])
  BY DEF KeysIn
<1>2. ListOf(a, k) = src
  BY <1>1, ListOfIs
<1>3. Lists \subseteq ArcFields /\ DOMAIN a = ArcFields
  BY DEF Lists, ArcFields, ArcShape
<1> DEFINE taken == [a EXCEPT ![src] = Without(a[src], k)]
<1>4. b = [taken EXCEPT ![dst] = PushFront(taken[dst], k)]
  BY <1>2 DEF Relink
<1>5. /\ DOMAIN b = ArcFields
      /\ \A f \in ArcFields : b[f] = IF f = dst
                                     THEN IF dst = src THEN PushFront(Without(a[f], k), k)
                                          ELSE PushFront(a[f], k)
                                     ELSE IF f = src THEN Without(a[f], k) ELSE a[f]
  <2> HIDE DEF b
  <2>1. /\ DOMAIN taken = ArcFields
        /\ \A f \in ArcFields : taken[f] = IF f = src THEN Without(a[f], k) ELSE a[f]
    BY <1>3
  <2> HIDE DEF taken
  <2> QED BY <1>3, <1>4, <2>1
<1> HIDE DEF b
<1>6. \A l \in Lists : a[l] \in Seq(Key) /\ Distinct(a[l])
  BY DEF ArcShape, Apart
<1>7. k \in Key
  BY <1>1, <1>6 DEF Range
<1>8. \A l \in Lists : l # src => k \notin Range(a[l])
  BY <1>1 DEF Apart
<1>9. ASSUME NEW l \in Lists
      PROVE  b[l] = IF l = dst THEN PushFront(Without(a[l], k), k) ELSE Without(a[l], k)
  <2>1. l # src => Without(a[l], k) = a[l]
    BY <1>6, <1>8, WithoutOther
  <2> QED BY <1>3, <1>5, <2>1
<1>10. ASSUME NEW l \in Lists
       PROVE  /\ b[l] \in Seq(Key) /\ Distinct(b[l])
              /\ Range(b[l]) = IF l = dst THEN Range(a[l]) \cup {k} ELSE Range(a[l]) \ {k}
  <2>1. CASE l = dst
    BY <1>6, <1>7, <1>9, <2>1, MovedToFront
  <2>2. CASE l # dst
    BY <1>6, <1>9, <2>2, WithoutKeeps
  <2> QED BY <2>1, <2>2
<1>11. ASSUME NEW l \in Lists, NEW m \in Lists, l # m
       PROVE  Range(b[l]) \cap Range(b[m]) = {}
  <2>1. Range(a[l]) \cap Range(a[m]) = {}
    BY <1>11 DEF Apart
  <2>2. CASE l = dst
    <3>1. Range(b[l]) = Range(a[l]) \cup {k} /\ Range(b[m]) = Range(a[m]) \ {k}
      BY <1>10, <1>11, <2>2
    <3> QED BY <2>1, <3>1
  <2>3. CASE l # dst
    <3>1. /\ Range(b[l]) = Range(a[l]) \ {k}
          /\ Range(b[m]) \in {Range(a[m]) \cup {k}, Range(a[m]) \ {k}}
      BY <1>10, <2>3
    <3> QED BY <2>1, <3>1
  <2> QED BY <2>2, <2>3
<1>12. ASSUME NEW f \in ArcFields \ Lists PROVE b[f] = a[f]
  BY <1>5
<1>13. ArcShape(b) /\ Apart(b)
  BY <1>5, <1>10, <1>11 DEF ArcShape, Apart
<1> QED BY <1>10, <1>12, <1>13 DEF b

(* Erasing a key from every list.                                          *)
LEMMA Erased ==
  ASSUME NEW a, ArcShape(a), Apart(a), NEW k, NEW b, DOMAIN b = ArcFields,
         \A l \in Lists : b[l] = Without(a[l], k)
  PROVE  /\ ArcShape(b) /\ Apart(b)
         /\ \A l \in Lists : Range(b[l]) = Range(a[l]) \ {k}
<1>1. ASSUME NEW l \in Lists
      PROVE  b[l] \in Seq(Key) /\ Distinct(b[l]) /\ Range(b[l]) = Range(a[l]) \ {k}
  BY WithoutKeeps DEF ArcShape, Apart
<1>2. ASSUME NEW l \in Lists, NEW m \in Lists, l # m
      PROVE  Range(b[l]) \cap Range(b[m]) = {}
  <2>1. Range(a[l]) \cap Range(a[m]) = {}
    BY <1>2 DEF Apart
  <2> QED BY <1>1, <2>1
<1> QED BY <1>1, <1>2 DEF ArcShape, Apart

(* std::max, as AdaptUp and AdaptDown use it.                              *)
LEMMA MaxOfTwo ==
  ASSUME NEW x \in Int, NEW y \in Int PROVE Max({x, y}) = IF x >= y THEN x ELSE y
<1> DEFINE T == {x, y}
<1>1. x \in T /\ y \in T /\ \A z \in T : z = x \/ z = y
  OBVIOUS
<1> HIDE DEF T
<1>2. \E m \in T : \A z \in T : m >= z
  BY <1>1
<1>3. Max(T) \in T /\ \A z \in T : Max(T) >= z
  BY <1>2 DEF Max
<1>4. Max(T) = IF x >= y THEN x ELSE y
  <2>1. (Max(T) = x \/ Max(T) = y) /\ Max(T) >= x /\ Max(T) >= y
    BY <1>1, <1>3
  <2> QED BY <2>1
<1> QED BY <1>4 DEF T

(* std::min, likewise.                                                     *)
LEMMA MinOfTwo ==
  ASSUME NEW x \in Int, NEW y \in Int PROVE Min({x, y}) = IF x <= y THEN x ELSE y
<1> DEFINE T == {x, y}
<1>1. x \in T /\ y \in T /\ \A z \in T : z = x \/ z = y
  OBVIOUS
<1> HIDE DEF T
<1>2. \E m \in T : \A z \in T : m <= z
  BY <1>1
<1>3. Min(T) \in T /\ \A z \in T : Min(T) <= z
  BY <1>2 DEF Min
<1>4. Min(T) = IF x <= y THEN x ELSE y
  <2>1. (Min(T) = x \/ Min(T) = y) /\ Min(T) <= x /\ Min(T) <= y
    BY <1>1, <1>3
  <2> QED BY <2>1
<1> QED BY <1>4 DEF T

(* max(|num| / |den|, 1), when den is not empty.                           *)
LEMMA RatioTyped ==
  ASSUME NEW num \in Seq(Key), NEW den \in Seq(Key), den # <<>>
  PROVE  Ratio(num, den) \in Nat
<1> DEFINE x == PUnit * Len(num)
           d == Len(den)
           q == x \div d
<1>1. PUnit \in Nat /\ Len(num) \in Nat
  BY ArcAssumption
<1>2. x \in Nat /\ d \in Nat \ {0}
  BY <1>1, EmptySeq
<1>3. Ratio(num, den) = Max({PUnit, q})
  BY DEF Ratio
<1> HIDE DEF x, d
<1>4. q \in Nat
  BY <1>2
<1> HIDE DEF q
<1> QED BY <1>1, <1>3, <1>4, MaxOfTwo

(* A ghost hit keeps p between 0 and c.                                    *)
LEMMA AdaptedUp ==
  ASSUME NEW a, ArcGood(a), a["b1"] # <<>>
  PROVE  AdaptUp(a).p \in 0 .. PUnit * c
<1> DEFINE top == PUnit * c
           r == Ratio(a["b2"], a["b1"])
<1>1. top \in Nat
  BY ArcAssumption
<1>2. r \in Nat
  BY RatioTyped DEF ArcGood, ArcShape, Lists
<1>3. a.p \in 0 .. top
  BY DEF ArcGood
<1>4. AdaptUp(a).p = Min({top, a.p + r})
  BY DEF AdaptUp, ArcGood, ArcShape, ArcFields
<1> HIDE DEF top, r
<1>5. Min({top, a.p + r}) = IF top <= a.p + r THEN top ELSE a.p + r
  BY <1>1, <1>2, <1>3, MinOfTwo
<1>6. AdaptUp(a).p \in 0 .. top
  BY <1>1, <1>2, <1>3, <1>4, <1>5
<1> QED BY <1>6 DEF top

(* AdaptDown keeps p between 0 and c.                                      *)
LEMMA AdaptedDown ==
  ASSUME NEW a, ArcGood(a), a["b2"] # <<>>
  PROVE  AdaptDown(a).p \in 0 .. PUnit * c
<1> DEFINE top == PUnit * c
           r == Ratio(a["b1"], a["b2"])
<1>1. top \in Nat
  BY ArcAssumption
<1>2. r \in Nat
  BY RatioTyped DEF ArcGood, ArcShape, Lists
<1>3. a.p \in 0 .. top
  BY DEF ArcGood
<1>4. AdaptDown(a).p = Max({0, a.p - r})
  BY DEF AdaptDown, ArcGood, ArcShape, ArcFields
<1> HIDE DEF top, r
<1>5. Max({0, a.p - r}) = IF 0 >= a.p - r THEN 0 ELSE a.p - r
  BY <1>1, <1>2, <1>3, MaxOfTwo
<1>6. AdaptDown(a).p \in 0 .. top
  BY <1>1, <1>2, <1>3, <1>4, <1>5
<1> QED BY <1>6 DEF top

-----------------------------------------------------------------------------
(* b has the lists and the reservation of a; p and the tie-break may       *)
(* differ.                                                                 *)
SameLists(a, b) ==
  /\ DOMAIN b = ArcFields
  /\ \A f \in ArcFields \ {"p", "lastHitInB2"} : b[f] = a[f]
  /\ b.p \in 0 .. PUnit * c

(* Changes of p and last_hit_in_b2_ disturb nothing else.                  *)
LEMMA SameListsGood ==
  ASSUME NEW a, ArcGood(a), NEW b, SameLists(a, b)
  PROVE  ArcGood(b) /\ \A l \in Lists : b[l] = a[l]
<1>1. Lists \subseteq ArcFields \ {"p", "lastHitInB2"}
      /\ {"reserved", "source", "t1", "t2"} \subseteq ArcFields \ {"p", "lastHitInB2"}
  BY DEF Lists, ArcFields
<1>2. /\ \A l \in Lists : b[l] = a[l]
      /\ b.reserved = a.reserved /\ b.source = a.source /\ b.t1 = a.t1 /\ b.t2 = a.t2
  BY <1>1 DEF SameLists
<1>3. ArcShape(b)
  BY <1>2 DEF ArcGood, ArcShape, SameLists
<1>4. Apart(b)
  BY <1>2 DEF ArcGood, Apart
<1>5. VictimInSource(b)
  BY <1>2 DEF ArcGood, VictimInSource
<1> QED BY <1>2, <1>3, <1>4, <1>5 DEF ArcGood, SameLists

(* Cases I to III: the hit key goes to T2, p stays in range, the           *)
(* reservation is untouched.                                               *)
LEMMA HitIs ==
  ASSUME NEW a, ArcGood(a), NEW k \in KeysIn(a, Lists)
  PROVE  \E b : SameLists(a, b) /\ ArcHit(a, k) = Relink(b, k, "t2")
<1>1. PICK l \in Lists : k \in Range(a[l])
  BY DEF KeysIn
<1>2. ListOf(a, k) = l
  BY <1>1, ListOfIs DEF ArcGood
<1>3. a[l] # <<>>
  BY <1>1 DEF Range
<1>4. DOMAIN a = ArcFields /\ a.p \in 0 .. PUnit * c
  BY DEF ArcGood, ArcShape
<1>5. CASE l \in {"t1", "t2"}
  <2>1. ArcHit(a, k) = Relink(a, k, "t2")
    BY <1>2, <1>5 DEF ArcHit
  <2>2. SameLists(a, a)
    BY <1>4 DEF SameLists
  <2> QED BY <2>1, <2>2
<1>6. CASE l = "b1"
  <2> DEFINE b == [AdaptUp(a) EXCEPT !.lastHitInB2 = FALSE]
  <2>1. ArcHit(a, k) = Relink(b, k, "t2")
    BY <1>2, <1>6 DEF ArcHit
  <2>2. AdaptUp(a).p \in 0 .. PUnit * c
    BY <1>3, <1>6, AdaptedUp
  <2>3. DOMAIN AdaptUp(a) = ArcFields /\ \A f \in ArcFields \ {"p"} : AdaptUp(a)[f] = a[f]
    BY <1>4 DEF AdaptUp
  <2>4. SameLists(a, b)
    BY <2>2, <2>3 DEF SameLists, ArcFields
  <2> QED BY <2>1, <2>4
<1>7. CASE l = "b2"
  <2> DEFINE b == [AdaptDown(a) EXCEPT !.lastHitInB2 = TRUE]
  <2>1. ArcHit(a, k) = Relink(b, k, "t2")
    BY <1>2, <1>7 DEF ArcHit
  <2>2. AdaptDown(a).p \in 0 .. PUnit * c
    BY <1>3, <1>7, AdaptedDown
  <2>3. DOMAIN AdaptDown(a) = ArcFields /\ \A f \in ArcFields \ {"p"} : AdaptDown(a)[f] = a[f]
    BY <1>4 DEF AdaptDown
  <2>4. SameLists(a, b)
    BY <2>2, <2>3 DEF SameLists, ArcFields
  <2> QED BY <2>1, <2>4
<1> QED BY <1>5, <1>6, <1>7 DEF Lists

(* A key of any list moves to T2, and is resident from then on.            *)
LEMMA HitKeeps ==
  ASSUME NEW a, ArcGood(a), NEW k \in KeysIn(a, Lists), k # a.reserved
  PROVE  LET b == ArcHit(a, k)
         IN  /\ ArcGood(b) /\ b.reserved = a.reserved
             /\ ArcResident(b) = ArcResident(a) \cup {k}
<1> DEFINE b == ArcHit(a, k)
<1>1. PICK d : SameLists(a, d) /\ b = Relink(d, k, "t2")
  BY HitIs
<1> HIDE DEF b
<1>2. ArcGood(d) /\ \A l \in Lists : d[l] = a[l]
  BY <1>1, SameListsGood
<1>3. k \in KeysIn(d, Lists)
  BY <1>2 DEF KeysIn
<1>4. /\ ArcShape(b) /\ Apart(b)
      /\ Range(b["t2"]) = Range(d["t2"]) \cup {k}
      /\ \A l \in Lists \ {"t2"} : Range(b[l]) = Range(d[l]) \ {k}
      /\ \A f \in ArcFields \ Lists : b[f] = d[f]
  <2>1. ArcShape(d) /\ Apart(d)
    BY <1>2 DEF ArcGood
  <2>2. "t2" \in Lists
    BY DEF Lists
  <2>3. ArcShape(Relink(d, k, "t2")) /\ Apart(Relink(d, k, "t2"))
    BY <1>3, <2>1, <2>2, Relinked
  <2>4. /\ Range(Relink(d, k, "t2")["t2"]) = Range(d["t2"]) \cup {k}
        /\ \A l \in Lists \ {"t2"} : Range(Relink(d, k, "t2")[l]) = Range(d[l]) \ {k}
    BY <1>3, <2>1, <2>2, Relinked
  <2>5. \A f \in ArcFields \ Lists : Relink(d, k, "t2")[f] = d[f]
    BY <1>3, <2>1, <2>2, Relinked
  <2> QED BY <1>1, <2>3, <2>4, <2>5
<1>5. /\ b.p = d.p /\ b.reserved = d.reserved /\ b.source = d.source
      /\ d.reserved = a.reserved /\ d.source = a.source
  BY <1>1, <1>4 DEF ArcFields, Lists, SameLists
<1>6. Range(b["t1"]) = Range(a["t1"]) \ {k} /\ Range(b["t2"]) = Range(a["t2"]) \cup {k}
  BY <1>2, <1>4 DEF Lists
<1>7. VictimInSource(b)
  BY <1>5, <1>6 DEF VictimInSource, ArcGood
<1>8. b.p \in 0 .. PUnit * c /\ b.reserved \in Key \cup {NoKey}
  BY <1>2, <1>5 DEF ArcGood
<1>9. ArcGood(b)
  BY <1>4, <1>7, <1>8 DEF ArcGood
<1>10. ArcResident(b) = ArcResident(a) \cup {k}
  BY <1>6 DEF ArcResident, KeysIn
<1> QED BY <1>5, <1>9, <1>10 DEF b

(* Case IV, up to the trim: a new key is the most recent of T1.            *)
LEMMA PushedKeeps ==
  ASSUME NEW a, ArcGood(a), NEW k \in Key, k \notin KeysIn(a, Lists)
  PROVE  LET b == [a EXCEPT !.t1 = PushFront(@, k), !.lastHitInB2 = FALSE]
         IN  /\ ArcGood(b) /\ b.reserved = a.reserved
             /\ ArcResident(b) = ArcResident(a) \cup {k}
<1> DEFINE b == [a EXCEPT !.t1 = PushFront(@, k), !.lastHitInB2 = FALSE]
<1>1. DOMAIN a = ArcFields /\ \A l \in Lists : a[l] \in Seq(Key) /\ Distinct(a[l])
  BY DEF ArcGood, ArcShape, Apart
<1>2. /\ DOMAIN b = ArcFields /\ b["t1"] = PushFront(a["t1"], k)
      /\ \A f \in ArcFields \ {"t1", "lastHitInB2"} : b[f] = a[f]
  BY <1>1 DEF ArcFields
<1> HIDE DEF b
<1>3. b["t2"] = a["t2"] /\ b["b1"] = a["b1"] /\ b["b2"] = a["b2"] /\ b.p = a.p
      /\ b.reserved = a.reserved /\ b.source = a.source
  BY <1>2 DEF ArcFields
<1>4. \A l \in Lists : k \notin Range(a[l])
  BY DEF KeysIn
<1>5. a["t1"] \in Seq(Key) /\ Distinct(a["t1"]) /\ k \notin Range(a["t1"])
  BY <1>1, <1>4 DEF Lists
<1>6. b["t1"] \in Seq(Key) /\ Range(b["t1"]) = Range(a["t1"]) \cup {k}
  <2> DEFINE t == a["t1"]
  <2>1. t \in Seq(Key)
    BY <1>5
  <2> HIDE DEF t
  <2>2. PushFront(t, k) \in Seq(Key) /\ Range(PushFront(t, k)) = Range(t) \cup {k}
    BY <2>1, PushFrontIs
  <2> QED BY <1>2, <2>2 DEF t
<1>7. Distinct(b["t1"])
  BY <1>2, <1>5, PushFrontIs
<1>8. ArcShape(b)
  BY <1>1, <1>2, <1>3, <1>6 DEF ArcShape, Lists
<1>9. Apart(b)
  <2>1. ASSUME NEW l \in Lists, NEW m \in Lists, l # m
        PROVE  Range(b[l]) \cap Range(b[m]) = {}
    <3>1. Range(a[l]) \cap Range(a[m]) = {}
      BY <2>1 DEF ArcGood, Apart
    <3>2. \A n \in Lists : Range(b[n]) = IF n = "t1" THEN Range(a[n]) \cup {k} ELSE Range(a[n])
      BY <1>3, <1>6 DEF Lists
    <3>3. k \notin Range(a[l]) /\ k \notin Range(a[m])
      BY <1>4
    <3>4. /\ Range(b[l]) = IF l = "t1" THEN Range(a[l]) \cup {k} ELSE Range(a[l])
          /\ Range(b[m]) = IF m = "t1" THEN Range(a[m]) \cup {k} ELSE Range(a[m])
      BY <3>2
    <3> QED BY <2>1, <3>1, <3>3, <3>4
  <2>2. \A l \in Lists : Distinct(b[l])
    BY <1>1, <1>3, <1>7 DEF Lists
  <2> QED BY <2>1, <2>2 DEF Apart
<1>10. VictimInSource(b)
  BY <1>3, <1>6 DEF VictimInSource, ArcGood
<1>11. ArcGood(b)
  BY <1>3, <1>8, <1>9, <1>10 DEF ArcGood
<1>12. ArcResident(b) = ArcResident(a) \cup {k}
  BY <1>3, <1>6 DEF ArcResident, KeysIn
<1> QED BY <1>3, <1>11, <1>12 DEF b

(* Trimming a ghost list loses no resident and no reservation.             *)
LEMMA TrimKeeps ==
  ASSUME NEW a, ArcGood(a), NEW g \in {"none", "b1", "b2"}
  PROVE  LET b == EraseLru(a, g)
         IN  /\ ArcGood(b) /\ b.reserved = a.reserved
             /\ b["t1"] = a["t1"] /\ b["t2"] = a["t2"]
             /\ ArcResident(b) = ArcResident(a)
<1> DEFINE b == EraseLru(a, g)
<1>1. CASE g = "none" \/ a[g] = <<>>
  BY <1>1 DEF EraseLru
<1>2. CASE g # "none" /\ a[g] # <<>>
  <2>1. DOMAIN a = ArcFields /\ \A l \in Lists : a[l] \in Seq(Key) /\ Distinct(a[l])
    BY DEF ArcGood, ArcShape, Apart
  <2>2. b = [a EXCEPT ![g] = PopBack(a[g])] /\ g \in {"b1", "b2"}
    BY <1>2 DEF EraseLru
  <2>3. /\ DOMAIN b = ArcFields /\ b[g] = PopBack(a[g])
        /\ \A f \in ArcFields \ {g} : b[f] = a[f]
    BY <2>1, <2>2 DEF ArcFields
  <2> HIDE DEF b
  <2>4. g \in Lists /\ a[g] \in Seq(Key) /\ Distinct(a[g])
    BY <2>1, <2>2 DEF Lists
  <2>5. b[g] \in Seq(Key) /\ Distinct(b[g]) /\ Range(b[g]) \subseteq Range(a[g])
    BY <1>2, <2>3, <2>4, FrontIs
  <2>6. Lists \subseteq ArcFields
    BY DEF Lists, ArcFields
  <2>7. ASSUME NEW l \in Lists
        PROVE  b[l] \in Seq(Key) /\ Distinct(b[l]) /\ Range(b[l]) \subseteq Range(a[l])
    <3>1. CASE l = g BY <2>5, <3>1
    <3>2. CASE l # g
      <4>1. b[l] = a[l] BY <2>3, <2>6, <3>2
      <4> QED BY <2>1, <4>1
    <3> QED BY <3>1, <3>2
  <2>8. ASSUME NEW l \in Lists, NEW m \in Lists, l # m
        PROVE  Range(b[l]) \cap Range(b[m]) = {}
    <3>1. Range(a[l]) \cap Range(a[m]) = {}
      BY <2>8 DEF ArcGood, Apart
    <3>2. Range(b[l]) \subseteq Range(a[l]) /\ Range(b[m]) \subseteq Range(a[m])
      BY <2>7
    <3> QED BY <3>1, <3>2
  <2>9. b["t1"] = a["t1"] /\ b["t2"] = a["t2"] /\ b.p = a.p
        /\ b.reserved = a.reserved /\ b.source = a.source
    BY <2>2, <2>3 DEF ArcFields
  <2>10. ArcShape(b) /\ Apart(b)
    BY <2>3, <2>7, <2>8 DEF ArcShape, Apart
  <2>11. VictimInSource(b)
    BY <2>9 DEF VictimInSource, ArcGood
  <2>12. ArcGood(b)
    BY <2>9, <2>10, <2>11 DEF ArcGood
  <2>13. ArcResident(b) = ArcResident(a)
    BY <2>9 DEF ArcResident, KeysIn
  <2> QED BY <2>9, <2>12, <2>13 DEF b
<1> QED BY <1>1, <1>2

-----------------------------------------------------------------------------
(* What each call of the policy does to the residents and the reservation. *)
LEMMA AccessIs ==
  ASSUME NEW a, ArcGood(a), NEW k \in Key
  PROVE  LET b == ArcOnAccess(a, k)
         IN  /\ ArcGood(b) /\ b.reserved = a.reserved
             /\ ArcResident(b) \in {ArcResident(a), ArcResident(a) \cup {k}}
<1> DEFINE b == ArcOnAccess(a, k)
<1>1. CASE k \notin KeysIn(a, Lists)
  <2>1. b = [a EXCEPT !.lastHitInB2 = FALSE]
    BY <1>1 DEF ArcOnAccess
  <2>2. DOMAIN a = ArcFields /\ a.p \in 0 .. PUnit * c
    BY DEF ArcGood, ArcShape
  <2>3. DOMAIN b = ArcFields /\ \A f \in ArcFields \ {"lastHitInB2"} : b[f] = a[f]
    BY <2>1, <2>2
  <2> HIDE DEF b
  <2>4. SameLists(a, b) /\ b.reserved = a.reserved /\ b["t1"] = a["t1"] /\ b["t2"] = a["t2"]
    BY <2>2, <2>3 DEF SameLists, ArcFields
  <2>5. ArcGood(b)
    BY <2>4, SameListsGood
  <2>6. ArcResident(b) = ArcResident(a)
    BY <2>4 DEF ArcResident, KeysIn
  <2> QED BY <2>4, <2>5, <2>6 DEF b
<1>2. CASE k \in KeysIn(a, Lists) /\ k = a.reserved
  BY <1>2 DEF ArcOnAccess
<1>3. CASE k \in KeysIn(a, Lists) /\ k # a.reserved
  <2>1. b = ArcHit(a, k)
    BY <1>3 DEF ArcOnAccess
  <2> HIDE DEF b
  <2>2. /\ ArcGood(b) /\ b.reserved = a.reserved
        /\ ArcResident(b) = ArcResident(a) \cup {k}
    BY <1>3, <2>1, HitKeeps
  <2> QED BY <2>2 DEF b
<1> QED BY <1>1, <1>2, <1>3

(* OnInsert adds one resident, after it has trimmed a ghost.               *)
LEMMA InsertIs ==
  ASSUME NEW a, ArcGood(a), NEW k \in Key, k # a.reserved
  PROVE  LET b == ArcOnInsert(a, k)
         IN  /\ ArcGood(b) /\ b.reserved = a.reserved
             /\ ArcResident(b) = ArcResident(a) \cup {k}
<1> DEFINE b == ArcOnInsert(a, k)
<1>1. CASE k \in KeysIn(a, Lists)
  <2>1. b = ArcHit(a, k)
    BY <1>1 DEF ArcOnInsert
  <2> HIDE DEF b
  <2>2. /\ ArcGood(b) /\ b.reserved = a.reserved
        /\ ArcResident(b) = ArcResident(a) \cup {k}
    BY <1>1, <2>1, HitKeeps
  <2> QED BY <2>2 DEF b
<1>2. CASE k \notin KeysIn(a, Lists)
  <2> DEFINE d == [a EXCEPT !.t1 = PushFront(@, k), !.lastHitInB2 = FALSE]
             g == GhostToTrimForInsert(a)
  <2>1. b = EraseLru(d, g)
    BY <1>2 DEF ArcOnInsert
  <2>2. g \in {"none", "b1", "b2"}
    BY DEF GhostToTrimForInsert
  <2>3. /\ ArcGood(d) /\ d.reserved = a.reserved
        /\ ArcResident(d) = ArcResident(a) \cup {k}
    BY <1>2, PushedKeeps
  <2> HIDE DEF b, d, g
  <2>4. ArcGood(b) /\ b.reserved = d.reserved /\ ArcResident(b) = ArcResident(d)
    BY <2>1, <2>2, <2>3, TrimKeeps
  <2> QED BY <2>3, <2>4 DEF b
<1> QED BY <1>1, <1>2

(* OnRemove takes the key away wherever it is, and its reservation.        *)
LEMMA RemoveIs ==
  ASSUME NEW a, ArcGood(a), NEW k \in Key
  PROVE  LET b == ArcOnRemove(a, k)
         IN  /\ ArcGood(b)
             /\ b.reserved = IF a.reserved = k THEN NoKey ELSE a.reserved
             /\ ArcResident(b) = ArcResident(a) \ {k}
<1> DEFINE b == ArcOnRemove(a, k)
<1>1. DOMAIN a = ArcFields /\ Lists \subseteq ArcFields
  BY DEF ArcGood, ArcShape, Lists, ArcFields
<1>2. DOMAIN b = ArcFields /\ \A l \in Lists : b[l] = Without(a[l], k)
  BY <1>1 DEF ArcOnRemove
<1>3. b.p = a.p /\ b.reserved = IF a.reserved = k THEN NoKey ELSE a.reserved
  BY <1>1 DEF ArcOnRemove, Lists, ArcFields
<1>4. a.reserved # k => b.source = a.source
  BY <1>1 DEF ArcOnRemove, Lists, ArcFields
<1> HIDE DEF b
<1>5. ArcShape(a) /\ Apart(a)
  BY DEF ArcGood
<1>6. /\ ArcShape(b) /\ Apart(b)
      /\ \A l \in Lists : Range(b[l]) = Range(a[l]) \ {k}
  BY <1>2, <1>5, Erased
<1>7. Range(b["t1"]) = Range(a["t1"]) \ {k} /\ Range(b["t2"]) = Range(a["t2"]) \ {k}
  BY <1>6 DEF Lists
<1>8. VictimInSource(b)
  BY <1>3, <1>4, <1>7 DEF VictimInSource, ArcGood
<1>9. ArcGood(b)
  BY <1>3, <1>6, <1>8 DEF ArcGood
<1>10. ArcResident(b) = ArcResident(a) \ {k}
  BY <1>7 DEF ArcResident, KeysIn
<1> QED BY <1>3, <1>9, <1>10 DEF b

(* SelectVictim searches the list REPLACE prefers and then the other one.  *)
LEMMA ArcVictimIs ==
  ASSUME NEW a, ArcGood(a), NEW excluded
  PROVE  LET v == ArcVictim(a, excluded)
         IN  IF ArcResident(a) \subseteq {excluded} THEN v.key = NoKey
             ELSE /\ v.key \in ArcResident(a) \ {excluded} /\ v.key # NoKey
                  /\ v.source \in {"t1", "t2"} /\ v.key \in Range(a[v.source])
<1> DEFINE v == ArcVictim(a, excluded)
<1>1. ASSUME NEW l \in {"t1", "t2"}
      PROVE  IF Range(a[l]) \subseteq {excluded} THEN Oldest(a[l], excluded) = NoKey
             ELSE /\ Oldest(a[l], excluded) \in Range(a[l]) \ {excluded}
                  /\ Oldest(a[l], excluded) # NoKey
  <2> DEFINE s == a[l]
  <2>1. s \in Seq(Key) /\ NoKey \notin Key
    BY KeysAssumption DEF ArcGood, ArcShape, Lists
  <2> HIDE DEF s
  <2>2. IF Range(s) \subseteq {excluded} THEN Oldest(s, excluded) = NoKey
        ELSE \E i \in DOMAIN s : Oldest(s, excluded) = s[i] /\ s[i] # excluded
    BY <2>1, OldestIs
  <2>3. \A i \in DOMAIN s : s[i] \in Range(s) /\ s[i] # NoKey
    BY <2>1 DEF Range
  <2>4. IF Range(s) \subseteq {excluded} THEN Oldest(s, excluded) = NoKey
        ELSE Oldest(s, excluded) \in Range(s) \ {excluded} /\ Oldest(s, excluded) # NoKey
    BY <2>2, <2>3
  <2> QED BY <2>4 DEF s
<1>2. PICK l \in {"t1", "t2"}, m \in {"t1", "t2"} :
        /\ l # m
        /\ v = IF Oldest(a[l], excluded) # NoKey
               THEN [key |-> Oldest(a[l], excluded), source |-> l]
               ELSE [key |-> Oldest(a[m], excluded), source |-> m]
  <2>1. CASE UseT1(a)
    <3>1. v = IF Oldest(a["t1"], excluded) # NoKey
               THEN [key |-> Oldest(a["t1"], excluded), source |-> "t1"]
               ELSE [key |-> Oldest(a["t2"], excluded), source |-> "t2"]
      BY <2>1 DEF ArcVictim
    <3> QED BY <3>1
  <2>2. CASE ~UseT1(a)
    <3>1. v = IF Oldest(a["t2"], excluded) # NoKey
               THEN [key |-> Oldest(a["t2"], excluded), source |-> "t2"]
               ELSE [key |-> Oldest(a["t1"], excluded), source |-> "t1"]
      BY <2>2 DEF ArcVictim
    <3> QED BY <3>1
  <2> QED BY <2>1, <2>2
<1>3. ArcResident(a) = Range(a[l]) \cup Range(a[m])
  BY <1>2 DEF ArcResident, KeysIn
<1> HIDE DEF v
<1>4. CASE Range(a[l]) \subseteq {excluded}
  <2>1. v.key = Oldest(a[m], excluded) /\ v.source = m
    BY <1>1, <1>2, <1>4
  <2> QED BY <1>1, <1>3, <1>4, <2>1 DEF v
<1>5. CASE ~(Range(a[l]) \subseteq {excluded})
  <2>1. v.key = Oldest(a[l], excluded) /\ v.source = l
    BY <1>1, <1>2, <1>5
  <2> QED BY <1>1, <1>3, <1>5, <2>1 DEF v
<1> QED BY <1>4, <1>5

(* SelectVictim reserves a resident key and moves none.                    *)
LEMMA SelectIs ==
  ASSUME NEW a, ArcGood(a), NEW excluded, ArcVictim(a, excluded).key # NoKey
  PROVE  LET b == ArcSelect(a, excluded)
         IN  /\ ArcGood(b) /\ ArcResident(b) = ArcResident(a)
             /\ b.reserved = ArcVictim(a, excluded).key
             /\ b.reserved \in ArcResident(a) \ {excluded}
<1> DEFINE b == ArcSelect(a, excluded)
           v == ArcVictim(a, excluded)
<1>1. /\ v.key \in ArcResident(a) \ {excluded} /\ v.key # NoKey
      /\ v.source \in {"t1", "t2"} /\ v.key \in Range(a[v.source])
  BY ArcVictimIs
<1>2. b = [a EXCEPT !.reserved = v.key, !.source = v.source]
  BY DEF ArcSelect
<1>3. DOMAIN a = ArcFields /\ \A l \in Lists : a[l] \in Seq(Key)
  BY DEF ArcGood, ArcShape
<1> HIDE DEF v
<1>4. /\ DOMAIN b = ArcFields /\ b.reserved = v.key /\ b.source = v.source
      /\ \A f \in ArcFields \ {"reserved", "source"} : b[f] = a[f]
  BY <1>2, <1>3 DEF ArcFields
<1> HIDE DEF b
<1>5. (\A l \in Lists : b[l] = a[l]) /\ b["t1"] = a["t1"] /\ b["t2"] = a["t2"] /\ b.p = a.p
  BY <1>4 DEF ArcFields, Lists
<1>6. ArcShape(b)
  BY <1>3, <1>4, <1>5 DEF ArcShape
<1>7. Apart(b)
  BY <1>5 DEF Apart, ArcGood
<1>8. VictimInSource(b)
  BY <1>1, <1>4, <1>5 DEF VictimInSource
<1>9. b.reserved \in Key
  <2>1. v.source \in Lists
    BY <1>1 DEF Lists
  <2>2. Range(a[v.source]) \subseteq Key
    BY <1>3, <2>1 DEF Range
  <2> QED BY <1>1, <1>4, <2>2
<1>10. ArcGood(b)
  BY <1>5, <1>6, <1>7, <1>8, <1>9 DEF ArcGood
<1>11. ArcResident(b) = ArcResident(a)
  BY <1>5 DEF ArcResident, KeysIn
<1> QED BY <1>1, <1>4, <1>10, <1>11 DEF b, v

(* CancelVictim forgets the reservation and moves no key.                  *)
LEMMA ReleaseIs ==
  ASSUME NEW a, ArcGood(a)
  PROVE  LET b == ArcRelease(a)
         IN  /\ ArcGood(b) /\ ArcResident(b) = ArcResident(a) /\ b.reserved = NoKey
             /\ \A l \in Lists : b[l] = a[l]
<1> DEFINE b == ArcRelease(a)
<1>1. DOMAIN a = ArcFields
  BY DEF ArcGood, ArcShape
<1>2. /\ DOMAIN b = ArcFields /\ b.reserved = NoKey
      /\ \A f \in ArcFields \ {"reserved", "source"} : b[f] = a[f]
  BY <1>1 DEF ArcRelease, ArcFields
<1> HIDE DEF b
<1>3. (\A l \in Lists : b[l] = a[l]) /\ b["t1"] = a["t1"] /\ b["t2"] = a["t2"] /\ b.p = a.p
  BY <1>2 DEF ArcFields, Lists
<1>4. ArcShape(b)
  BY <1>2, <1>3 DEF ArcShape, ArcGood
<1>5. Apart(b)
  BY <1>3 DEF Apart, ArcGood
<1>6. ArcGood(b)
  BY <1>2, <1>3, <1>4, <1>5 DEF ArcGood, VictimInSource
<1>7. ArcResident(b) = ArcResident(a)
  BY <1>3 DEF ArcResident, KeysIn
<1> QED BY <1>2, <1>3, <1>6, <1>7 DEF b

(* CommitVictim: the victim becomes a ghost of the list it was in.         *)
LEMMA CommitIs ==
  ASSUME NEW a, ArcGood(a), NEW k \in Key, a.reserved = k
  PROVE  LET b == ArcCommit(a, k)
         IN  /\ ArcGood(b) /\ b.reserved = NoKey
             /\ k \in ArcResident(a) /\ ArcResident(b) = ArcResident(a) \ {k}
<1> DEFINE dst == IF a.source = "t1" THEN "b1" ELSE "b2"
           d == Relink(a, k, dst)
           e == [d EXCEPT !.lastHitInB2 = FALSE]
           b == ArcCommit(a, k)
<1>1. ArcShape(a) /\ Apart(a) /\ a.source \in {"t1", "t2"} /\ k \in Range(a[a.source])
  BY KeysAssumption DEF ArcGood, VictimInSource
<1>2. k \in KeysIn(a, Lists) /\ k \in ArcResident(a)
  BY <1>1 DEF KeysIn, ArcResident, Lists
<1>3. dst \in Lists /\ dst \in {"b1", "b2"}
  BY DEF Lists
<1>4. b = ArcRelease(e)
  BY DEF ArcCommit
<1> HIDE DEF dst, b
<1>5. ArcShape(d) /\ Apart(d)
  BY <1>1, <1>2, <1>3, Relinked
<1>6. \A l \in Lists \ {dst} : Range(d[l]) = Range(a[l]) \ {k}
  BY <1>1, <1>2, <1>3, Relinked
<1>7. \A f \in ArcFields \ Lists : d[f] = a[f]
  BY <1>1, <1>2, <1>3, Relinked
<1> HIDE DEF d
<1>8. Range(d["t1"]) = Range(a["t1"]) \ {k} /\ Range(d["t2"]) = Range(a["t2"]) \ {k}
  BY <1>3, <1>6 DEF Lists
<1>9. d.p = a.p
  BY <1>7 DEF ArcFields, Lists
<1>10. DOMAIN e = ArcFields /\ \A f \in ArcFields \ {"lastHitInB2"} : e[f] = d[f]
  BY <1>5 DEF ArcShape
<1> HIDE DEF e
<1>11. (\A l \in Lists : e[l] = d[l]) /\ e["t1"] = d["t1"] /\ e["t2"] = d["t2"] /\ e.p = d.p
  BY <1>10 DEF ArcFields, Lists
<1> DEFINE n == ArcRelease(e)
<1>12. /\ DOMAIN n = ArcFields /\ n.reserved = NoKey
       /\ \A f \in ArcFields \ {"reserved", "source"} : n[f] = e[f]
  BY <1>10 DEF ArcRelease, ArcFields
<1>13. n = b
  BY <1>4
<1> HIDE DEF n
<1>14. (\A l \in Lists : n[l] = d[l]) /\ n["t1"] = d["t1"] /\ n["t2"] = d["t2"] /\ n.p = d.p
  BY <1>11, <1>12 DEF ArcFields, Lists
<1>15. ArcShape(n)
  BY <1>5, <1>12, <1>14 DEF ArcShape
<1>16. Apart(n)
  BY <1>5, <1>14 DEF Apart
<1>17. n.p \in 0 .. PUnit * c
  BY <1>9, <1>14 DEF ArcGood
<1>18. ArcGood(n)
  BY <1>12, <1>15, <1>16, <1>17 DEF ArcGood, VictimInSource
<1>19. ArcResident(n) = ArcResident(a) \ {k}
  BY <1>8, <1>14 DEF ArcResident, KeysIn
<1> QED BY <1>2, <1>12, <1>13, <1>18, <1>19 DEF b

(* An ArcEviction that has just been constructed.                          *)
LEMMA EmptyGood == ArcGood(ArcEmpty) /\ ArcResident(ArcEmpty) = {} /\ ArcEmpty.reserved = NoKey
<1> DEFINE e == ArcEmpty
<1>1. /\ DOMAIN e = ArcFields /\ e.p = 0 /\ e.reserved = NoKey
      /\ e["t1"] = <<>> /\ e["t2"] = <<>> /\ e["b1"] = <<>> /\ e["b2"] = <<>>
  BY DEF ArcEmpty, ArcFields
<1> HIDE DEF e
<1>2. \A l \in Lists : e[l] = <<>>
  BY <1>1 DEF Lists
<1>3. <<>> \in Seq(Key) /\ Range(<<>>) = {} /\ Distinct(<<>>)
  BY DEF Range, Distinct
<1>4. 0 \in 0 .. PUnit * c
  BY ArcAssumption
<1>5. ArcGood(e)
  BY <1>1, <1>2, <1>3, <1>4 DEF ArcGood, ArcShape, Apart, VictimInSource
<1>6. ArcResident(e) = {}
  BY <1>1, <1>3 DEF ArcResident, KeysIn
<1> QED BY <1>1, <1>5, <1>6 DEF e

-----------------------------------------------------------------------------
(* The invariant of ArcEviction.                                           *)
ArcInv == ArcGood(arc)

(* Every call keeps the invariant and is a call of the contract.           *)
LEMMA ArcStep ==
  ASSUME ArcInv, [ArcNext]_arc
  PROVE  ArcInv' /\ [ArcPolicy!PolicyNext]_(ArcPolicy!policyVars)
<1> DEFINE Shown == ArcPolicy!PolicyNext \/ UNCHANGED <<ArcResident(arc), arc.reserved>>
<1> SUFFICES ArcInv' /\ Shown
  BY DEF ArcPolicy!policyVars
<1>1. ASSUME NEW k \in Key, arc' = ArcOnAccess(arc, k) PROVE ArcInv' /\ Shown
  <2>1. /\ ArcGood(arc') /\ arc'.reserved = arc.reserved
        /\ ArcResident(arc') \in {ArcResident(arc), ArcResident(arc) \cup {k}}
    BY <1>1, AccessIs DEF ArcInv
  <2>2. ArcPolicy!OnAccess(k)
    BY <2>1 DEF ArcPolicy!OnAccess
  <2> QED BY <2>1, <2>2 DEF ArcPolicy!PolicyNext, ArcInv
<1>2. ASSUME NEW k \in Key \ {arc.reserved}, arc' = ArcOnInsert(arc, k)
      PROVE  ArcInv' /\ Shown
  <2>1. /\ ArcGood(arc') /\ arc'.reserved = arc.reserved
        /\ ArcResident(arc') = ArcResident(arc) \cup {k}
    BY <1>2, InsertIs DEF ArcInv
  <2>2. ArcPolicy!OnInsert(k)
    BY <2>1 DEF ArcPolicy!OnInsert
  <2> QED BY <2>1, <2>2 DEF ArcPolicy!PolicyNext, ArcInv
<1>3. ASSUME NEW k \in Key, arc' = ArcOnRemove(arc, k) PROVE ArcInv' /\ Shown
  <2>1. /\ ArcGood(arc')
        /\ arc'.reserved = IF arc.reserved = k THEN NoKey ELSE arc.reserved
        /\ ArcResident(arc') = ArcResident(arc) \ {k}
    BY <1>3, RemoveIs DEF ArcInv
  <2>2. ArcPolicy!OnRemove(k)
    BY <2>1 DEF ArcPolicy!OnRemove
  <2> QED BY <2>1, <2>2 DEF ArcPolicy!PolicyNext, ArcInv
<1>4. ASSUME NEW excluded \in Key \cup {NoKey}, arc.reserved = NoKey,
             ArcVictim(arc, excluded).key # NoKey, arc' = ArcSelect(arc, excluded)
      PROVE  ArcInv' /\ Shown
  <2>1. /\ ArcGood(arc') /\ ArcResident(arc') = ArcResident(arc)
        /\ arc'.reserved \in ArcResident(arc) \ {excluded}
    BY <1>4, SelectIs DEF ArcInv
  <2>2. ArcPolicy!SelectVictim(excluded)
    BY <1>4, <2>1 DEF ArcPolicy!SelectVictim
  <2> QED BY <2>1, <2>2 DEF ArcPolicy!PolicyNext, ArcInv
<1>5. ASSUME NEW k \in Key, arc.reserved = k, arc' = ArcCommit(arc, k)
      PROVE  ArcInv' /\ Shown
  <2>1. /\ ArcGood(arc') /\ arc'.reserved = NoKey
        /\ k \in ArcResident(arc) /\ ArcResident(arc') = ArcResident(arc) \ {k}
    BY <1>5, CommitIs DEF ArcInv
  <2>2. ArcPolicy!ValidateVictimCommit(k) /\ ArcPolicy!CommitVictim(k)
    BY <1>5, <2>1 DEF ArcPolicy!ValidateVictimCommit, ArcPolicy!CommitVictim
  <2> QED BY <2>1, <2>2 DEF ArcPolicy!PolicyNext, ArcInv
<1>6. ASSUME NEW k \in Key, arc.reserved = k, arc' = ArcRelease(arc)
      PROVE  ArcInv' /\ Shown
  <2>1. ArcGood(arc') /\ ArcResident(arc') = ArcResident(arc) /\ arc'.reserved = NoKey
    BY <1>6, ReleaseIs DEF ArcInv
  <2>2. ArcPolicy!CancelVictim(k)
    BY <1>6, <2>1 DEF ArcPolicy!CancelVictim
  <2> QED BY <2>1, <2>2 DEF ArcPolicy!PolicyNext, ArcInv
<1>7. CASE UNCHANGED arc
  BY <1>7 DEF ArcInv
<1> QED BY <1>1, <1>2, <1>3, <1>4, <1>5, <1>6, <1>7 DEF ArcNext

(* It holds at first, in the first state of the contract.                  *)
LEMMA ArcStart == ArcInit => ArcInv /\ ArcPolicy!PolicyInit
  BY EmptyGood DEF ArcInit, ArcInv, ArcPolicy!PolicyInit

(* It holds always.                                                        *)
LEMMA ArcInvariant == ArcSpec => []ArcInv
  BY ArcStart, ArcStep, PTL DEF ArcSpec

(* For any set of keys and any capacity: a key is in one of the four lists *)
(* at most and once, p stays within [0, c], and whatever is called between *)
(* SelectVictim and CommitVictim or CancelVictim leaves the victim in the  *)
(* list it was chosen from, so that CommitVictim never terminates.         *)
THEOREM ArcStaysConsistent == ArcSpec => []ArcConsistent
<1>1. ArcInv => ArcConsistent
  <2> SUFFICES ASSUME ArcInv PROVE ArcConsistent
    OBVIOUS
  <2>1. ArcShape(arc) /\ Apart(arc) /\ VictimInSource(arc) /\ arc.p \in 0 .. PUnit * c
    BY DEF ArcInv, ArcGood
  <2>2. \A l, m \in Lists : \A i \in DOMAIN arc[l], j \in DOMAIN arc[m] :
          arc[l][i] = arc[m][j] => l = m /\ i = j
    BY <2>1, ApartIs
  <2> QED BY <2>1, <2>2 DEF ArcConsistent, VictimInSource, ArcMayCommit
<1> QED BY <1>1, ArcInvariant, PTL

(* SelectVictim finds a victim exactly when some resident is not excluded, *)
(* whatever p prefers.                                                     *)
THEOREM ArcAlwaysFindsVictim == ArcSpec => []ArcVictimFound
<1>1. ArcInv => ArcVictimFound
  BY ArcVictimIs DEF ArcInv, ArcVictimFound
<1> QED BY <1>1, ArcInvariant, PTL

(* ArcEviction keeps the contract of eviction_policy.h for any set of keys *)
(* and any capacity.                                                       *)
THEOREM ArcKeepsContract == ArcSpec => ArcImplementsPolicy
<1>1. ArcInit => ArcInv /\ ArcPolicy!PolicyInit
  BY ArcStart
<1>2. ArcInv /\ [ArcNext]_arc => ArcInv' /\ [ArcPolicy!PolicyNext]_(ArcPolicy!policyVars)
  BY ArcStep
<1> QED BY <1>1, <1>2, PTL DEF ArcSpec, ArcImplementsPolicy, ArcPolicy!PolicySpec
=============================================================================
