----------------------------- MODULE ListLemmas -----------------------------
(* What taking an element out of a list, putting one in and filtering it   *)
(* do to it.                                                               *)
EXTENDS Lists, SequencesExt, SequenceTheorems, WellFoundedInduction, TLAPS

(* RemoveAt drops the element at i and moves up those after it.            *)
LEMMA RemoveAtSeq ==
  ASSUME NEW S, NEW s \in Seq(S), NEW i \in 1 .. Len(s)
  PROVE  /\ RemoveAt(s, i) \in Seq(S)
         /\ Len(RemoveAt(s, i)) = Len(s) - 1
         /\ \A j \in 1 .. Len(s) - 1 :
              RemoveAt(s, i)[j] = IF j < i THEN s[j] ELSE s[j + 1]
<1> DEFINE a == SubSeq(s, 1, i - 1)
           b == SubSeq(s, i + 1, Len(s))
<1>1. a \in Seq(S) /\ Len(a) = i - 1 /\ \A j \in 1 .. i - 1 : a[j] = s[j]
  OBVIOUS
<1>2. b \in Seq(S) /\ Len(b) = Len(s) - i /\ \A j \in 1 .. Len(s) - i : b[j] = s[i + j]
  OBVIOUS
<1>3. RemoveAt(s, i) = a \o b
  BY DEF RemoveAt
<1> HIDE DEF a, b
<1>4. a \o b \in Seq(S) /\ Len(a \o b) = Len(a) + Len(b)
  BY <1>1, <1>2, ConcatProperties, Zenon
<1>5. \A j \in 1 .. Len(a) + Len(b) :
        (a \o b)[j] = IF j <= Len(a) THEN a[j] ELSE b[j - Len(a)]
  BY <1>1, <1>2, ConcatProperties, Zenon
<1> QED
  BY <1>1, <1>2, <1>3, <1>4, <1>5

(* InsertAt puts e at i and moves down those from i on.                    *)
LEMMA InsertAtSeq ==
  ASSUME NEW S, NEW s \in Seq(S), NEW i \in 1 .. Len(s) + 1, NEW e \in S
  PROVE  /\ InsertAt(s, i, e) \in Seq(S)
         /\ Len(InsertAt(s, i, e)) = Len(s) + 1
         /\ \A j \in 1 .. Len(s) + 1 :
              InsertAt(s, i, e)[j] =
                IF j < i THEN s[j] ELSE IF j = i THEN e ELSE s[j - 1]
<1> DEFINE a == SubSeq(s, 1, i - 1)
           b == SubSeq(s, i, Len(s))
           c == a \o <<e>>
<1>1. a \in Seq(S) /\ Len(a) = i - 1 /\ \A j \in 1 .. i - 1 : a[j] = s[j]
  OBVIOUS
<1>2. /\ b \in Seq(S) /\ Len(b) = Len(s) - i + 1
      /\ \A j \in 1 .. Len(s) - i + 1 : b[j] = s[i + j - 1]
  OBVIOUS
<1>3. InsertAt(s, i, e) = c \o b
  BY DEF InsertAt
<1> HIDE DEF a, b
<1>4. c \in Seq(S) /\ Len(c) = i /\ \A j \in 1 .. i : c[j] = IF j < i THEN s[j] ELSE e
  BY <1>1
<1> HIDE DEF c
<1>5. c \o b \in Seq(S) /\ Len(c \o b) = Len(c) + Len(b)
  BY <1>4, <1>2, ConcatProperties, Zenon
<1>6. \A j \in 1 .. Len(c) + Len(b) :
        (c \o b)[j] = IF j <= Len(c) THEN c[j] ELSE b[j - Len(c)]
  BY <1>4, <1>2, ConcatProperties, Zenon
<1> QED
  BY <1>2, <1>3, <1>4, <1>5, <1>6

(* A set of naturals has a least element.                                  *)
LEMMA LeastNat ==
  ASSUME NEW I, I \subseteq Nat, I # {}
  PROVE  \E n \in I : \A k \in I : n <= k
<1> DEFINE R == OpToRel(<, Nat)
<1>2. \E n \in I : \A k \in I : <<k, n>> \notin R
  BY NatLessThanWellFounded, WFMin
<1>3. \A k, n \in Nat : <<k, n>> \in R <=> k < n
  BY DEF OpToRel
<1> HIDE DEF R
<1>4. PICK n \in I : \A k \in I : <<k, n>> \notin R
  BY <1>2
<1>5. ASSUME NEW k \in I PROVE n <= k
  <2>1. n \in Nat /\ k \in Nat
    OBVIOUS
  <2>2. ~(k < n)
    BY <1>3, <1>4, <2>1
  <2> QED
    BY <2>1, <2>2
<1> QED
  BY <1>5

(* RemoveFirst of an element that is there is RemoveAt of a place of it.   *)
LEMMA RemoveFirstIsRemoveAt ==
  ASSUME NEW S, NEW s \in Seq(S), NEW e, e \in Range(s)
  PROVE  \E i \in 1 .. Len(s) : s[i] = e /\ RemoveFirst(s, e) = RemoveAt(s, i)
<1> DEFINE I == {i \in 1 .. Len(s) : s[i] = e}
           i == Min(I)
<1>1. I # {} /\ I \subseteq Nat
  BY DEF Range
<1>2. \E n \in I : \A k \in I : n <= k
  <2> HIDE DEF I
  <2> QED
    BY <1>1, LeastNat
<1>3. i \in I
  BY <1>2 DEF Min
<1>4. SelectInSeq(s, LAMBDA v : v = e) = i
  BY <1>1 DEF SelectInSeq
<1>5. RemoveFirst(s, e) = RemoveAt(s, i)
  BY <1>1, <1>4 DEF RemoveFirst
<1> HIDE DEF i
<1> QED
  BY <1>3, <1>5

(* No element is there twice.                                              *)
Once(s) == \A i, j \in 1 .. Len(s) : s[i] = s[j] => i = j

(* RemoveAt takes away one element where none is there twice.              *)
LEMMA RemoveAtOnce ==
  ASSUME NEW S, NEW s \in Seq(S), NEW i \in 1 .. Len(s), Once(s)
  PROVE  Once(RemoveAt(s, i)) /\ Range(RemoveAt(s, i)) = Range(s) \ {s[i]}
<1> DEFINE r == RemoveAt(s, i)
<1>1. /\ r \in Seq(S) /\ Len(r) = Len(s) - 1
      /\ \A j \in 1 .. Len(s) - 1 : r[j] = IF j < i THEN s[j] ELSE s[j + 1]
  BY RemoveAtSeq
<1> HIDE DEF r
<1>2. Once(r)
  <2> SUFFICES ASSUME NEW j \in 1 .. Len(r), NEW k \in 1 .. Len(r), r[j] = r[k]
               PROVE  j = k
    BY DEF Once
  <2> DEFINE Place(l) == IF l < i THEN l ELSE l + 1
  <2>1. /\ Place(j) \in 1 .. Len(s) /\ s[Place(j)] = r[j]
        /\ Place(k) \in 1 .. Len(s) /\ s[Place(k)] = r[k]
    BY <1>1
  <2>2. Place(j) = Place(k)
    BY <2>1 DEF Once
  <2> QED
    BY <1>1, <2>2
<1>3. ASSUME NEW v \in Range(r)
      PROVE  v \in Range(s) \ {s[i]}
  <2>1. PICK j \in 1 .. Len(s) - 1 : v = r[j]
    BY <1>1 DEF Range
  <2>2. PICK k \in 1 .. Len(s) : k # i /\ v = s[k]
    BY <1>1, <2>1
  <2> QED
    BY <2>2 DEF Range, Once
<1>4. ASSUME NEW v \in Range(s) \ {s[i]}
      PROVE  v \in Range(r)
  <2>1. PICK j \in 1 .. Len(s) : v = s[j] /\ j # i
    BY DEF Range
  <2>2. CASE j < i
    BY <1>1, <2>1, <2>2 DEF Range
  <2>3. CASE j > i
    <3>1. j - 1 \in 1 .. Len(s) - 1 /\ r[j - 1] = v
      BY <1>1, <2>1, <2>3
    <3> QED
      BY <1>1, <3>1 DEF Range
  <2> QED
    BY <2>1, <2>2, <2>3
<1> QED
  BY <1>2, <1>3, <1>4 DEF r

(* InsertAt adds an element, once if it was not there.                     *)
LEMMA InsertAtOnce ==
  ASSUME NEW S, NEW s \in Seq(S), NEW i \in 1 .. Len(s) + 1, NEW e \in S,
         e \notin Range(s), Once(s)
  PROVE  Once(InsertAt(s, i, e)) /\ Range(InsertAt(s, i, e)) = Range(s) \cup {e}
<1> DEFINE r == InsertAt(s, i, e)
<1>1. /\ r \in Seq(S) /\ Len(r) = Len(s) + 1
      /\ \A j \in 1 .. Len(s) + 1 :
           r[j] = IF j < i THEN s[j] ELSE IF j = i THEN e ELSE s[j - 1]
  BY InsertAtSeq
<1> HIDE DEF r
<1>2. \A j \in 1 .. Len(s) : s[j] # e
  BY DEF Range
<1>3. Once(r)
  <2> SUFFICES ASSUME NEW j \in 1 .. Len(s) + 1, NEW k \in 1 .. Len(s) + 1, j < k
               PROVE  r[j] # r[k]
    BY <1>1 DEF Once
  <2>1. CASE k < i
    BY <1>1, <2>1 DEF Once
  <2>2. CASE k = i
    BY <1>1, <1>2, <2>2
  <2>3. CASE j = i
    <3>1. k - 1 \in 1 .. Len(s) /\ r[k] = s[k - 1] /\ r[j] = e
      BY <1>1, <2>3
    <3> QED
      BY <1>2, <3>1
  <2>4. CASE k > i /\ j # i
    <3>1. PICK a \in 1 .. Len(s) : r[j] = s[a] /\ a = IF j < i THEN j ELSE j - 1
      BY <1>1, <2>4
    <3>2. k - 1 \in 1 .. Len(s) /\ r[k] = s[k - 1] /\ a # k - 1
      BY <1>1, <2>4, <3>1
    <3> QED
      BY <3>1, <3>2 DEF Once
  <2> QED
    BY <2>1, <2>2, <2>3, <2>4
<1>4. ASSUME NEW v \in Range(r)
      PROVE  v \in Range(s) \cup {e}
  <2>1. PICK j \in 1 .. Len(s) + 1 : v = r[j]
    BY <1>1 DEF Range
  <2> QED
    BY <1>1, <2>1 DEF Range
<1>5. ASSUME NEW v \in Range(s) \cup {e}
      PROVE  v \in Range(r)
  <2>1. CASE v = e
    BY <1>1, <2>1 DEF Range
  <2>2. CASE v \in Range(s)
    <3>1. PICK j \in 1 .. Len(s) : v = s[j]
      BY <2>2 DEF Range
    <3>2. CASE j < i
      BY <1>1, <3>1, <3>2 DEF Range
    <3>3. CASE j >= i
      <4>1. j + 1 \in 1 .. Len(s) + 1 /\ r[j + 1] = v
        BY <1>1, <3>1, <3>3
      <4> QED
        BY <1>1, <4>1 DEF Range
    <3> QED
      BY <3>2, <3>3
  <2> QED
    BY <2>1, <2>2
<1> QED
  BY <1>3, <1>4, <1>5 DEF r

(* Putting e in front.                                                     *)
LEMMA ConsSeq ==
  ASSUME NEW S, NEW s \in Seq(S), NEW e \in S
  PROVE  /\ <<e>> \o s \in Seq(S) /\ Len(<<e>> \o s) = Len(s) + 1
         /\ (<<e>> \o s)[1] = e
         /\ \A j \in 1 .. Len(s) : (<<e>> \o s)[j + 1] = s[j]
         /\ Range(<<e>> \o s) = {e} \cup Range(s)
         /\ Once(<<e>> \o s) <=> e \notin Range(s) /\ Once(s)
<1> DEFINE r == <<e>> \o s
<1>1. r \in Seq(S) /\ Len(r) = Len(s) + 1
  OBVIOUS
<1>2. r[1] = e /\ \A j \in 1 .. Len(s) : r[j + 1] = s[j]
  OBVIOUS
<1> HIDE DEF r
<1>3. \A j \in 1 .. Len(r) : j = 1 \/ (j - 1 \in 1 .. Len(s) /\ r[j] = s[j - 1])
  <2> SUFFICES ASSUME NEW j \in 1 .. Len(r), j # 1
               PROVE  j - 1 \in 1 .. Len(s) /\ r[j] = s[j - 1]
    OBVIOUS
  <2>1. j - 1 \in 1 .. Len(s) /\ (j - 1) + 1 = j
    BY <1>1
  <2> QED
    BY <1>2, <2>1
<1>4. Range(r) = {e} \cup Range(s)
  <2>1. ASSUME NEW v \in Range(r) PROVE v \in {e} \cup Range(s)
    <3>1. PICK j \in 1 .. Len(r) : v = r[j]
      BY <1>1 DEF Range
    <3> QED
      BY <1>2, <1>3, <3>1 DEF Range
  <2>2. ASSUME NEW v \in {e} \cup Range(s) PROVE v \in Range(r)
    <3>1. CASE v = e
      BY <1>1, <1>2, <3>1 DEF Range
    <3>2. CASE v \in Range(s)
      <4>1. PICK j \in 1 .. Len(s) : v = s[j]
        BY <3>2 DEF Range
      <4>2. j + 1 \in 1 .. Len(r) /\ r[j + 1] = v
        BY <1>1, <1>2, <4>1
      <4> QED
        BY <1>1, <4>2 DEF Range
    <3> QED
      BY <3>1, <3>2
  <2> QED
    BY <2>1, <2>2
<1>5. ASSUME Once(r) PROVE e \notin Range(s) /\ Once(s)
  <2>1. ASSUME NEW j \in 1 .. Len(s) PROVE s[j] # e
    <3>1. 1 \in 1 .. Len(r) /\ j + 1 \in 1 .. Len(r) /\ 1 # j + 1
      BY <1>1
    <3>2. r[1] # r[j + 1]
      BY <1>5, <3>1 DEF Once
    <3> QED
      BY <1>2, <3>2
  <2>2. ASSUME NEW j \in 1 .. Len(s), NEW k \in 1 .. Len(s), s[j] = s[k] PROVE j = k
    <3>1. j + 1 \in 1 .. Len(r) /\ k + 1 \in 1 .. Len(r) /\ r[j + 1] = r[k + 1]
      BY <1>1, <1>2, <2>2
    <3>2. j + 1 = k + 1
      BY <1>5, <3>1 DEF Once
    <3> QED
      BY <3>2
  <2> QED
    BY <2>1, <2>2 DEF Once, Range
<1>6. ASSUME e \notin Range(s), Once(s) PROVE Once(r)
  <2> SUFFICES ASSUME NEW j \in 1 .. Len(r), NEW k \in 1 .. Len(r), r[j] = r[k]
               PROVE  j = k
    BY DEF Once
  <2>1. \A i \in 1 .. Len(s) : s[i] # e
    BY <1>6 DEF Range
  <2>2. CASE j = 1 \/ k = 1
    BY <1>2, <1>3, <2>1, <2>2
  <2>3. CASE j # 1 /\ k # 1
    <3>1. /\ j - 1 \in 1 .. Len(s) /\ k - 1 \in 1 .. Len(s)
          /\ s[j - 1] = s[k - 1]
      BY <1>3, <2>3
    <3>2. j - 1 = k - 1
      BY <1>6, <3>1 DEF Once
    <3> QED
      BY <3>2
  <2> QED
    BY <2>2, <2>3
<1> QED
  BY <1>1, <1>2, <1>4, <1>5, <1>6 DEF r

(* Taking the first element.                                               *)
LEMMA TailSeq ==
  ASSUME NEW S, NEW s \in Seq(S), s # <<>>
  PROVE  /\ Head(s) \in S /\ Tail(s) \in Seq(S) /\ Len(s) > 0
         /\ Len(Tail(s)) = Len(s) - 1
         /\ Range(s) = {Head(s)} \cup Range(Tail(s))
         /\ Once(s) => Head(s) \notin Range(Tail(s)) /\ Once(Tail(s))
<1>1. Head(s) \in S /\ Tail(s) \in Seq(S) /\ Len(s) > 0 /\ Len(Tail(s)) = Len(s) - 1
  OBVIOUS
<1>2. s = <<Head(s)>> \o Tail(s)
  <2> DEFINE r == <<Head(s)>> \o Tail(s)
  <2>1. r \in Seq(S) /\ Len(r) = Len(s) /\ r[1] = s[1]
    BY <1>1
  <2>2. \A j \in 1 .. Len(Tail(s)) : r[j + 1] = Tail(s)[j] /\ Tail(s)[j] = s[j + 1]
    BY <1>1, ConsSeq
  <2> HIDE DEF r
  <2>3. ASSUME NEW i \in 1 .. Len(s) PROVE r[i] = s[i]
    <3>1. CASE i = 1
      BY <2>1, <3>1
    <3>2. CASE i # 1
      <4>1. i - 1 \in 1 .. Len(Tail(s)) /\ (i - 1) + 1 = i
        BY <1>1, <3>2
      <4> QED
        BY <2>2, <4>1
    <3> QED
      BY <3>1, <3>2
  <2>4. r = s
    BY <2>1, <2>3, SeqEqual
  <2> QED
    BY <2>4 DEF r
<1> QED
  BY <1>1, <1>2, ConsSeq

(* Adding at the end.                                                      *)
LEMMA AppendSeq ==
  ASSUME NEW S, NEW s \in Seq(S), NEW e \in S
  PROVE  Append(s, e) \in Seq(S) /\ Range(Append(s, e)) = Range(s) \cup {e}
<1> DEFINE r == Append(s, e)
<1>1. r \in Seq(S) /\ Len(r) = Len(s) + 1 /\ r[Len(s) + 1] = e
  OBVIOUS
<1>2. \A j \in 1 .. Len(s) : r[j] = s[j]
  OBVIOUS
<1> HIDE DEF r
<1>3. ASSUME NEW v \in Range(r) PROVE v \in Range(s) \cup {e}
  <2>1. PICK j \in 1 .. Len(s) + 1 : v = r[j]
    BY <1>1 DEF Range
  <2> QED
    BY <1>1, <1>2, <2>1 DEF Range
<1>4. ASSUME NEW v \in Range(s) \cup {e} PROVE v \in Range(r)
  <2>1. DOMAIN r = 1 .. Len(s) + 1 /\ DOMAIN s = 1 .. Len(s) /\ Len(s) \in Nat
    BY <1>1
  <2> QED
    BY <1>1, <1>2, <1>4, <2>1 DEF Range
<1> QED
  BY <1>1, <1>3, <1>4 DEF r

LEMMA AppendOnce ==
  ASSUME NEW S, NEW s \in Seq(S), NEW e \in S, Once(s), e \notin Range(s)
  PROVE  Once(Append(s, e))
<1> DEFINE r == Append(s, e)
<1>1. Len(s) \in Nat /\ Len(r) = Len(s) + 1 /\ r[Len(s) + 1] = e
  OBVIOUS
<1>2. \A j \in 1 .. Len(s) : r[j] = s[j] /\ r[j] # e
  BY DEF Range
<1> HIDE DEF r
<1>3. ASSUME NEW i \in 1 .. Len(s) + 1, NEW j \in 1 .. Len(s) + 1, r[i] = r[j]
      PROVE  i = j
  <2>1. i \in 1 .. Len(s) \/ i = Len(s) + 1
    BY <1>1
  <2>2. j \in 1 .. Len(s) \/ j = Len(s) + 1
    BY <1>1
  <2> QED
    BY <1>1, <1>2, <1>3, <2>1, <2>2 DEF Once
<1> QED
  BY <1>1, <1>3 DEF Once, r

(* Taking from the end.                                                    *)
LEMMA FrontSeq ==
  ASSUME NEW S, NEW s \in Seq(S), s # <<>>
  PROVE  /\ Last(s) \in S /\ Front(s) \in Seq(S)
         /\ Range(s) = Range(Front(s)) \cup {Last(s)}
         /\ Once(s) => Last(s) \notin Range(Front(s)) /\ Once(Front(s))
<1> DEFINE r == Front(s)
<1>1. Len(s) \in Nat /\ Len(s) > 0
  OBVIOUS
<1>2. r \in Seq(S) /\ Len(r) = Len(s) - 1 /\ Last(s) \in S /\ Last(s) = s[Len(s)]
  <2>1. Last(s) \in S /\ Last(s) = s[Len(s)]
    BY <1>1 DEF Last
  <2>2. \A j \in 1 .. Len(s) - 1 : s[j] \in S
    BY <1>1
  <2>3. SubSeq(s, 1, Len(s) - 1) \in Seq(S)
    BY <1>1, <2>2
  <2>4. Len(SubSeq(s, 1, Len(s) - 1)) = Len(s) - 1
    <3>1. PICK n \in Int : n = Len(s) - 1
      BY <1>1
    <3>2. Len(SubSeq(s, 1, n)) = IF 1 <= n THEN n - 1 + 1 ELSE 0
      BY <2>2, <3>1, SubSeqProperties
    <3> QED
      BY <1>1, <3>1, <3>2
  <2> QED
    BY <2>1, <2>3, <2>4 DEF Front
<1>3. \A j \in 1 .. Len(s) - 1 : r[j] = s[j]
  BY <1>1 DEF Front
<1> HIDE DEF r
<1>4. DOMAIN s = 1 .. Len(s) /\ DOMAIN r = 1 .. Len(s) - 1
  BY <1>2
<1>5. \A j \in 1 .. Len(s) : j \in 1 .. Len(s) - 1 \/ j = Len(s)
  BY <1>1
<1>6. 1 .. Len(s) - 1 \subseteq 1 .. Len(s) /\ Len(s) \in 1 .. Len(s)
      /\ Len(s) \notin 1 .. Len(s) - 1
  BY <1>1
<1>7. Range(s) = Range(r) \cup {Last(s)}
  BY <1>2, <1>3, <1>4, <1>5, <1>6 DEF Range
<1>8. ASSUME Once(s) PROVE Last(s) \notin Range(r) /\ Once(r)
  BY <1>2, <1>3, <1>4, <1>6, <1>8 DEF Range, Once
<1> QED
  BY <1>2, <1>7, <1>8 DEF r

(* RemoveFirst of an element that is there, once.                          *)
LEMMA RemoveFirstOnce ==
  ASSUME NEW S, NEW s \in Seq(S), NEW e, e \in Range(s), Once(s)
  PROVE  /\ RemoveFirst(s, e) \in Seq(S) /\ Len(RemoveFirst(s, e)) = Len(s) - 1
         /\ Once(RemoveFirst(s, e)) /\ Range(RemoveFirst(s, e)) = Range(s) \ {e}
<1>1. PICK i \in 1 .. Len(s) : s[i] = e /\ RemoveFirst(s, e) = RemoveAt(s, i)
  BY RemoveFirstIsRemoveAt
<1>2. RemoveAt(s, i) \in Seq(S) /\ Len(RemoveAt(s, i)) = Len(s) - 1
  BY RemoveAtSeq
<1>3. Once(RemoveAt(s, i)) /\ Range(RemoveAt(s, i)) = Range(s) \ {s[i]}
  BY RemoveAtOnce
<1> QED
  BY <1>1, <1>2, <1>3

(* Induction up to n, over the set of the numbers the claim holds of.      *)
LEMMA UpTo ==
  ASSUME NEW n \in Nat, NEW P, 0 \in P,
         \A i \in 1 .. n : i - 1 \in P => i \in P
  PROVE  0 .. n \subseteq P
<1> DEFINE T == 0 .. n \ P
<1>1. SUFFICES ASSUME T # {} PROVE FALSE
  OBVIOUS
<1>2. T \subseteq Nat
  OBVIOUS
<1>3. \E i \in T : \A k \in T : i <= k
  <2> HIDE DEF T
  <2> QED
    BY <1>1, <1>2, LeastNat
<1>4. PICK i \in T : \A k \in T : i <= k
  BY <1>3
<1>5. i \in 1 .. n /\ i - 1 \in 0 .. n /\ ~(i <= i - 1)
  OBVIOUS
<1>6. i - 1 \in P
  BY <1>4, <1>5
<1> QED
  BY <1>5, <1>6

(* f[i] is what the first i elements of q leave.                           *)
Filters(f, q, S) ==
  /\ f[0] = <<>>
  /\ \A i \in 1 .. Len(q) :
       f[i] = IF q[i] \in S THEN Append(f[i - 1], q[i]) ELSE f[i - 1]

(* The recursive definition of Filtered has a value.                       *)
LEMMA FilteredBy ==
  ASSUME NEW A, NEW q \in Seq(A), NEW S
  PROVE  \E f \in [0 .. Len(q) -> Seq(A)] :
           Filters(f, q, S) /\ Filtered(q, S) = f[Len(q)]
<1> DEFINE Step(f, i) == IF q[i] \in S THEN Append(f[i - 1], q[i]) ELSE f[i - 1]
           Is(f, n) == /\ f \in [0 .. n -> Seq(A)] /\ f[0] = <<>>
                       /\ \A i \in 1 .. n : f[i] = Step(f, i)
           P == {n \in 0 .. Len(q) : \E f : Is(f, n)}
           Fcn(f) == f = [i \in 0 .. Len(q) |->
                            IF i = 0 THEN <<>>
                            ELSE IF q[i] \in S THEN Append(f[i - 1], q[i]) ELSE f[i - 1]]
           F == CHOOSE f : Fcn(f)
<1>1. 0 \in P
  <2>1. Is([i \in 0 .. 0 |-> <<>>], 0)
    OBVIOUS
  <2> HIDE DEF Is
  <2> QED
    BY <2>1
<1>2. ASSUME NEW n \in 1 .. Len(q), n - 1 \in P PROVE n \in P
  <2>1. PICK f : Is(f, n - 1)
    BY <1>2
  <2> DEFINE g == [i \in 0 .. n |-> IF i = n THEN Step(f, n) ELSE f[i]]
  <2>2. Step(f, n) \in Seq(A)
    BY <2>1
  <2>3. g \in [0 .. n -> Seq(A)] /\ g[0] = <<>>
    BY <2>1, <2>2
  <2>4. ASSUME NEW i \in 1 .. n PROVE g[i] = Step(g, i)
    <3>1. i - 1 \in 0 .. n /\ i - 1 # n /\ g[i - 1] = f[i - 1]
      OBVIOUS
    <3>2. CASE i = n
      BY <3>1, <3>2
    <3>3. CASE i # n
      <4>1. i \in 1 .. n - 1
        BY <3>3
      <4>2. f[i] = Step(f, i) /\ g[i] = f[i]
        BY <2>1, <4>1, <3>3
      <4> QED
        BY <3>1, <4>2
    <3> QED
      BY <3>2, <3>3
  <2>5. Is(g, n)
    BY <2>3, <2>4
  <2> HIDE DEF Is
  <2> QED
    BY <2>5
<1>3. Len(q) \in P
  <2>1. Len(q) \in Nat
    OBVIOUS
  <2> HIDE DEF P
  <2>2. 0 .. Len(q) \subseteq P
    BY <1>1, <1>2, <2>1, UpTo, Zenon
  <2> QED
    BY <2>1, <2>2
<1>4. PICK f : Is(f, Len(q))
  BY <1>3
<1>5. Fcn(f)
  <2>1. f \in [0 .. Len(q) -> Seq(A)] /\ f[0] = <<>>
    BY <1>4
  <2>2. \A i \in 1 .. Len(q) : f[i] = Step(f, i)
    BY <1>4
  <2>3. ASSUME NEW i \in 0 .. Len(q) PROVE f[i] = IF i = 0 THEN <<>> ELSE Step(f, i)
    <3>1. i = 0 \/ i \in 1 .. Len(q)
      OBVIOUS
    <3> HIDE DEF Step
    <3> QED
      BY <2>1, <2>2, <3>1
  <2> QED
    BY <2>1, <2>3
<1>6. Fcn(F)
  <2> HIDE DEF Fcn
  <2> QED
    BY <1>5
<1>7. Filtered(q, S) = F[Len(q)]
  BY DEF Filtered
<1> HIDE DEF F
<1>8. F[0] = <<>> /\ \A i \in 1 .. Len(q) : F[i] = Step(F, i)
  <2>1. Len(q) \in Nat
    OBVIOUS
  <2>2. F[0] = <<>>
    BY <1>6, <2>1
  <2>3. ASSUME NEW i \in 1 .. Len(q) PROVE F[i] = Step(F, i)
    <3>1. i \in 0 .. Len(q) /\ i # 0
      BY <2>1
    <3> QED
      BY <1>6, <3>1
  <2> QED
    BY <2>2, <2>3
<1>9. \A i \in 0 .. Len(q) : F[i] = f[i]
  <2> DEFINE E == {i \in 0 .. Len(q) : F[i] = f[i]}
  <2>1. 0 \in E
    BY <1>8, <1>4
  <2>2. ASSUME NEW i \in 1 .. Len(q), i - 1 \in E PROVE i \in E
    BY <1>8, <1>4, <2>2
  <2> HIDE DEF E
  <2>0. Len(q) \in Nat
    OBVIOUS
  <2>3. 0 .. Len(q) \subseteq E
    BY <2>0, <2>1, <2>2, UpTo, Zenon
  <2> QED
    BY <2>3 DEF E
<1>10. Filters(f, q, S)
  BY <1>4 DEF Filters
<1>11. f \in [0 .. Len(q) -> Seq(A)] /\ Filtered(q, S) = f[Len(q)]
  BY <1>4, <1>7, <1>9
<1> QED
  BY <1>10, <1>11, Zenon

(* It is a list of the elements that are in S, and none is there twice     *)
(* that was not there twice before.                                        *)
LEMMA FilteredSeq ==
  ASSUME NEW A, NEW q \in Seq(A), NEW S
  PROVE  /\ Filtered(q, S) \in Seq(A)
         /\ Range(Filtered(q, S)) = Range(q) \cap S
         /\ Once(q) => Once(Filtered(q, S))
<1>0. PICK f \in [0 .. Len(q) -> Seq(A)] :
        Filters(f, q, S) /\ Filtered(q, S) = f[Len(q)]
  BY FilteredBy, Zenon
<1>1. /\ Filtered(q, S) = f[Len(q)] /\ f[0] = <<>>
      /\ \A i \in 1 .. Len(q) :
           f[i] = IF q[i] \in S THEN Append(f[i - 1], q[i]) ELSE f[i - 1]
  BY <1>0 DEF Filters
<1> DEFINE From(i) == {q[j] : j \in 1 .. i} \cap S
           P == {i \in 0 .. Len(q) : /\ Range(f[i]) = From(i)
                                     /\ Once(q) => Once(f[i])}
<1>2. 0 \in P
  BY <1>1 DEF Range, Once
<1>3. ASSUME NEW i \in 1 .. Len(q), i - 1 \in P PROVE i \in P
  <2>1. f[i - 1] \in Seq(A) /\ Range(f[i - 1]) = From(i - 1) /\ (Once(q) => Once(f[i - 1]))
    BY <1>3
  <2>2. CASE q[i] \notin S
    <3>1. From(i) = From(i - 1)
      BY <2>2
    <3> QED
      BY <1>1, <2>1, <2>2, <3>1
  <2>3. CASE q[i] \in S
    <3>1. From(i) = From(i - 1) \cup {q[i]}
      BY <2>3
    <3>2. f[i] = Append(f[i - 1], q[i])
      BY <1>1, <2>3
    <3>3. Range(f[i]) = Range(f[i - 1]) \cup {q[i]}
      <4> DEFINE g == f[i - 1]
      <4>1. g \in Seq(A) /\ q[i] \in A /\ f[i] = Append(g, q[i])
        BY <2>1, <3>2
      <4> HIDE DEF g
      <4>2. Range(Append(g, q[i])) = Range(g) \cup {q[i]}
        BY <4>1, AppendSeq
      <4> QED
        BY <4>1, <4>2 DEF g
    <3>4. ASSUME Once(q) PROVE Once(f[i])
      <4>1. q[i] \notin From(i - 1)
        BY <3>4 DEF Once
      <4>2. \A j \in 1 .. Len(f[i - 1]) : f[i - 1][j] # q[i]
        BY <4>1, <2>1 DEF Range
      <4> QED
        BY <3>2, <3>4, <2>1, <4>2 DEF Once
    <3> QED
      BY <2>1, <3>1, <3>3, <3>4
  <2> QED
    BY <2>2, <2>3
<1>4. Len(q) \in P
  <2>1. Len(q) \in Nat
    OBVIOUS
  <2> HIDE DEF P
  <2>2. 0 .. Len(q) \subseteq P
    BY <1>2, <1>3, <2>1, UpTo, Zenon
  <2> QED
    BY <2>1, <2>2
<1>5. From(Len(q)) = Range(q) \cap S
  BY DEF Range
<1> QED
  BY <1>1, <1>4, <1>5
=============================================================================
