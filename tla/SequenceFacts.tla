--------------------------- MODULE SequenceFacts ----------------------------
(***************************************************************************)
(* What the proofs of several components need of sequences: without        *)
(* repetitions or not, their ranges, what append, removal, a split and an  *)
(* insertion make of them.                                                 *)
(***************************************************************************)
EXTENDS Naturals, Sequences, SequencesExt, TLAPS, SequenceTheorems, WellFoundedInduction,
        FiniteSetTheorems, Erasure

\* A sequence has an element at each position.
LEMMA RangeOf ==
  ASSUME NEW S, NEW s \in Seq(S)
  PROVE  /\ \A i \in 1 .. Len(s) : s[i] \in Range(s)
         /\ \A x \in Range(s) : \E i \in 1 .. Len(s) : x = s[i]
         /\ \A x \in Range(s) : x \in S
         /\ DOMAIN s = 1 .. Len(s)
  BY DEF Range

\* The empty sequence and the sequence of one item.
LEMMA NoItem == Range(<<>>) = {} /\ IsInjective(<<>>)
  BY DEF Range, IsInjective

LEMMA OneItem ==
  ASSUME NEW x
  PROVE  Range(<<x>>) = {x} /\ IsInjective(<<x>>)
  BY DEF Range, IsInjective

\* Append of a new item.
LEMMA AppendNew ==
  ASSUME NEW S, NEW s \in Seq(S), NEW x \in S
  PROVE  /\ Append(s, x) \in Seq(S)
         /\ Range(Append(s, x)) = Range(s) \cup {x}
         /\ IsInjective(s) /\ x \notin Range(s) => IsInjective(Append(s, x))
<1>1. /\ Append(s, x) \in Seq(S)
      /\ Len(Append(s, x)) = Len(s) + 1
      /\ \A i \in 1 .. Len(s) : Append(s, x)[i] = s[i]
      /\ Append(s, x)[Len(s) + 1] = x
      /\ Len(s) \in Nat
  OBVIOUS
<1>2. DOMAIN s = 1 .. Len(s) /\ DOMAIN Append(s, x) = 1 .. Len(s) + 1
  BY <1>1
<1>3. Range(Append(s, x)) = Range(s) \cup {x}
  BY <1>1, <1>2 DEF Range
<1>4. IsInjective(s) /\ x \notin Range(s) => IsInjective(Append(s, x))
  BY <1>1, <1>2 DEF Range, IsInjective
<1> QED
  BY <1>1, <1>3, <1>4

\* Removal of the first item.
LEMMA TailRest ==
  ASSUME NEW S, NEW s \in Seq(S), s # <<>>
  PROVE  /\ Head(s) \in S /\ Tail(s) \in Seq(S)
         /\ Head(s) \in Range(s)
         /\ Range(s) = Range(Tail(s)) \cup {Head(s)}
         /\ IsInjective(s) => IsInjective(Tail(s)) /\ Head(s) \notin Range(Tail(s))
         /\ Len(Tail(s)) = Len(s) - 1 /\ DOMAIN Tail(s) = 1 .. Len(s) - 1
         /\ \A i \in 1 .. Len(s) - 1 : Tail(s)[i] = s[i + 1] /\ i + 1 \in 1 .. Len(s)
<1>1. /\ Tail(s) \in Seq(S) /\ Head(s) \in S
      /\ Len(s) \in Nat \ {0} /\ Len(Tail(s)) = Len(s) - 1
      /\ \A i \in 1 .. Len(s) - 1 : Tail(s)[i] = s[i + 1]
      /\ Head(s) = s[1]
  OBVIOUS
<1>2. DOMAIN s = 1 .. Len(s) /\ DOMAIN Tail(s) = 1 .. Len(s) - 1
  BY <1>1
<1>3. Head(s) \in Range(s)
  BY <1>1, <1>2 DEF Range
<1>4. Range(s) = Range(Tail(s)) \cup {Head(s)}
  <2>1. \A x \in Range(Tail(s)) : x \in Range(s)
    BY <1>1, <1>2 DEF Range
  <2>2. ASSUME NEW i \in 1 .. Len(s) PROVE s[i] \in Range(Tail(s)) \cup {Head(s)}
    <3>1. CASE i = 1
      BY <1>1, <3>1
    <3>2. CASE i # 1
      <4>1. i - 1 \in 1 .. Len(s) - 1 /\ Tail(s)[i - 1] = s[i]
        BY <1>1, <3>2
      <4> QED
        BY <4>1, <1>2 DEF Range
    <3> QED
      BY <3>1, <3>2
  <2> QED
    BY <1>2, <1>3, <2>1, <2>2 DEF Range
<1>5. IsInjective(s) => IsInjective(Tail(s)) /\ Head(s) \notin Range(Tail(s))
  <2> SUFFICES ASSUME IsInjective(s)
               PROVE  IsInjective(Tail(s)) /\ Head(s) \notin Range(Tail(s))
    OBVIOUS
  <2>1. \A i, j \in 1 .. Len(s) : s[i] = s[j] => i = j
    BY <1>2 DEF IsInjective
  <2>2. \A i, j \in 1 .. Len(s) - 1 : Tail(s)[i] = Tail(s)[j] => i = j
    BY <1>1, <2>1
  <2>3. \A i \in 1 .. Len(s) - 1 : Tail(s)[i] # Head(s)
    BY <1>1, <2>1
  <2> QED
    BY <1>2, <2>2, <2>3 DEF IsInjective, Range
<1> QED
  BY <1>1, <1>2, <1>3, <1>4, <1>5

\* The items from position p on.
LEMMA RestOfSeq ==
  ASSUME NEW S, NEW s \in Seq(S), NEW p \in 1 .. Len(s) + 1
  PROVE  /\ SubSeq(s, p, Len(s)) \in Seq(S) /\ Len(SubSeq(s, p, Len(s))) = Len(s) - p + 1
         /\ \A i \in 1 .. Len(s) - p + 1 : SubSeq(s, p, Len(s))[i] = s[p - 1 + i]
  BY SubSeqProperties

\* A batch and what stays behind it.
LEMMA SplitSeq ==
  ASSUME NEW S, NEW s \in Seq(S), NEW n \in 0 .. Len(s)
  PROVE  LET front == SubSeq(s, 1, n)
             back == SubSeq(s, n + 1, Len(s))
         IN  /\ front \in Seq(S) /\ back \in Seq(S)
             /\ Len(front) = n /\ Len(back) = Len(s) - n
             /\ \A i \in 1 .. n : front[i] = s[i]
             /\ \A i \in 1 .. Len(s) - n : back[i] = s[n + i]
             /\ Range(s) = Range(front) \cup Range(back)
             /\ IsInjective(s) => /\ IsInjective(front) /\ IsInjective(back)
                                  /\ Range(front) \cap Range(back) = {}
<1> DEFINE front == SubSeq(s, 1, n)
           back == SubSeq(s, n + 1, Len(s))
<1>1. /\ Len(s) \in Nat /\ n \in Nat /\ n <= Len(s)
      /\ DOMAIN s = 1 .. Len(s)
      /\ \A i \in 1 .. Len(s) : s[i] \in S
  OBVIOUS
<1>2. /\ front \in Seq(S) /\ Len(front) = n
      /\ \A i \in 1 .. n : front[i] = s[i]
  BY <1>1, SubSeqProperties
<1>3. /\ back \in Seq(S) /\ Len(back) = Len(s) - n
      /\ \A i \in 1 .. Len(s) - n : back[i] = s[n + i]
  <2>1. n + 1 \in 1 .. Len(s) + 1
    BY <1>1
  <2>2. /\ back \in Seq(S) /\ Len(back) = Len(s) - (n + 1) + 1
        /\ \A i \in 1 .. Len(s) - (n + 1) + 1 : back[i] = s[(n + 1) - 1 + i]
    BY <2>1, RestOfSeq, Zenon
  <2>3. Len(s) - (n + 1) + 1 = Len(s) - n /\ \A i \in 1 .. Len(s) - n : (n + 1) - 1 + i = n + i
    BY <1>1
  <2> QED
    BY <2>2, <2>3
<1> HIDE DEF front, back
<1>4. DOMAIN front = 1 .. n /\ DOMAIN back = 1 .. Len(s) - n
  BY <1>1, <1>2, <1>3
<1>5. Range(s) = Range(front) \cup Range(back)
  <2>1. \A x \in Range(front) : x \in Range(s)
    BY <1>1, <1>2, <1>4 DEF Range
  <2>3. \A x \in Range(back) : x \in Range(s)
    <3>1. \A i \in 1 .. Len(s) - n : n + i \in DOMAIN s
      BY <1>1
    <3> QED
      BY <1>3, <1>4, <3>1 DEF Range
  <2>2. ASSUME NEW i \in 1 .. Len(s) PROVE s[i] \in Range(front) \cup Range(back)
    <3>1. CASE i <= n
      BY <1>1, <1>2, <1>4, <3>1 DEF Range
    <3>2. CASE i > n
      <4>1. i - n \in 1 .. Len(s) - n /\ back[i - n] = s[i]
        BY <1>1, <1>3, <3>2
      <4> QED
        BY <4>1, <1>4 DEF Range
    <3> QED
      BY <1>1, <3>1, <3>2
  <2> QED
    BY <1>1, <2>1, <2>2, <2>3 DEF Range
<1>6. IsInjective(s) => /\ IsInjective(front) /\ IsInjective(back)
                        /\ Range(front) \cap Range(back) = {}
  <2> SUFFICES ASSUME IsInjective(s)
               PROVE  /\ IsInjective(front) /\ IsInjective(back)
                      /\ Range(front) \cap Range(back) = {}
    OBVIOUS
  <2>1. \A i, j \in 1 .. Len(s) : s[i] = s[j] => i = j
    BY <1>1 DEF IsInjective
  <2>2. IsInjective(front)
    BY <1>1, <1>2, <1>4, <2>1 DEF IsInjective
  <2>3. IsInjective(back)
    BY <1>1, <1>3, <1>4, <2>1 DEF IsInjective
  <2>4. \A i \in 1 .. n, j \in 1 .. Len(s) - n : front[i] # back[j]
    <3>1. \A i \in 1 .. n, j \in 1 .. Len(s) - n :
            i # n + j /\ i \in 1 .. Len(s) /\ n + j \in 1 .. Len(s)
      BY <1>1
    <3> QED
      BY <1>2, <1>3, <2>1, <3>1
  <2> QED
    BY <1>4, <2>2, <2>3, <2>4 DEF Range
<1> QED
  BY <1>2, <1>3, <1>5, <1>6 DEF front, back

\* Insertion of a new item.
LEMMA InsertNew ==
  ASSUME NEW S, NEW s \in Seq(S), NEW p \in 1 .. Len(s) + 1, NEW x \in S,
         NEW t, t = InsertAt(s, p, x)
  PROVE  /\ t \in Seq(S) /\ Len(t) = Len(s) + 1
         /\ \A i \in 1 .. Len(s) : i < p => t[i] = s[i]
         /\ t[p] = x
         /\ \A i \in 1 .. Len(s) : ~(i < p) => t[i + 1] = s[i]
         /\ Range(t) = Range(s) \cup {x}
         /\ IsInjective(s) /\ x \notin Range(s) => IsInjective(t)
<1> DEFINE front == SubSeq(s, 1, p - 1)
           back == SubSeq(s, p, Len(s))
<1>1. Len(s) \in Nat /\ p \in Nat /\ p - 1 \in 0 .. Len(s) /\ DOMAIN s = 1 .. Len(s)
  OBVIOUS
<1>2. /\ front \in Seq(S) /\ Len(front) = p - 1
      /\ \A i \in 1 .. p - 1 : front[i] = s[i]
  BY <1>1, SubSeqProperties
<1>3. /\ back \in Seq(S) /\ Len(back) = Len(s) - p + 1
      /\ \A i \in 1 .. Len(s) - p + 1 : back[i] = s[p - 1 + i]
  BY RestOfSeq
<1>4. t = front \o <<x>> \o back
  BY DEF InsertAt
<1> HIDE DEF front, back
<1>5. /\ front \o <<x>> \in Seq(S) /\ Len(front \o <<x>>) = p
      /\ \A i \in 1 .. p : (front \o <<x>>)[i] = IF i < p THEN s[i] ELSE x
  BY <1>1, <1>2
<1>6. /\ t \in Seq(S) /\ Len(t) = Len(s) + 1
      /\ \A i \in 1 .. Len(s) + 1 :
           t[i] = IF i < p THEN s[i] ELSE IF i = p THEN x ELSE s[i - 1]
  <2>1. t \in Seq(S) /\ Len(t) = Len(s) + 1
    <3>1. /\ (front \o <<x>>) \o back \in Seq(S)
          /\ Len((front \o <<x>>) \o back) = Len(front \o <<x>>) + Len(back)
      BY <1>3, <1>5, ConcatProperties, Zenon
    <3>2. Len(t) = p + (Len(s) - p + 1)
      BY <1>3, <1>4, <1>5, <3>1, Zenon
    <3> QED
      BY <1>1, <1>4, <3>1, <3>2
  <2>2. ASSUME NEW i \in 1 .. Len(s) + 1
        PROVE  t[i] = IF i < p THEN s[i] ELSE IF i = p THEN x ELSE s[i - 1]
    <3>1. CASE i <= p
      BY <1>1, <1>3, <1>4, <1>5, <3>1
    <3>2. CASE i > p
      <4>1. t[i] = back[i - p]
        BY <1>1, <1>3, <1>4, <1>5, <3>2
      <4>2. i - p \in 1 .. Len(s) - p + 1 /\ p - 1 + (i - p) = i - 1
        BY <1>1, <3>2
      <4> QED
        BY <1>1, <1>3, <4>1, <4>2, <3>2
    <3> QED
      BY <1>1, <3>1, <3>2
  <2> QED
    BY <2>1, <2>2
<1>7. DOMAIN t = 1 .. Len(s) + 1
  BY <1>6
<1>8. Range(t) = Range(s) \cup {x}
  <2>1. ASSUME NEW i \in 1 .. Len(s) + 1 PROVE t[i] \in Range(s) \cup {x}
    <3>1. i < p => i \in DOMAIN s
      BY <1>1
    <3>2. i > p => i - 1 \in DOMAIN s
      BY <1>1
    <3> QED
      BY <1>6, <3>1, <3>2 DEF Range
  <2>2. t[p] = x
    BY <1>1, <1>6
  <2>3. ASSUME NEW i \in 1 .. Len(s) PROVE s[i] \in Range(t)
    <3>1. CASE i < p
      BY <1>1, <1>6, <1>7, <3>1, SMTT(30) DEF Range
    <3>2. CASE i >= p
      <4>1. i + 1 \in 1 .. Len(s) + 1 /\ t[i + 1] = s[i]
        BY <1>1, <1>6, <3>2
      <4> QED
        BY <4>1, <1>7 DEF Range
    <3> QED
      BY <1>1, <3>1, <3>2
  <2> QED
    BY <1>1, <1>7, <2>1, <2>2, <2>3 DEF Range
<1>9. IsInjective(s) /\ x \notin Range(s) => IsInjective(t)
  <2> SUFFICES ASSUME IsInjective(s), x \notin Range(s) PROVE IsInjective(t)
    OBVIOUS
  <2>1. \A i, j \in 1 .. Len(s) : s[i] = s[j] => i = j
    BY <1>1 DEF IsInjective
  <2>2. \A i \in 1 .. Len(s) : s[i] # x
    BY <1>1 DEF Range
  <2> QED
    BY <1>1, <1>6, <1>7, <2>1, <2>2, SMTT(30) DEF IsInjective
<1>10. /\ \A i \in 1 .. Len(s) : i < p => t[i] = s[i]
       /\ t[p] = x
       /\ \A i \in 1 .. Len(s) : ~(i < p) => t[i + 1] = s[i]
  BY <1>1, <1>6
<1> QED
  BY <1>6, <1>8, <1>9, <1>10

\* A sequence before and after Append.
LEMMA FrontOfAppend ==
  ASSUME NEW S, NEW s \in Seq(S), NEW x \in S
  PROVE  SubSeq(Append(s, x), 1, Len(s)) = s
<1>1. Append(s, x) \in Seq(S) /\ Len(Append(s, x)) = Len(s) + 1
      /\ \A i \in 1 .. Len(s) : Append(s, x)[i] = s[i]
  OBVIOUS
<1>2. PICK t \in Seq(S) : t = SubSeq(Append(s, x), 1, Len(s))
  BY <1>1, SubSeqProperties
<1>3. Len(t) = Len(s) /\ \A i \in 1 .. Len(s) : t[i] = s[i]
  BY <1>1, <1>2, SubSeqProperties
<1> QED
  BY <1>2, <1>3

\* Append and concatenation of a sequence of one item.
LEMMA ConcatOne ==
  ASSUME NEW S, NEW s \in Seq(S), NEW h \in Seq(S), h # <<>>, Len(h) <= 1
  PROVE  Append(s, Head(h)) = s \o h /\ Tail(h) = <<>>
  OBVIOUS

\* An item moves from the head of one sequence to the end of another.
LEMMA MoveHead ==
  ASSUME NEW S, NEW s \in Seq(S), NEW h \in Seq(S), h # <<>>
  PROVE  Append(s, Head(h)) \o Tail(h) = s \o h
<1> DEFINE u == Append(s, Head(h)) \o Tail(h)
           v == s \o h
<1>1. /\ Tail(h) \in Seq(S) /\ Head(h) \in S /\ Head(h) = h[1]
      /\ Len(Tail(h)) = Len(h) - 1 /\ Len(s) \in Nat /\ Len(h) \in Nat /\ Len(h) > 0
      /\ \A i \in 1 .. Len(h) - 1 : Tail(h)[i] = h[i + 1]
  BY TailRest
<1>2. /\ Append(s, Head(h)) \in Seq(S) /\ Len(Append(s, Head(h))) = Len(s) + 1
      /\ Append(s, Head(h))[Len(s) + 1] = h[1]
      /\ \A i \in 1 .. Len(s) : Append(s, Head(h))[i] = s[i]
  BY <1>1
<1>3. /\ u \in Seq(S) /\ Len(u) = Len(s) + Len(h)
      /\ \A i \in 1 .. Len(s) + Len(h) :
           u[i] = IF i <= Len(s) + 1 THEN Append(s, Head(h))[i] ELSE Tail(h)[i - (Len(s) + 1)]
  BY <1>1, <1>2, ConcatProperties
<1>4. /\ v \in Seq(S) /\ Len(v) = Len(s) + Len(h)
      /\ \A i \in 1 .. Len(s) + Len(h) : v[i] = IF i <= Len(s) THEN s[i] ELSE h[i - Len(s)]
  BY <1>1, ConcatProperties
<1> HIDE DEF u, v
<1>5. ASSUME NEW i \in 1 .. Len(s) + Len(h) PROVE u[i] = v[i]
  <2>1. CASE i <= Len(s)
    <3>1. i \in 1 .. Len(s) /\ i <= Len(s) + 1
      BY <1>1, <2>1
    <3> QED
      BY <1>2, <1>3, <1>4, <2>1, <3>1
  <2>2. CASE i = Len(s) + 1
    <3>1. i - Len(s) = 1 /\ ~(i <= Len(s))
      BY <1>1, <2>2
    <3> QED
      BY <1>1, <1>2, <1>3, <1>4, <2>2, <3>1
  <2>3. CASE i > Len(s) + 1
    <3>1. /\ i - (Len(s) + 1) \in 1 .. Len(h) - 1 /\ (i - (Len(s) + 1)) + 1 = i - Len(s)
          /\ ~(i <= Len(s) + 1) /\ ~(i <= Len(s))
      BY <1>1, <2>3
    <3> QED
      BY <1>1, <1>3, <1>4, <3>1
  <2> QED
    BY <1>1, <2>1, <2>2, <2>3
<1>6. u = v
  BY <1>3, <1>4, <1>5, SeqEqual
<1> QED
  BY <1>6 DEF u, v

\* A set of naturals has a least element.
LEMMA MinOfSet ==
  ASSUME NEW I \in SUBSET Nat, I # {}
  PROVE  Min(I) \in I /\ \A j \in I : Min(I) <= j
<1>1. IsWellFoundedOn(OpToRel(<, Nat), Nat)
  BY NatLessThanWellFounded
<1>2. PICK x \in I : \A y \in I : ~(<<y, x>> \in OpToRel(<, Nat))
  BY <1>1, WFMin
<1>3. \A y \in I : ~(y < x)
  BY <1>2, Zenon DEF OpToRel
<1>4. \A y \in I : x <= y
  BY <1>3
<1> QED
  BY <1>4, Zenon DEF Min

\* Removal of the first occurrence.
LEMMA FirstRemoved ==
  ASSUME NEW S, NEW s \in Seq(S), NEW e
  PROVE  /\ RemoveFirst(s, e) \in Seq(S)
         /\ s = <<e>> => RemoveFirst(s, e) = <<>>
         /\ s = <<>> => RemoveFirst(s, e) = <<>>
<1> DEFINE I == {i \in 1 .. Len(s) : s[i] = e}
           k == SelectInSeq(s, LAMBDA v : v = e)
<1>1. CASE I = {}
  <2>1. ~(\E i \in 1 .. Len(s) : s[i] = e)
    BY <1>1
  <2> QED
    BY <2>1 DEF RemoveFirst
<1>2. CASE I # {}
  <2>1. k = Min(I)
    BY <1>2, Zenon DEF SelectInSeq
  <2>2. k \in I
    <3>1. I \in SUBSET Nat
      OBVIOUS
    <3>2. Min(I) \in I
      BY <1>2, <3>1, MinOfSet, Zenon
    <3> QED
      BY <2>1, <3>2, Zenon
  <2>3. RemoveFirst(s, e) = SubSeq(s, 1, k - 1) \o SubSeq(s, k + 1, Len(s))
    BY <2>2 DEF RemoveFirst, RemoveAt
  <2> HIDE DEF k
  <2>4. SubSeq(s, 1, k - 1) \in Seq(S) /\ SubSeq(s, k + 1, Len(s)) \in Seq(S)
    BY <2>2, SubSeqProperties
  <2>5. s = <<e>> => k = 1
    BY <2>2
  <2>6. s = <<e>> => SubSeq(s, 1, k - 1) = <<>> /\ SubSeq(s, k + 1, Len(s)) = <<>>
    <3>1. \A i : SubSeq(<<i>>, 1, 0) = <<>> /\ SubSeq(<<i>>, 2, 1) = <<>>
      OBVIOUS
    <3>2. s = <<e>> => k - 1 = 0 /\ k + 1 = 2 /\ Len(s) = 1
      BY <2>5
    <3> QED
      BY <3>1, <3>2
  <2>7. <<>> \o <<>> = <<>> /\ s # <<>>
    BY <2>2
  <2> QED
    BY <2>3, <2>4, <2>6, <2>7
<1> QED
  BY <1>1, <1>2

\* Removal of every occurrence of an element: the others stay, in their order.
LEMMA OthersOf ==
  ASSUME NEW S, NEW list \in Seq(S), NEW x, NEW t \in Others(list, x)
  PROVE  /\ t \in Seq(S) /\ Range(t) = Range(list) \ {x}
         /\ IsInjective(list) => IsInjective(t)
         /\ Len(t) <= Len(list)
<1> DEFINE kept == {i \in DOMAIN list : list[i] # x}
           n == Cardinality(kept)
<1>1. n \in Nat
  <2>1. IsFiniteSet(1 .. Len(list)) /\ kept \subseteq 1 .. Len(list)
    BY FS_Interval
  <2> QED
    BY <2>1, FS_Subset, FS_CardinalityType
<1>2. PICK f \in [1 .. n -> kept] :
        /\ Range(f) = kept /\ \A i, j \in DOMAIN f : i < j => f[i] < f[j]
        /\ t = [i \in DOMAIN f |-> list[f[i]]]
  BY DEF Others
<1>3. \A k \in kept : k \in DOMAIN list /\ list[k] # x /\ list[k] \in S /\ k \in Nat
  OBVIOUS
<1>4. \A k \in DOMAIN list : list[k] = x \/ k \in kept
  OBVIOUS
<1> HIDE DEF kept, n
<1>5. /\ DOMAIN t = 1 .. n
      /\ \A i \in 1 .. n : t[i] = list[f[i]] /\ f[i] \in kept
  BY <1>2
<1>6. t \in Seq(S)
  BY <1>1, <1>2, <1>3
<1>7. Range(t) = Range(list) \ {x}
  <2>1. \A y \in Range(t) : y \in Range(list) /\ y # x
    BY <1>3, <1>5 DEF Range
  <2>2. \A k \in kept : \E i \in 1 .. n : t[i] = list[k]
    BY <1>2, <1>5 DEF Range
  <2>3. \A y \in Range(list) : y = x \/ y \in Range(t)
    BY <1>4, <1>5, <2>2 DEF Range
  <2> QED
    BY <2>1, <2>3
<1>8. ASSUME IsInjective(list) PROVE IsInjective(t)
  <2>1. \A i, j \in 1 .. n : i # j => i < j \/ j < i
    BY <1>1
  <2>2. \A i, j \in 1 .. n : i # j => f[i] # f[j]
    BY <1>2, <1>3, <1>5, <2>1
  <2> QED
    BY <1>3, <1>5, <1>8, <2>2 DEF IsInjective
<1>9. Len(t) <= Len(list)
  <2>1. IsFiniteSet(1 .. Len(list)) /\ Cardinality(1 .. Len(list)) = Len(list)
    <3>1. Len(list) \in Nat
      OBVIOUS
    <3> QED
      BY <3>1, FS_Interval, SMTT(30)
  <2>2. kept \in SUBSET (1 .. Len(list))
    BY DEF kept
  <2>3. n <= Len(list)
    <3>1. Cardinality(kept) <= Cardinality(1 .. Len(list))
      BY <2>1, <2>2, FS_Subset, Zenon
    <3> QED
      BY <2>1, <3>1 DEF n
  <2>4. Len(t) = n
    BY <1>1, <1>5, <1>6
  <2> QED
    BY <2>3, <2>4
<1> QED
  BY <1>6, <1>7, <1>8, <1>9

\* As many items as elements, when none is repeated.
LEMMA DistinctCount ==
  ASSUME NEW S, NEW s \in Seq(S), IsInjective(s)
  PROVE  IsFiniteSet(Range(s)) /\ Cardinality(Range(s)) = Len(s)
<1>1. IsFiniteSet(1 .. Len(s)) /\ Cardinality(1 .. Len(s)) = Len(s)
  <2>1. Len(s) \in Nat
    OBVIOUS
  <2> QED
    BY <2>1, FS_Interval, SMTT(30)
<1>2. s \in [1 .. Len(s) -> Range(s)] /\ \A x \in Range(s) : \E i \in 1 .. Len(s) : s[i] = x
  BY RangeOf
<1>3. s \in Bijection(1 .. Len(s), Range(s))
  BY <1>2 DEF Bijection, Injection, Surjection, IsInjective
<1> QED
  BY <1>1, <1>3, FS_Bijection DEF ExistsBijection
=============================================================================
