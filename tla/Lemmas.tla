-------------------------------- MODULE Lemmas --------------------------------
(***************************************************************************)
(* What the proofs of several components need: minima, linked lists as     *)
(* sequences that repeat nobody, division and remainders, ring buffers,    *)
(* and counting the threads that are in one place.                         *)
(***************************************************************************)
EXTENDS Integers, Sequences, SequencesExt, FiniteSetsExt, FiniteSetTheorems,
        SequenceTheorems, WellFoundedInduction, TLAPS

(* A set of naturals that is not empty has the minimum FiniteSetsExt names. *)
LEMMA MinOfNats ==
  ASSUME NEW S \in SUBSET Nat, S # {}
  PROVE  Min(S) \in S /\ \A y \in S : Min(S) <= y
<1>1. PICK x \in S : \A y \in S : ~ (<<y, x>> \in OpToRel(<, Nat))
  BY WFMin, NatLessThanWellFounded
<1>2. ASSUME NEW y \in S PROVE ~ (y < x)
  <2>1. <<y, x>> \in Nat \X Nat
    BY SMT
  <2>2. y < x => <<y, x>> \in OpToRel(<, Nat)
    BY <2>1 DEF OpToRel
  <2> QED
    BY <1>1, <2>2
<1>3. \A y \in S : x <= y
  BY <1>2, SMT
<1> QED
  BY <1>3 DEF Min

(* And one that is bounded has the maximum. *)
LEMMA MaxOfNats ==
  ASSUME NEW n \in Int, NEW S \in SUBSET (1..n), S # {}
  PROVE  Max(S) \in S /\ \A y \in S : Max(S) >= y
<1> DEFINE D == {n - y : y \in S}
<1>1. D \in SUBSET Nat /\ D # {}
  <2>1. \A y \in S : n - y \in Nat
    OBVIOUS
  <2> QED
    BY <2>1
<1>2. Min(D) \in D /\ \A d \in D : Min(D) <= d
  BY <1>1, MinOfNats
<1>3. PICK x \in S : Min(D) = n - x
  BY <1>2
<1> DEFINE m == Min(D)
<1>4. \A y \in S : m <= n - y
  BY <1>2
<1>5. m = n - x
  BY <1>3
<1> HIDE DEF m
<1>6. \A y \in S : x >= y
  BY <1>4, <1>5
<1> QED
  BY <1>6 DEF Max

(* Nobody is linked into an empty list. *)
LEMMA EmptyList == ToSet(<<>>) = {} /\ IsInjective(<<>>)
  BY SMT DEF ToSet, IsInjective

(* Whoever is linked is one of the threads. *)
LEMMA ListElements ==
  ASSUME NEW S, NEW q \in Seq(S)
  PROVE  ToSet(q) \subseteq S
<1>1. \A i \in DOMAIN q : q[i] \in S
  BY LenProperties, ElementOfSeq
<1> QED
  BY <1>1 DEF ToSet

(* Append links one element at the end. *)
LEMMA AppendList ==
  ASSUME NEW S, NEW s \in Seq(S), NEW e \in S
  PROVE  /\ Append(s, e) \in Seq(S)
         /\ ToSet(Append(s, e)) = ToSet(s) \cup {e}
         /\ IsInjective(s) /\ e \notin ToSet(s) => IsInjective(Append(s, e))
<1>1. /\ Append(s, e) \in Seq(S)
      /\ Len(Append(s, e)) = Len(s) + 1
      /\ \A i \in 1..Len(s) : Append(s, e)[i] = s[i]
      /\ Append(s, e)[Len(s) + 1] = e
  BY AppendProperties
<1>2. /\ DOMAIN s = 1..Len(s) /\ Len(s) \in Nat
      /\ DOMAIN Append(s, e) = 1..(Len(s) + 1)
  BY <1>1, LenProperties
<1>3. ToSet(Append(s, e)) = ToSet(s) \cup {e}
  BY <1>1, <1>2, SMT DEF ToSet
<1>4. ASSUME IsInjective(s), e \notin ToSet(s)
      PROVE  IsInjective(Append(s, e))
  BY <1>1, <1>2, <1>4, SMT DEF ToSet, IsInjective
<1> QED
  BY <1>1, <1>3, <1>4

(* Concatenation links the second list behind the first. *)
LEMMA ConcatList ==
  ASSUME NEW S, NEW s \in Seq(S), NEW t \in Seq(S)
  PROVE  /\ s \o t \in Seq(S)
         /\ ToSet(s \o t) = ToSet(s) \cup ToSet(t)
         /\ IsInjective(s) /\ IsInjective(t) /\ ToSet(s) \cap ToSet(t) = {}
              => IsInjective(s \o t)
<1>1. /\ s \o t \in Seq(S)
      /\ Len(s \o t) = Len(s) + Len(t)
      /\ \A i \in 1 .. Len(s) + Len(t) :
            (s \o t)[i] = IF i <= Len(s) THEN s[i] ELSE t[i - Len(s)]
  BY ConcatProperties
<1>2. /\ DOMAIN s = 1..Len(s) /\ Len(s) \in Nat
      /\ DOMAIN t = 1..Len(t) /\ Len(t) \in Nat
      /\ DOMAIN (s \o t) = 1..(Len(s) + Len(t))
  BY <1>1, LenProperties
<1>3. ToSet(s \o t) = ToSet(s) \cup ToSet(t)
  <2>1. ToSet(s \o t) \subseteq ToSet(s) \cup ToSet(t)
    BY <1>1, <1>2, SMT DEF ToSet
  <2>2. ASSUME NEW i \in 1..Len(s)
        PROVE  s[i] \in ToSet(s \o t)
    BY <1>1, <1>2, SMT DEF ToSet
  <2>3. ASSUME NEW i \in 1..Len(t)
        PROVE  t[i] \in ToSet(s \o t)
    <3>1. /\ Len(s) + i \in 1..(Len(s) + Len(t))
          /\ ~(Len(s) + i <= Len(s)) /\ (Len(s) + i) - Len(s) = i
      BY <1>2, SMT
    <3>2. (s \o t)[Len(s) + i] = t[i]
      BY <1>1, <3>1
    <3> QED
      BY <1>2, <3>1, <3>2 DEF ToSet
  <2> QED
    BY <1>2, <2>1, <2>2, <2>3 DEF ToSet
<1>4. ASSUME IsInjective(s), IsInjective(t), ToSet(s) \cap ToSet(t) = {}
      PROVE  IsInjective(s \o t)
  <2> SUFFICES ASSUME NEW i \in 1..(Len(s) + Len(t)), NEW j \in 1..(Len(s) + Len(t)),
                      (s \o t)[i] = (s \o t)[j]
               PROVE  i = j
    BY <1>2 DEF IsInjective
  <2>1. \A k \in 1..Len(s), m \in 1..Len(t) : s[k] # t[m]
    BY <1>2, <1>4 DEF ToSet
  <2>2. CASE i <= Len(s) /\ j <= Len(s)
    BY <1>1, <1>2, <1>4, <2>2, SMT DEF IsInjective
  <2>3. CASE ~(i <= Len(s)) /\ ~(j <= Len(s))
    <3>1. i - Len(s) \in 1..Len(t) /\ j - Len(s) \in 1..Len(t)
      BY <1>2, <2>3, SMT
    <3>2. t[i - Len(s)] = t[j - Len(s)]
      BY <1>1, <2>3
    <3>3. i - Len(s) = j - Len(s)
      BY <1>2, <1>4, <3>1, <3>2 DEF IsInjective
    <3> QED
      BY <1>2, <3>3, SMT
  <2>4. CASE i <= Len(s) /\ ~(j <= Len(s))
    <3>1. i \in 1..Len(s) /\ j - Len(s) \in 1..Len(t)
      BY <1>2, <2>4, SMT
    <3> QED
      BY <1>1, <2>1, <2>4, <3>1
  <2>5. CASE ~(i <= Len(s)) /\ j <= Len(s)
    <3>1. j \in 1..Len(s) /\ i - Len(s) \in 1..Len(t)
      BY <1>2, <2>5, SMT
    <3> QED
      BY <1>1, <2>1, <2>5, <3>1
  <2> QED
    BY <2>2, <2>3, <2>4, <2>5
<1> QED
  BY <1>1, <1>3, <1>4

(* Cutting a list in two. *)
LEMMA SplitList ==
  ASSUME NEW S, NEW s \in Seq(S), NEW n \in 0..Len(s)
  PROVE  LET front == SubSeq(s, 1, n)
             back  == SubSeq(s, n + 1, Len(s))
         IN  /\ front \in Seq(S) /\ Len(front) = n
             /\ back \in Seq(S) /\ Len(back) = Len(s) - n
             /\ ToSet(front) \cup ToSet(back) = ToSet(s)
             /\ IsInjective(s) => /\ IsInjective(front) /\ IsInjective(back)
                                  /\ ToSet(front) \cap ToSet(back) = {}
<1> DEFINE front == SubSeq(s, 1, n)
           back  == SubSeq(s, n + 1, Len(s))
<1>1. /\ DOMAIN s = 1..Len(s) /\ Len(s) \in Nat /\ n \in Nat
      /\ \A i \in 1..Len(s) : s[i] \in S
  BY LenProperties, ElementOfSeq
<1>2. /\ front \in Seq(S) /\ Len(front) = n
      /\ \A i \in 1..n : front[i] = s[i]
  <2>1. \A i \in 1..n : s[i] \in S
    BY <1>1, SMT
  <2>2. /\ front \in Seq(S)
        /\ Len(front) = IF 1 <= n THEN n - 1 + 1 ELSE 0
        /\ \A i \in 1 .. n - 1 + 1 : front[i] = s[1 + i - 1]
    BY <1>1, <2>1, 1 \in Int, n \in Int, SubSeqProperties
  <2> QED
    BY <1>1, <2>2, SMT
<1>3. /\ back \in Seq(S) /\ Len(back) = Len(s) - n
      /\ \A i \in 1..(Len(s) - n) : back[i] = s[n + i]
  <2>1. \A i \in (n + 1)..Len(s) : s[i] \in S
    BY <1>1, SMT
  <2>2. /\ back \in Seq(S)
        /\ Len(back) = IF n + 1 <= Len(s) THEN Len(s) - (n + 1) + 1 ELSE 0
        /\ \A i \in 1 .. Len(s) - (n + 1) + 1 : back[i] = s[(n + 1) + i - 1]
    <3>1. n + 1 \in Int /\ Len(s) \in Int
      BY <1>1, SMT
    <3> QED
      BY <2>1, <3>1, SubSeqProperties
  <2> HIDE DEF front, back
  <2>3. Len(back) = Len(s) - n
    <3>1. \A k \in Nat, m \in Nat :
             m <= k => k - m = IF m + 1 <= k THEN k - (m + 1) + 1 ELSE 0
      BY SMT
    <3>2. n <= Len(s)
      BY <1>1, SMT
    <3> QED
      BY <1>1, <2>2, <3>1, <3>2
  <2>4. ASSUME NEW i \in 1..(Len(s) - n) PROVE back[i] = s[n + i]
    <3>1. i \in 1 .. Len(s) - (n + 1) + 1 /\ (n + 1) + i - 1 = n + i
      BY <1>1, SMT
    <3> QED
      BY <2>2, <3>1
  <2> QED
    BY <2>2, <2>3, <2>4
<1> HIDE DEF front, back
<1>4. DOMAIN front = 1..n /\ DOMAIN back = 1..(Len(s) - n)
  BY <1>2, <1>3, LenProperties
<1>5. ToSet(front) \cup ToSet(back) = ToSet(s)
  <2>1. ToSet(front) \subseteq ToSet(s) /\ ToSet(back) \subseteq ToSet(s)
    <3>1. \A i \in 1..n : i \in 1..Len(s)
      BY <1>1, SMT
    <3>2. \A i \in 1..(Len(s) - n) : n + i \in 1..Len(s)
      BY <1>1, SMT
    <3>3. ASSUME NEW i \in 1..n PROVE front[i] \in ToSet(s)
      BY <1>1, <1>2, <3>1 DEF ToSet
    <3>4. ASSUME NEW i \in 1..(Len(s) - n) PROVE back[i] \in ToSet(s)
      BY <1>1, <1>3, <3>2 DEF ToSet
    <3>5. ToSet(front) \subseteq ToSet(s)
      BY <1>4, <3>3 DEF ToSet
    <3>6. ToSet(back) \subseteq ToSet(s)
      BY <1>4, <3>4 DEF ToSet
    <3> QED
      BY <3>5, <3>6
  <2>2. ASSUME NEW i \in 1..Len(s)
        PROVE  s[i] \in ToSet(front) \cup ToSet(back)
    <3>1. CASE i <= n
      BY <1>1, <1>2, <1>4, <3>1, SMT DEF ToSet
    <3>2. CASE ~(i <= n)
      <4>1. i - n \in 1..(Len(s) - n) /\ n + (i - n) = i
        BY <1>1, <3>2, SMT
      <4>2. back[i - n] = s[i]
        BY <1>3, <4>1
      <4> QED
        BY <1>4, <4>1, <4>2 DEF ToSet
    <3> QED
      BY <3>1, <3>2
  <2> QED
    BY <1>1, <2>1, <2>2 DEF ToSet
<1>6. ASSUME IsInjective(s)
      PROVE  /\ IsInjective(front) /\ IsInjective(back)
             /\ ToSet(front) \cap ToSet(back) = {}
  <2>1. \A i, j \in 1..Len(s) : s[i] = s[j] => i = j
    BY <1>1, <1>6 DEF IsInjective
  <2>2. IsInjective(front)
    BY <1>1, <1>2, <1>4, <2>1, SMT DEF IsInjective
  <2>3. IsInjective(back)
    <3>1. \A i, j \in 1..(Len(s) - n) :
             n + i \in 1..Len(s) /\ n + j \in 1..Len(s) /\ (n + i = n + j => i = j)
      BY <1>1, SMT
    <3> QED
      BY <1>3, <1>4, <2>1, <3>1 DEF IsInjective
  <2>4. ASSUME NEW i \in 1..n, NEW j \in 1..(Len(s) - n)
        PROVE  front[i] # back[j]
    <3>1. i \in 1..Len(s) /\ n + j \in 1..Len(s) /\ i # n + j
      BY <1>1, SMT
    <3> QED
      BY <1>2, <1>3, <2>1, <3>1
  <2> QED
    BY <1>4, <2>2, <2>3, <2>4 DEF ToSet
<1> QED
  BY <1>2, <1>3, <1>5, <1>6 DEF front, back

(* Taking the head off a list. *)
LEMMA HeadList ==
  ASSUME NEW S, NEW s \in Seq(S), s # <<>>
  PROVE  /\ Head(s) \in S /\ Tail(s) \in Seq(S)
         /\ Len(s) > 0 /\ Len(Tail(s)) = Len(s) - 1
         /\ ToSet(s) = {Head(s)} \cup ToSet(Tail(s))
         /\ IsInjective(s) => IsInjective(Tail(s)) /\ Head(s) \notin ToSet(Tail(s))
<1>1. /\ Head(s) \in S /\ Tail(s) \in Seq(S)
      /\ Len(Tail(s)) = Len(s) - 1
      /\ Tail(s) = SubSeq(s, 2, Len(s))
  BY HeadTailProperties, TailIsSubSeq
<1>2. Len(s) \in Nat /\ Len(s) > 0 /\ 1 \in 0..Len(s)
  BY LenProperties, EmptySeq, SMT
<1>3. ToSet(SubSeq(s, 1, 1)) = {Head(s)}
  <2> DEFINE first == SubSeq(s, 1, 1)
  <2>1. first \in Seq(S) /\ Len(first) = 1
    BY <1>2, SplitList
  <2>2. Head(first) = s[1]
    BY <1>2, HeadTailOfSubSeq, SMT
  <2> HIDE DEF first
  <2>3. DOMAIN first = 1..1
    BY <2>1, LenProperties
  <2>4. first[1] = Head(s)
    BY <1>2, <2>1, <2>2, SMT
  <2>5. \A i : i \in 1..1 <=> i = 1
    BY SMT
  <2>6. ToSet(first) = {Head(s)}
    BY <2>3, <2>4, <2>5 DEF ToSet
  <2> QED
    BY <2>6 DEF first
<1>5. LET front == SubSeq(s, 1, 1)
          back  == SubSeq(s, 1 + 1, Len(s))
      IN  /\ ToSet(front) \cup ToSet(back) = ToSet(s)
          /\ IsInjective(s) => /\ IsInjective(front) /\ IsInjective(back)
                               /\ ToSet(front) \cap ToSet(back) = {}
  BY <1>2, SplitList
<1>6. 1 + 1 = 2
  BY SMT
<1> QED
  BY <1>1, <1>2, <1>3, <1>5, <1>6

(* InsertAt links one element between two others. *)
LEMMA InsertList ==
  ASSUME NEW S, NEW s \in Seq(S), NEW n \in 0..Len(s), NEW e \in S
  PROVE  /\ InsertAt(s, n + 1, e) \in Seq(S)
         /\ ToSet(InsertAt(s, n + 1, e)) = ToSet(s) \cup {e}
         /\ IsInjective(s) /\ e \notin ToSet(s)
              => IsInjective(InsertAt(s, n + 1, e))
<1> DEFINE front == SubSeq(s, 1, n)
           back  == SubSeq(s, n + 1, Len(s))
           ext   == Append(front, e)
<1>1. /\ front \in Seq(S) /\ back \in Seq(S)
      /\ ToSet(front) \cup ToSet(back) = ToSet(s)
      /\ IsInjective(s) => /\ IsInjective(front) /\ IsInjective(back)
                           /\ ToSet(front) \cap ToSet(back) = {}
  BY SplitList
<1>2. InsertAt(s, n + 1, e) = ext \o back
  <2>1. (n + 1) - 1 = n
    BY SMT
  <2>2. front \o <<e>> = ext
    BY <1>1, SMT
  <2> QED
    BY <2>1, <2>2 DEF InsertAt
<1>3. /\ ext \in Seq(S)
      /\ ToSet(ext) = ToSet(front) \cup {e}
      /\ IsInjective(front) /\ e \notin ToSet(front) => IsInjective(ext)
  BY <1>1, AppendList
<1>4. /\ ext \o back \in Seq(S)
      /\ ToSet(ext \o back) = ToSet(ext) \cup ToSet(back)
      /\ IsInjective(ext) /\ IsInjective(back) /\ ToSet(ext) \cap ToSet(back) = {}
           => IsInjective(ext \o back)
  BY <1>1, <1>3, ConcatList
<1> HIDE DEF front, back, ext
<1> QED
  BY <1>1, <1>2, <1>3, <1>4

(* A list of one element. *)
LEMMA OneList ==
  ASSUME NEW S, NEW e \in S
  PROVE  /\ <<e>> \in Seq(S) /\ ToSet(<<e>>) = {e} /\ IsInjective(<<e>>)
<1>1. <<e>> = Append(<<>>, e)
  BY SMT
<1>2. <<>> \in Seq(S)
  BY EmptySeq
<1>3. /\ Append(<<>>, e) \in Seq(S)
      /\ ToSet(Append(<<>>, e)) = ToSet(<<>>) \cup {e}
      /\ IsInjective(<<>>) /\ e \notin ToSet(<<>>) => IsInjective(Append(<<>>, e))
  BY <1>2, AppendList
<1> QED
  BY <1>1, <1>3, EmptyList

(* RemoveFirst unlinks one element, if it is in the list. *)
LEMMA RemoveList ==
  ASSUME NEW S, NEW s \in Seq(S), NEW e, IsInjective(s)
  PROVE  /\ RemoveFirst(s, e) \in Seq(S)
         /\ ToSet(RemoveFirst(s, e)) = ToSet(s) \ {e}
         /\ IsInjective(RemoveFirst(s, e))
<1>1. DOMAIN s = 1..Len(s) /\ Len(s) \in Nat
  BY LenProperties
<1>2. CASE ~\E i \in 1..Len(s) : s[i] = e
  <2>1. RemoveFirst(s, e) = s
    BY <1>2 DEF RemoveFirst
  <2>2. e \notin ToSet(s)
    BY <1>1, <1>2 DEF ToSet
  <2> QED
    BY <2>1, <2>2
<1>3. CASE \E i \in 1..Len(s) : s[i] = e
  <2> DEFINE At == {i \in 1..Len(s) : s[i] = e}
             n == Min(At)
             front == SubSeq(s, 1, n - 1)
             back == SubSeq(s, n + 1, Len(s))
             upto == SubSeq(s, 1, n)
  <2>1. RemoveFirst(s, e) = front \o back
    BY <1>3 DEF RemoveFirst, RemoveAt, SelectInSeq
  <2>2. At # {} /\ At \in SUBSET Nat
    BY <1>1, <1>3
  <2>3. n \in At
    BY <2>2, MinOfNats
  <2>4. n \in 1..Len(s) /\ s[n] = e /\ e \in S
    <3>1. n \in 1..Len(s) /\ s[n] = e
      BY <2>3
    <3> QED
      BY <3>1, ElementOfSeq
  <2> HIDE DEF n
  <2>5. n \in 0..Len(s) /\ n - 1 \in 0..Len(s)
    BY <1>1, <2>4
  <2>6. /\ upto \in Seq(S) /\ Len(upto) = n /\ back \in Seq(S)
        /\ ToSet(upto) \cup ToSet(back) = ToSet(s)
        /\ IsInjective(upto) /\ IsInjective(back) /\ ToSet(upto) \cap ToSet(back) = {}
    BY <2>5, SplitList
  <2>7. front \in Seq(S) /\ Len(front) = n - 1 /\ IsInjective(front)
    BY <2>5, SplitList
  <2>8. upto = Append(front, e)
    <3>1. \A i \in 1..n : upto[i] = s[i]
      <4>1. \A i \in 1..n : s[i] \in S
        BY <1>1, <2>4, ElementOfSeq
      <4>2. 1 \in Int /\ n \in Int
        BY <1>1, <2>4
      <4>3. \A i \in 1 .. n - 1 + 1 : upto[i] = s[1 + i - 1]
        BY <4>1, <4>2, SubSeqProperties
      <4> QED
        BY <1>1, <2>4, <4>3
    <3>2. \A i \in 1..(n - 1) : front[i] = s[i]
      <4>1. \A i \in 1..(n - 1) : s[i] \in S
        BY <1>1, <2>4, ElementOfSeq
      <4>2. 1 \in Int /\ n - 1 \in Int
        BY <1>1, <2>4
      <4>3. \A i \in 1 .. (n - 1) - 1 + 1 : front[i] = s[1 + i - 1]
        BY <4>1, <4>2, SubSeqProperties
      <4> QED
        BY <1>1, <2>4, <4>3
    <3> HIDE DEF front, upto
    <3>3. /\ Append(front, e) \in Seq(S) /\ Len(Append(front, e)) = Len(front) + 1
          /\ \A i \in 1..Len(front) : Append(front, e)[i] = front[i]
          /\ Append(front, e)[Len(front) + 1] = e
      BY <2>4, <2>7, AppendProperties
    <3>4. \A i \in 1..n : upto[i] = Append(front, e)[i]
      BY <1>1, <2>4, <2>7, <3>1, <3>2, <3>3
    <3>5. Len(Append(front, e)) = n
      BY <1>1, <2>4, <2>7, <3>3
    <3> QED
      BY <2>6, <3>3, <3>4, <3>5, SeqEqual
  <2> HIDE DEF front, back, upto
  <2>9. ToSet(upto) = ToSet(front) \cup {e}
    BY <2>4, <2>7, <2>8, AppendList
  <2>10. e \notin ToSet(front)
    <3>1. \A i \in 1..(n - 1) : i \in 1..n /\ n \in 1..n /\ i # n
      BY <1>1, <2>4
    <3>2. DOMAIN upto = 1..n /\ DOMAIN front = 1..(n - 1)
      BY <2>6, <2>7, LenProperties
    <3>3. /\ \A i \in 1..(n - 1) : upto[i] = front[i]
          /\ upto[n] = e
      <4>1. /\ \A i \in 1..Len(front) : Append(front, e)[i] = front[i]
            /\ Append(front, e)[Len(front) + 1] = e
        BY <2>4, <2>7, AppendProperties
      <4>2. (n - 1) + 1 = n
        BY <1>1, <2>4
      <4> QED
        BY <2>7, <2>8, <4>1, <4>2
    <3> QED
      BY <2>6, <3>1, <3>2, <3>3 DEF ToSet, IsInjective
  <2>11. /\ front \o back \in Seq(S)
         /\ ToSet(front \o back) = ToSet(front) \cup ToSet(back)
         /\ ToSet(front) \cap ToSet(back) = {} => IsInjective(front \o back)
    BY <2>6, <2>7, ConcatList
  <2> QED
    BY <2>1, <2>6, <2>9, <2>10, <2>11
<1> QED
  BY <1>2, <1>3

-------------------------------------------------------------------------------
(* A remainder is the index of a cell. *)
LEMMA ModType ==
  ASSUME NEW C \in Nat \ {0}, NEW x \in Int
  PROVE  x % C \in 0..(C - 1)
  BY SMT

(* The index of a cell is its own remainder. *)
LEMMA ModSmall ==
  ASSUME NEW C \in Nat \ {0}, NEW x \in 0..(C - 1)
  PROVE  x % C = x
  BY SMT

(* Every number is a multiple of C and its remainder. *)
LEMMA Division ==
  ASSUME NEW C \in Nat \ {0}, NEW x \in Int
  PROVE  \E q \in Int : x = C * q + (x % C)
<1>1. x \div C \in Int
  BY SMT
<1>2. x = C * (x \div C) + (x % C)
  BY SMT
<1> QED
  BY <1>1, <1>2

(* A multiple of C and a remainder determine each other. *)
LEMMA Multiples ==
  ASSUME NEW C \in Nat \ {0}, NEW p \in Int, NEW q \in Int, p > q
  PROVE  C * p >= C * q + C /\ C * p \in Int /\ C * q \in Int
<1>1. PICK k \in Nat : p = q + 1 + k
  OBVIOUS
<1>2. C * p = C * q + C + C * k
  BY <1>1
<1>3. C * k \in Nat /\ C * p \in Int /\ C * q \in Int
  BY <1>1
<1> QED
  BY <1>2, <1>3

(* Equal numbers have equal remainders, whatever the multiples. *)
LEMMA SameRemainder ==
  ASSUME NEW C \in Nat \ {0}, NEW p \in Int, NEW q \in Int,
         NEW r \in 0..(C - 1), NEW s \in 0..(C - 1), C * p + r = C * q + s
  PROVE  r = s
<1>1. CASE p > q
  BY <1>1, Multiples
<1>2. CASE q > p
  BY <1>2, Multiples
<1>3. CASE p = q
  BY <1>3
<1> QED
  BY <1>1, <1>2, <1>3

(* What is added to a multiple is the remainder. *)
LEMMA RemainderIs ==
  ASSUME NEW C \in Nat \ {0}, NEW x \in Int, NEW q \in Int,
         NEW r \in 0..(C - 1), x = C * q + r
  PROVE  x % C = r
<1>1. PICK p \in Int : x = C * p + (x % C)
  BY Division
<1>2. x % C \in 0..(C - 1)
  BY ModType
<1> QED
  BY <1>1, <1>2, SameRemainder

(* Wrapping around early does not matter. *)
LEMMA ModAdd ==
  ASSUME NEW C \in Nat \ {0}, NEW x \in Int, NEW y \in Int
  PROVE  ((x % C) + y) % C = (x + y) % C
<1> DEFINE r == x % C
           m == (r + y) % C
<1>1. r \in 0..(C - 1)
  BY ModType
<1>2. PICK q \in Int : x = C * q + r
  BY Division
<1> HIDE DEF r
<1>3. r + y \in Int
  BY <1>1
<1>4. PICK p \in Int : r + y = C * p + m
  BY <1>3, Division
<1>5. m \in 0..(C - 1)
  BY <1>3, ModType
<1> HIDE DEF m
<1>6. x + y = C * (q + p) + m
  <2>1. C * (q + p) = C * q + C * p
    OBVIOUS
  <2>2. C * q \in Int /\ C * p \in Int
    OBVIOUS
  <2> QED
    BY <1>1, <1>2, <1>4, <1>5, <2>1, <2>2
<1>7. x + y \in Int /\ q + p \in Int
  OBVIOUS
<1>8. (x + y) % C = m
  BY <1>5, <1>6, <1>7, RemainderIs
<1> QED
  BY <1>8 DEF m, r

(* Wrapping around early before one step does not matter. *)
LEMMA ModSucc ==
  ASSUME NEW C \in Nat \ {0}, NEW x \in Int
  PROVE  ((x % C) + 1) % C = (x + 1) % C
<1> DEFINE y == 1
<1>1. y \in Int
  OBVIOUS
<1> HIDE DEF y
<1>2. ((x % C) + y) % C = (x + y) % C
  BY <1>1, ModAdd
<1> QED
  BY <1>2 DEF y

(* Fewer than C consecutive cells are all different. *)
LEMMA ModDistinct ==
  ASSUME NEW C \in Nat \ {0}, NEW x \in Int, NEW y \in Int, x < y, y < x + C
  PROVE  x % C # y % C
<1> DEFINE r == x % C
<1>1. SUFFICES ASSUME y % C = r
               PROVE  FALSE
  OBVIOUS
<1>2. r \in 0..(C - 1)
  BY ModType
<1>3. PICK p \in Int : x = C * p + r
  BY Division
<1>4. PICK q \in Int : y = C * q + r
  BY <1>1, Division
<1> HIDE DEF r
<1>5. CASE q > p
  BY <1>2, <1>3, <1>4, <1>5, Multiples
<1>6. CASE p > q
  BY <1>2, <1>3, <1>4, <1>6, Multiples
<1>7. CASE p = q
  BY <1>2, <1>3, <1>4, <1>7
<1> QED
  BY <1>5, <1>6, <1>7

-------------------------------------------------------------------------------
(* How many of the threads T are in a place, when f says where each is. *)
CountIn(T, f, place) == Cardinality({t \in T : f[t] = place})

(* The threads in one place can be counted. *)
LEMMA CountType ==
  ASSUME NEW T, IsFiniteSet(T), NEW f, NEW place
  PROVE  IsFiniteSet({t \in T : f[t] = place}) /\ CountIn(T, f, place) \in Nat
<1>1. {t \in T : f[t] = place} \in SUBSET T
  OBVIOUS
<1> QED
  BY <1>1, FS_Subset, FS_CardinalityType DEF CountIn

-------------------------------------------------------------------------------
(* The cells of a buffer. *)
Cells(C, S) == [0..(C - 1) -> S]

(* The n characters stored from h on in the cells f of a buffer. *)
Ring(C, f, h, n) == [k \in 1..n |-> f[(h + k - 1) % C]]

(* What is in a buffer is a sequence of characters, of that length. *)
LEMMA RingSeq ==
  ASSUME NEW C \in Nat \ {0}, NEW S, NEW f \in Cells(C, S), NEW h \in Int, NEW n \in Nat
  PROVE  Ring(C, f, h, n) \in Seq(S)
<1>1. ASSUME NEW k \in 1..n PROVE f[(h + k - 1) % C] \in S
  <2>1. h + k - 1 \in Int
    OBVIOUS
  <2> QED
    BY <2>1, ModType DEF Cells
<1>2. Ring(C, f, h, n) \in [1..n -> S]
  BY <1>1 DEF Ring
<1> QED
  BY <1>2, SeqDef

(* As many characters are in the buffer as are counted. *)
LEMMA RingLen ==
  ASSUME NEW C \in Nat \ {0}, NEW S, NEW f \in Cells(C, S), NEW h \in Int, NEW n \in Nat
  PROVE  Len(Ring(C, f, h, n)) = n
<1> DEFINE r == Ring(C, f, h, n)
<1>1. r \in Seq(S)
  BY RingSeq
<1>2. DOMAIN r = 1..n
  BY DEF Ring
<1> HIDE DEF r
<1>3. DOMAIN r = 1..Len(r) /\ Len(r) \in Nat
  BY <1>1, LenProperties
<1>4. Len(r) = n
  BY <1>2, <1>3
<1> QED
  BY <1>4 DEF r

(* Storing in the first free cell appends, if there is one. *)
StoredBehind(C, f, h, n, c) == [f EXCEPT ![(h + n) % C] = c]
StoreAppends(C, f, h, n, c) ==
  Ring(C, StoredBehind(C, f, h, n, c), h, n + 1) = Append(Ring(C, f, h, n), c)

(* Storing behind the n characters makes them n + 1, in order. *)
LEMMA RingStore ==
  ASSUME NEW C \in Nat \ {0}, NEW S, NEW f \in Cells(C, S), NEW h \in Int,
         NEW n \in 0..(C - 1), NEW c \in S
  PROVE  StoreAppends(C, f, h, n, c)
<1> DEFINE g == StoredBehind(C, f, h, n, c)
           r == Ring(C, f, h, n)
           s == Ring(C, g, h, n + 1)
<1>1. (h + n) % C \in 0..(C - 1)
  <2>1. h + n \in Int
    OBVIOUS
  <2> QED
    BY <2>1, ModType
<1>2. g \in Cells(C, S) /\ g[(h + n) % C] = c
  BY <1>1 DEF Cells, StoredBehind
<1>3. /\ r \in Seq(S) /\ Len(r) = n
      /\ \A k \in 1..n : r[k] = f[(h + k - 1) % C]
  <2>1. C \in Nat \ {0} /\ f \in Cells(C, S) /\ h \in Int /\ n \in Nat
    OBVIOUS
  <2>2. r \in Seq(S) /\ Len(r) = n
    BY <2>1, RingSeq, RingLen, Zenon
  <2> QED
    BY <2>2 DEF Ring
<1>4. /\ s \in Seq(S) /\ Len(s) = n + 1
      /\ \A k \in 1..(n + 1) : s[k] = g[(h + k - 1) % C]
  <2>1. C \in Nat \ {0} /\ h \in Int /\ n + 1 \in Nat
    OBVIOUS
  <2>2. s \in Seq(S) /\ Len(s) = n + 1
    BY <1>2, <2>1, RingSeq, RingLen, Zenon
  <2> QED
    BY <2>2 DEF Ring
<1> HIDE DEF r, s
<1>5. /\ Append(r, c) \in Seq(S) /\ Len(Append(r, c)) = n + 1
      /\ \A k \in 1..n : Append(r, c)[k] = r[k]
      /\ Append(r, c)[n + 1] = c
  BY <1>3, AppendProperties
<1>6. ASSUME NEW k \in 1..(n + 1) PROVE s[k] = Append(r, c)[k]
  <2>1. CASE k = n + 1
    <3>1. h + k - 1 = h + n
      BY <2>1
    <3> QED
      BY <1>2, <1>4, <1>5, <2>1, <3>1
  <2>2. CASE k # n + 1
    <3> DEFINE x == h + k - 1
               y == h + n
    <3>1. k \in 1..n /\ x \in Int /\ y \in Int /\ x < y /\ y < x + C
      BY <2>2
    <3> HIDE DEF x, y
    <3>2. x % C # y % C /\ x % C \in 0..(C - 1)
      BY <3>1, ModDistinct, ModType
    <3>3. g[x % C] = f[x % C]
      BY <3>2 DEF y, Cells, StoredBehind
    <3> QED
      BY <1>3, <1>4, <1>5, <3>1, <3>3 DEF x
  <2> QED
    BY <2>1, <2>2
<1>7. s = Append(r, c)
  BY <1>4, <1>5, <1>6, SeqEqual
<1> QED
  BY <1>7 DEF r, s, StoreAppends

(* Taking from the cell at the head is receiving the first character. *)
LEMMA RingTake ==
  ASSUME NEW C \in Nat \ {0}, NEW S, NEW f \in Cells(C, S), NEW h \in 0..(C - 1),
         NEW n \in Nat \ {0}
  PROVE  /\ Ring(C, f, h, n) # <<>> /\ Head(Ring(C, f, h, n)) = f[h]
         /\ Ring(C, f, (h + 1) % C, n - 1) = Tail(Ring(C, f, h, n))
<1> DEFINE r == Ring(C, f, h, n)
           i == (h + 1) % C
           s == Ring(C, f, i, n - 1)
<1>1. /\ r \in Seq(S) /\ Len(r) = n
      /\ \A k \in 1..n : r[k] = f[(h + k - 1) % C]
  <2>1. C \in Nat \ {0} /\ f \in Cells(C, S) /\ h \in Int /\ n \in Nat
    OBVIOUS
  <2>2. r \in Seq(S) /\ Len(r) = n
    BY <2>1, RingSeq, RingLen, Zenon
  <2> QED
    BY <2>2 DEF Ring
<1>2. h % C = h
  BY ModSmall
<1>3. i \in 0..(C - 1) /\ i \in Int /\ n - 1 \in Nat
  <2>1. h + 1 \in Int
    OBVIOUS
  <2>2. (h + 1) % C \in 0..(C - 1)
    BY <2>1, ModType
  <2> QED
    BY <2>2
<1> HIDE DEF i
<1>4. /\ s \in Seq(S) /\ Len(s) = n - 1
      /\ \A k \in 1..(n - 1) : s[k] = f[(i + k - 1) % C]
  <2>1. C \in Nat \ {0} /\ f \in Cells(C, S)
    OBVIOUS
  <2>2. s \in Seq(S) /\ Len(s) = n - 1
    BY <1>3, <2>1, RingSeq, RingLen, Zenon
  <2> QED
    BY <2>2 DEF Ring
<1> HIDE DEF r, s
<1>5. r # <<>>
  BY <1>1, EmptySeq
<1>6. /\ Head(r) = r[1] /\ Tail(r) \in Seq(S) /\ Len(Tail(r)) = n - 1
      /\ \A k \in 1..(n - 1) : Tail(r)[k] = r[k + 1]
  BY <1>1, <1>5, HeadTailProperties
<1>7. Head(r) = f[h]
  <2>1. r[1] = f[(h + 1 - 1) % C] /\ h + 1 - 1 = h
    BY <1>1
  <2> QED
    BY <1>2, <1>6, <2>1
<1>8. ASSUME NEW k \in 1..(n - 1) PROVE s[k] = Tail(r)[k]
  <2> DEFINE x == h + 1
             y == k - 1
  <2>1. ((x % C) + y) % C = (x + y) % C
    <3>1. x \in Int /\ y \in Int
      OBVIOUS
    <3> HIDE DEF x, y
    <3> QED
      BY <3>1, ModAdd
  <2>2. (x % C) + y = i + k - 1
    <3>1. i = x % C
      BY DEF i
    <3> HIDE DEF x
    <3> QED
      BY <1>3, <3>1
  <2>3. x + y = h + (k + 1) - 1 /\ k + 1 \in 1..n
    OBVIOUS
  <2>4. s[k] = f[(i + k - 1) % C] /\ Tail(r)[k] = r[k + 1]
    BY <1>4, <1>6
  <2>5. r[k + 1] = f[(h + (k + 1) - 1) % C]
    BY <1>1, <2>3
  <2> QED
    BY <2>1, <2>2, <2>3, <2>4, <2>5
<1>9. s = Tail(r)
  BY <1>4, <1>6, <1>8, SeqEqual
<1> QED
  BY <1>5, <1>7, <1>9 DEF r, s, i

-------------------------------------------------------------------------------
(* What division leaves over is less than what is divided by. *)
LEMMA DivBounds ==
  ASSUME NEW C \in Nat \ {0}, NEW x \in Nat
  PROVE  /\ x \div C \in Nat
         /\ (x \div C) * C <= x /\ x < (x \div C) * C + C
<1>1. x \div C \in Int /\ x = C * (x \div C) + (x % C)
  BY SMT
<1>2. x % C \in 0..(C - 1)
  BY SMT
<1>3. x \div C \in Nat
  BY SMT
<1>4. C * (x \div C) = (x \div C) * C
  BY <1>1, SMT
<1> QED
  BY <1>1, <1>2, <1>3, <1>4, SMT

(* There is one multiple of C that is less than C below x. *)
LEMMA DivUnique ==
  ASSUME NEW C \in Nat \ {0}, NEW x \in Nat, NEW q \in Int, q * C <= x, x < q * C + C
  PROVE  x \div C = q
<1> DEFINE p == x \div C
<1>1. p \in Int /\ p * C <= x /\ x < p * C + C
  BY DivBounds
<1> HIDE DEF p
<1>2. C * p = p * C /\ C * q = q * C /\ C * p \in Int /\ C * q \in Int
  BY <1>1, SMT
<1>3. ~(p > q)
  BY <1>1, <1>2, Multiples, SMT
<1>4. ~(q > p)
  BY <1>1, <1>2, Multiples, SMT
<1> QED
  BY <1>1, <1>3, <1>4, SMT DEF p
-------------------------------------------------------------------------------
(* What holds before the first pass of a loop and is kept by each. *)
LEMMA Climbs ==
  ASSUME NEW n \in Nat, NEW B \in SUBSET (0..n), 0 \in B,
         \A k \in 1..n : k - 1 \in B => k \in B
  PROVE  n \in B
<1> DEFINE Bad == (0..n) \ B
<1> SUFFICES ASSUME Bad # {} PROVE FALSE
  OBVIOUS
<1>1. Bad \in SUBSET Nat
  OBVIOUS
<1>2. Min(Bad) \in Bad /\ \A k \in Bad : Min(Bad) <= k
  BY <1>1, MinOfNats
<1> DEFINE j == Min(Bad)
<1>3. j \in 0..n /\ j \notin B /\ \A k \in 0..n : k \notin B => j <= k
  BY <1>2
<1> HIDE DEF j, Bad
<1>4. j # 0
  BY <1>3
<1>5. j \in 1..n /\ j - 1 \in 0..n /\ ~(j <= j - 1)
  BY <1>3, <1>4
<1> QED
  BY <1>3, <1>5

(* The loops: what n passes do to m, as a table.  F says what pass k makes  *)
(* of it, S what it can become.                                             *)
Passes(S, n, m, F) ==
  {g \in [0..n -> S] : g[0] = m /\ \A k \in 1..n : g[k] = F[<<k, g[k - 1]>>]}

LEMMA PassesExist ==
  ASSUME NEW S, NEW N \in Nat, NEW m \in S, NEW F \in [(1..N) \X S -> S]
  PROVE  Passes(S, N, m, F) # {}
<1> DEFINE Bad == {n \in 0..N : Passes(S, n, m, F) = {}}
<1>1. SUFFICES ASSUME Bad # {} PROVE FALSE
  <2>1. N \in 0..N
    OBVIOUS
  <2> QED
    BY <2>1
<1>2. Bad \in SUBSET Nat
  OBVIOUS
<1>3. Min(Bad) \in Bad /\ \A n \in Bad : Min(Bad) <= n
  BY <1>1, <1>2, MinOfNats
<1> DEFINE j == Min(Bad)
<1>4. j \in 0..N /\ Passes(S, j, m, F) = {}
  BY <1>3
<1>5. \A n \in 0..N : n \in Bad => j <= n
  BY <1>3
<1> HIDE DEF j
<1>6. \A n \in 0..N : n < j => Passes(S, n, m, F) # {}
  BY <1>4, <1>5
<1> HIDE DEF Bad
<1>7. CASE j = 0
  <2> DEFINE g == [k \in 0..0 |-> m]
  <2>1. g \in [0..0 -> S] /\ g[0] = m /\ \A k \in 1..0 : g[k] = F[<<k, g[k - 1]>>]
    OBVIOUS
  <2> HIDE DEF g
  <2>2. g \in Passes(S, 0, m, F)
    BY <2>1 DEF Passes
  <2> QED
    BY <1>4, <1>7, <2>2
<1>8. CASE j # 0
  <2>1. j - 1 \in 0..N /\ j - 1 < j /\ j \in 1..N
    BY <1>4, <1>8
  <2>2. PICK g \in Passes(S, j - 1, m, F) : TRUE
    BY <1>6, <2>1
  <2>3. /\ g \in [0..(j - 1) -> S] /\ g[0] = m
        /\ \A k \in 1..(j - 1) : g[k] = F[<<k, g[k - 1]>>]
    BY <2>2 DEF Passes
  <2> DEFINE e == F[<<j, g[j - 1]>>]
             h == [k \in 0..j |-> IF k = j THEN e ELSE g[k]]
  <2>4. g[j - 1] \in S /\ e \in S
    <3>1. j - 1 \in 0..(j - 1)
      BY <2>1
    <3>2. g[j - 1] \in S
      BY <2>3, <3>1
    <3>3. <<j, g[j - 1]>> \in (1..N) \X S
      BY <2>1, <3>2
    <3> QED
      BY <3>2, <3>3
  <2>5. h[j] = e /\ \A k \in 0..(j - 1) : h[k] = g[k]
    BY <2>1
  <2>6. h \in [0..j -> S]
    <3>1. \A k \in 0..j : k # j => k \in 0..(j - 1)
      BY <2>1
    <3> HIDE DEF e
    <3> QED
      BY <2>3, <2>4, <3>1
  <2> HIDE DEF h
  <2>7. h[0] = m
    BY <2>1, <2>3, <2>5
  <2>8. ASSUME NEW k \in 1..j PROVE h[k] = F[<<k, h[k - 1]>>]
    <3>1. k - 1 \in 0..(j - 1) /\ (k # j => k \in 1..(j - 1) /\ k \in 0..(j - 1))
      BY <2>1
    <3>2. h[k - 1] = g[k - 1]
      BY <2>5, <3>1
    <3>3. CASE k = j
      BY <2>5, <3>2, <3>3
    <3>4. CASE k # j
      BY <2>3, <2>5, <3>1, <3>2, <3>4
    <3> QED
      BY <3>3, <3>4
  <2>9. h \in Passes(S, j, m, F)
    BY <2>6, <2>7, <2>8 DEF Passes
  <2> QED
    BY <1>4, <2>9
<1> QED
  BY <1>7, <1>8
===============================================================================
