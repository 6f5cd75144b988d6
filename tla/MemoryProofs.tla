------------------------------ MODULE MemoryProofs ------------------------------
(***************************************************************************)
(* Proofs that the allocator of MemoryAllocator.tla keeps its types and,   *)
(* until mem_free links a segment in at a wrong place, its heap, for a     *)
(* heap of any size and descriptors of any size up to a block.             *)
(*                                                                         *)
(* The invariant IInv has two parts.  Laid holds always, also when the     *)
(* list has lost its order or runs in a circle: every descriptor that is   *)
(* ever read is that of a segment, and points to segments.  Sound holds    *)
(* until misplaced: the list spells a set of addresses in order, and that  *)
(* set and the held segments tile the heap.                                *)
(*                                                                         *)
(* From Laid it also follows that tryToMerge never merges anything, a      *)
(* descriptor being shorter than a block.                                  *)
(*                                                                         *)
(* The list is followed with Walk and Ascends: a list that spells a set is *)
(* walked in order and to its end, so Path is known at every index.        *)
(***************************************************************************)
EXTENDS MemoryAllocator, Lemmas

Desc == [size : 0..HeapBlocks, next : Pointers, prev : Pointers]
Descs == [Addresses -> Desc]

Segments(d) == {a \in Addresses : d[a].size # 0}

(* The descriptors, wherever they are linked: every segment lies in the     *)
(* heap and points to segments.  Where a merge cannot happen the segments   *)
(* do not overlap, and that is why it cannot.                               *)
Laid(d, h) ==
  /\ d \in Descs
  /\ h \in Segments(d) \cup {Null}
  /\ \A a \in Segments(d) :
       /\ a + d[a].size <= HeapBlocks
       /\ d[a].next \in Segments(d) \cup {Null}
       /\ d[a].prev \in Segments(d) \cup {Null, Unset}
  /\ DescSize < BlockSize =>
       \A a, b \in Segments(d) : a < b => a + d[a].size <= b

TypeInv ==
  /\ Laid(desc, freeSegHead)
  /\ held \subseteq Segments(desc) \X (1..HeapBlocks) \X Requests
  /\ outcome \in {"ok", "hangs", "fault"}
  /\ misplaced \in BOOLEAN

(* The list from h spells the set L in the order of the addresses. *)
Follows(L, a, x) ==
  \/ x = Null /\ \A b \in L : b <= a
  \/ x \in L /\ a < x /\ \A b \in L : b <= a \/ x <= b

Spelled(L, d, h) == Follows(L, -1, h) /\ \A a \in L : Follows(L, a, d[a].next)

(* The segments of L and the held ones are the heap. *)
Heads(H) == {s[1] : s \in H}
Starts(L, H) == L \cup Heads(H)

Tiled(L, d, H) ==
  /\ \A s \in H : s[1] \notin L /\ d[s[1]].size = s[2] /\ DescSize + s[3] <= s[2] * BlockSize
  /\ \A s, t \in H : s[1] = t[1] => s = t
  /\ \A a, b \in Starts(L, H) : a < b => a + d[a].size <= b
  /\ \A x \in Addresses : \E a \in Starts(L, H) : a <= x /\ x < a + d[a].size

Sound(L, d, h, H) == L \subseteq Segments(d) /\ Spelled(L, d, h) /\ Tiled(L, d, H)

IInv ==
  /\ TypeInv
  /\ ~misplaced => /\ outcome = "ok"
                   /\ \E L \in SUBSET Addresses : Sound(L, desc, freeSegHead, held)

(* The ways mem_alloc and mem_free write descriptors. *)
WithNext(d, b, x) == [d EXCEPT ![b].next = x]
WithPrev(d, b, x) == [d EXCEPT ![b].prev = x]
WithLinks(d, b, x, y) == [d EXCEPT ![b].next = x, ![b].prev = y]
InFront(d, tmp, curr) == [d EXCEPT ![curr].prev = tmp, ![tmp].prev = Null, ![tmp].next = curr]
Behind(d, tmp, curr) == [d EXCEPT ![curr].next = tmp, ![tmp].prev = curr, ![tmp].next = Null]
Amid(d, tmp, curr, before) ==
  [d EXCEPT ![tmp].next = curr, ![tmp].prev = before, ![before].next = tmp, ![curr].prev = tmp]
Grown(d, b, n, x) == [d EXCEPT ![b].size = n, ![b].next = x]

(* What each way of writing a descriptor writes, field by field: the        *)
(* proofs below go by these lemmas and never by the EXCEPTs.                *)
LEMMA PrevSet ==
  ASSUME NEW d \in Descs, NEW b, NEW x \in Pointers
  PROVE  LET e == WithPrev(d, b, x)
         IN  /\ e \in Descs
             /\ \A a \in Addresses :
                  /\ e[a].size = d[a].size /\ e[a].next = d[a].next
                  /\ e[a].prev = IF a = b THEN x ELSE d[a].prev
  BY DEF WithPrev, Desc, Descs, Pointers

LEMMA SizeSet ==
  ASSUME NEW d \in Descs, NEW b \in Addresses, NEW n \in 0..HeapBlocks, NEW x \in Pointers
  PROVE  LET e == Grown(d, b, n, x)
         IN  /\ e \in Descs
             /\ \A a \in Addresses :
                  /\ e[a].size = IF a = b THEN n ELSE d[a].size
                  /\ e[a].next = IF a = b THEN x ELSE d[a].next
                  /\ e[a].prev = d[a].prev
  BY DEF Grown, Desc, Descs, Pointers

LEMMA NextSet ==
  ASSUME NEW d \in Descs, NEW b \in Addresses, NEW x \in Pointers
  PROVE  LET e == WithNext(d, b, x)
         IN  /\ e \in Descs
             /\ \A a \in Addresses :
                  /\ e[a].size = d[a].size /\ e[a].prev = d[a].prev
                  /\ e[a].next = IF a = b THEN x ELSE d[a].next
  BY DEF WithNext, Desc, Descs, Pointers

LEMMA PairSet ==
  ASSUME NEW d \in Descs, NEW tmp \in Addresses, NEW x \in Pointers, NEW y \in Pointers
  PROVE  LET e == WithLinks(d, tmp, x, y)
         IN  /\ e \in Descs
             /\ \A a \in Addresses :
                  /\ e[a].size = d[a].size
                  /\ e[a].next = IF a = tmp THEN x ELSE d[a].next
                  /\ e[a].prev = IF a = tmp THEN y ELSE d[a].prev
  BY DEF WithLinks, Desc, Descs, Pointers

(* tryToMerge when its test holds.                                          *)
LEMMA MergeIs ==
  ASSUME NEW d \in Descs, NEW main \in Addresses, NEW other \in Addresses,
         main * BlockSize + d[main].size * DescSize = other * BlockSize,
         d[main].size + d[other].size \in 0..HeapBlocks
  PROVE  LET e == Merge(d, main, other)
         IN  /\ e \in Descs
             /\ \A a \in Addresses :
                  /\ e[a].size = IF a = main THEN d[main].size + d[other].size ELSE d[a].size
                  /\ e[a].next = IF a = main THEN d[other].next ELSE d[a].next
                  /\ e[a].prev = IF a = d[other].next THEN main ELSE d[a].prev
<1> DEFINE n == d[main].size + d[other].size
           x == d[other].next
           f == Grown(d, main, n, x)
           e == WithPrev(f, x, main)
<1>1. x \in Pointers /\ main \in Pointers /\ n \in 0..HeapBlocks
  BY DEF Descs, Desc, Pointers
<1>2. Merge(d, main, other) = e
  BY DEF Merge, Grown, WithPrev
<1> HIDE DEF n, x
<1>3. /\ f \in Descs
      /\ \A a \in Addresses :
           /\ f[a].size = IF a = main THEN n ELSE d[a].size
           /\ f[a].next = IF a = main THEN x ELSE d[a].next
           /\ f[a].prev = d[a].prev
  BY <1>1, SizeSet
<1> HIDE DEF f
<1>4. /\ e \in Descs
      /\ \A a \in Addresses :
           /\ e[a].size = f[a].size /\ e[a].next = f[a].next
           /\ e[a].prev = IF a = x THEN main ELSE f[a].prev
  BY <1>1, <1>3, PrevSet
<1> HIDE DEF e
<1>5. /\ e \in Descs
      /\ \A a \in Addresses :
           /\ e[a].size = IF a = main THEN n ELSE d[a].size
           /\ e[a].next = IF a = main THEN x ELSE d[a].next
           /\ e[a].prev = IF a = x THEN main ELSE d[a].prev
  BY <1>3, <1>4
<1> QED
  BY <1>2, <1>5 DEF n, x

(* The split of mem_alloc: two descriptors where there was one.             *)
LEMMA SplitIs ==
  ASSUME NEW n \in 0..HeapBlocks, NEW curr \in Addresses, desc \in Descs, curr + n \in Addresses,
         curr + n # curr, desc[curr].size - n \in 0..HeapBlocks
  PROVE  LET e == Split(n, curr)
         IN  /\ e \in Descs
             /\ \A a \in Addresses :
                  /\ e[a].size = IF a = curr THEN n
                        ELSE IF a = curr + n THEN desc[curr].size - n ELSE desc[a].size
                  /\ e[a].next = IF a = curr + n THEN desc[curr].next ELSE desc[a].next
                  /\ e[a].prev = IF a = curr + n THEN desc[curr].prev ELSE desc[a].prev
  BY DEF Split, Desc, Descs, Pointers

(* The writes of mem_free in its three branches with a neighbour.           *)
LEMMA FirstSet ==
  ASSUME NEW d \in Descs, NEW tmp \in Addresses, NEW curr \in Addresses
  PROVE  LET e == InFront(d, tmp, curr)
         IN  /\ e \in Descs
             /\ \A a \in Addresses :
                  /\ e[a].size = d[a].size
                  /\ e[a].next = IF a = tmp THEN curr ELSE d[a].next
                  /\ e[a].prev = IF a = tmp THEN Null ELSE IF a = curr THEN tmp ELSE d[a].prev
<1> DEFINE f == WithPrev(d, curr, tmp)
           e == WithLinks(f, tmp, curr, Null)
<1>1. InFront(d, tmp, curr) = e
  BY DEF InFront, WithLinks, WithPrev
<1>2. tmp \in Pointers /\ curr \in Pointers /\ Null \in Pointers
  BY DEF Pointers
<1>3. /\ f \in Descs
      /\ \A a \in Addresses :
           /\ f[a].size = d[a].size /\ f[a].next = d[a].next
           /\ f[a].prev = IF a = curr THEN tmp ELSE d[a].prev
  BY <1>2, PrevSet
<1> HIDE DEF f
<1>4. /\ e \in Descs
      /\ \A a \in Addresses :
           /\ e[a].size = f[a].size
           /\ e[a].next = IF a = tmp THEN curr ELSE f[a].next
           /\ e[a].prev = IF a = tmp THEN Null ELSE f[a].prev
  BY <1>2, <1>3, PairSet
<1> HIDE DEF e
<1>5. /\ e \in Descs
      /\ \A a \in Addresses :
           /\ e[a].size = d[a].size
           /\ e[a].next = IF a = tmp THEN curr ELSE d[a].next
           /\ e[a].prev = IF a = tmp THEN Null ELSE IF a = curr THEN tmp ELSE d[a].prev
  BY <1>3, <1>4
<1> QED
  BY <1>1, <1>5

LEMMA LastSet ==
  ASSUME NEW d \in Descs, NEW tmp \in Addresses, NEW curr \in Addresses
  PROVE  LET e == Behind(d, tmp, curr)
         IN  /\ e \in Descs
             /\ \A a \in Addresses :
                  /\ e[a].size = d[a].size
                  /\ e[a].next = IF a = tmp THEN Null ELSE IF a = curr THEN tmp ELSE d[a].next
                  /\ e[a].prev = IF a = tmp THEN curr ELSE d[a].prev
<1> DEFINE f == WithNext(d, curr, tmp)
           e == WithLinks(f, tmp, Null, curr)
<1>1. Behind(d, tmp, curr) = e
  BY DEF Behind, WithLinks, WithNext
<1>2. tmp \in Pointers /\ curr \in Pointers /\ Null \in Pointers
  BY DEF Pointers
<1>3. /\ f \in Descs
      /\ \A a \in Addresses :
           /\ f[a].size = d[a].size /\ f[a].prev = d[a].prev
           /\ f[a].next = IF a = curr THEN tmp ELSE d[a].next
  BY <1>2, NextSet
<1> HIDE DEF f
<1>4. /\ e \in Descs
      /\ \A a \in Addresses :
           /\ e[a].size = f[a].size
           /\ e[a].next = IF a = tmp THEN Null ELSE f[a].next
           /\ e[a].prev = IF a = tmp THEN curr ELSE f[a].prev
  BY <1>2, <1>3, PairSet
<1> HIDE DEF e
<1>5. /\ e \in Descs
      /\ \A a \in Addresses :
           /\ e[a].size = d[a].size
           /\ e[a].next = IF a = tmp THEN Null ELSE IF a = curr THEN tmp ELSE d[a].next
           /\ e[a].prev = IF a = tmp THEN curr ELSE d[a].prev
  BY <1>3, <1>4
<1> QED
  BY <1>1, <1>5

LEMMA BetweenSet ==
  ASSUME NEW d \in Descs, NEW tmp \in Addresses, NEW curr \in Addresses,
         NEW before \in Addresses
  PROVE  LET e == Amid(d, tmp, curr, before)
         IN  /\ e \in Descs
             /\ \A a \in Addresses :
                  /\ e[a].size = d[a].size
                  /\ e[a].next = IF a = before THEN tmp
                                 ELSE IF a = tmp THEN curr ELSE d[a].next
                  /\ e[a].prev = IF a = curr THEN tmp
                                 ELSE IF a = tmp THEN before ELSE d[a].prev
<1> DEFINE f == WithLinks(d, tmp, curr, before)
           g == WithNext(f, before, tmp)
           e == WithPrev(g, curr, tmp)
<1>1. Amid(d, tmp, curr, before) = e
  BY DEF Amid, WithLinks, WithNext, WithPrev
<1>2. tmp \in Pointers /\ before \in Pointers /\ curr \in Pointers
  BY DEF Pointers
<1>3. /\ f \in Descs
      /\ \A a \in Addresses :
           /\ f[a].size = d[a].size
           /\ f[a].next = IF a = tmp THEN curr ELSE d[a].next
           /\ f[a].prev = IF a = tmp THEN before ELSE d[a].prev
  BY <1>2, PairSet
<1> HIDE DEF f
<1>4. /\ g \in Descs
      /\ \A a \in Addresses :
           /\ g[a].size = f[a].size /\ g[a].prev = f[a].prev
           /\ g[a].next = IF a = before THEN tmp ELSE f[a].next
  BY <1>2, <1>3, NextSet
<1> HIDE DEF g
<1>5. /\ e \in Descs
      /\ \A a \in Addresses :
           /\ e[a].size = g[a].size /\ e[a].next = g[a].next
           /\ e[a].prev = IF a = curr THEN tmp ELSE g[a].prev
  BY <1>2, <1>4, PrevSet
<1> HIDE DEF e
<1>6. /\ e \in Descs
      /\ \A a \in Addresses :
           /\ e[a].size = d[a].size
           /\ e[a].next = IF a = before THEN tmp
                          ELSE IF a = tmp THEN curr ELSE d[a].next
           /\ e[a].prev = IF a = curr THEN tmp
                          ELSE IF a = tmp THEN before ELSE d[a].prev
  BY <1>3, <1>4, <1>5
<1> QED
  BY <1>1, <1>6

-------------------------------------------------------------------------------
(* Walking the list. *)
Walk(p, d, h) ==
  /\ p \in [0..HeapBlocks -> Segments(d) \cup {Null}] /\ p[0] = h
  /\ \A k \in 1..HeapBlocks : p[k] = IF p[k - 1] = Null THEN Null ELSE d[p[k - 1]].next

(* PathFrom is a recursive function; it exists, and is a walk. *)
LEMMA PathIs ==
  ASSUME NEW d, NEW h, Laid(d, h)
  PROVE  Walk(PathFrom(d, h), d, h)
<1> DEFINE S == Segments(d) \cup {Null}
           path[k \in 0..HeapBlocks] ==
             IF k = 0 THEN h ELSE IF path[k - 1] = Null THEN Null ELSE d[path[k - 1]].next
<1>1. PathFrom(d, h) = path
  BY DEF PathFrom
<1>2. HeapBlocks \in Nat /\ h \in S
  BY HeapAssumption DEF Laid
<1>3. \A x \in S : (IF x = Null THEN Null ELSE d[x].next) \in S
  BY DEF Laid
<1>4. path = [k \in 0..HeapBlocks |->
               IF k = 0 THEN h ELSE IF path[k - 1] = Null THEN Null ELSE d[path[k - 1]].next]
  <2> DEFINE F == [c \in (1..HeapBlocks) \X S |-> IF c[2] = Null THEN Null ELSE d[c[2]].next]
  <2>1. F \in [(1..HeapBlocks) \X S -> S]
    BY <1>3
  <2>2. \A k \in 1..HeapBlocks, x \in S : F[<<k, x>>] = IF x = Null THEN Null ELSE d[x].next
    OBVIOUS
  <2> HIDE DEF F
  <2>3. PICK g \in Passes(S, HeapBlocks, h, F) : TRUE
    <3>1. Passes(S, HeapBlocks, h, F) # {}
      BY <1>2, <2>1, PassesExist
    <3> QED
      BY <3>1
  <2>4. /\ g \in [0..HeapBlocks -> S] /\ g[0] = h
        /\ \A k \in 1..HeapBlocks : g[k] = F[<<k, g[k - 1]>>]
    BY <2>3 DEF Passes
  <2>5. ASSUME NEW k \in 1..HeapBlocks
        PROVE  g[k] = IF g[k - 1] = Null THEN Null ELSE d[g[k - 1]].next
    <3>1. k - 1 \in 0..HeapBlocks
      BY <1>2
    <3>2. g[k - 1] \in S
      BY <2>4, <3>1
    <3> QED
      BY <2>2, <2>4, <3>2
  <2>6. \A k \in 0..HeapBlocks : k = 0 \/ k \in 1..HeapBlocks
    BY <1>2
  <2>7. g = [k \in 0..HeapBlocks |->
              IF k = 0 THEN h ELSE IF g[k - 1] = Null THEN Null ELSE d[g[k - 1]].next]
    BY <2>4, <2>5, <2>6
  <2> QED
    BY <2>7
<1> HIDE DEF path
<1>5. \A k \in 0..HeapBlocks :
        path[k] = IF k = 0 THEN h ELSE IF path[k - 1] = Null THEN Null ELSE d[path[k - 1]].next
  BY <1>4
<1>6. ASSUME NEW n \in 0..HeapBlocks PROVE path[n] \in S
  <2> DEFINE C == {k \in 0..n : path[k] \in S}
  <2>1. n \in Nat /\ C \in SUBSET (0..n)
    BY <1>2
  <2>2. 0 \in C
    BY <1>2, <1>5
  <2>3. ASSUME NEW k \in 1..n, k - 1 \in C PROVE k \in C
    <3>1. k \in 0..HeapBlocks /\ k # 0 /\ k \in 0..n
      BY <1>2
    <3>2. path[k - 1] \in S
      BY <2>3
    <3> HIDE DEF S
    <3>3. path[k] \in S
      BY <1>3, <1>5, <3>1, <3>2
    <3> QED
      BY <3>1, <3>3
  <2> HIDE DEF C
  <2>4. n \in C
    BY <2>1, <2>2, <2>3, Climbs
  <2> QED
    BY <2>4 DEF C
<1>7. path \in [0..HeapBlocks -> S]
  BY <1>4, <1>6
<1>8. path[0] = h
  BY <1>2, <1>5
<1>9. \A k \in 1..HeapBlocks : k \in 0..HeapBlocks /\ k # 0
  BY <1>2
<1>10. \A k \in 1..HeapBlocks : path[k] = IF path[k - 1] = Null THEN Null ELSE d[path[k - 1]].next
  BY <1>5, <1>9
<1> QED
  BY <1>1, <1>7, <1>8, <1>10 DEF Walk

(* The k-th of increasing addresses is at least k. *)
Ascends(p, L) ==
  /\ \A k \in 0..HeapBlocks : p[k] \in L \cup {Null} /\ (p[k] # Null => k <= p[k])
  /\ \A k \in 1..HeapBlocks : p[k] # Null =>
       /\ p[k - 1] # Null /\ p[k - 1] < p[k]
       /\ \A b \in L : b <= p[k - 1] \/ p[k] <= b
  /\ p[HeapBlocks] = Null
  /\ \A a \in L : \E k \in 0..(HeapBlocks - 1) : p[k] = a

(* The walk meets the whole of L, once each and in order, and then Null:    *)
(* an element of L it would miss, the least one, has one in front of it,    *)
(* which the walk meets.                                                    *)
LEMMA WalkAscends ==
  ASSUME NEW d, NEW h, NEW p, NEW L \in SUBSET Addresses,
         Laid(d, h), Walk(p, d, h), Spelled(L, d, h)
  PROVE  Ascends(p, L)
<1>1. /\ HeapBlocks \in Nat \ {0} /\ Null \notin L /\ Null = -1
      /\ \A a \in L : a \in 0..(HeapBlocks - 1)
  BY HeapAssumption DEF Addresses, Null
<1>2. p[0] = h /\ \A k \in 1..HeapBlocks : p[k] = IF p[k - 1] = Null THEN Null ELSE d[p[k - 1]].next
  BY DEF Walk
<1>3. Follows(L, -1, h) /\ \A a \in L : Follows(L, a, d[a].next)
  BY DEF Spelled
<1>4. ASSUME NEW n \in 0..HeapBlocks
      PROVE  p[n] \in L \cup {Null} /\ (p[n] # Null => n <= p[n])
  <2> DEFINE C == {k \in 0..n : p[k] \in L \cup {Null} /\ (p[k] # Null => k <= p[k])}
  <2>1. n \in Nat /\ C \in SUBSET (0..n)
    BY <1>1
  <2>2. 0 \in C
    BY <1>1, <1>2, <1>3 DEF Follows
  <2>3. ASSUME NEW k \in 1..n, k - 1 \in C PROVE k \in C
    <3>1. k \in 1..HeapBlocks /\ k \in 0..n /\ k \in Int
      BY <1>1
    <3>2. p[k - 1] \in L \cup {Null} /\ (p[k - 1] # Null => k - 1 <= p[k - 1])
      BY <2>3
    <3>3. p[k] = IF p[k - 1] = Null THEN Null ELSE d[p[k - 1]].next
      BY <1>2, <3>1
    <3> DEFINE q == p[k - 1]
               r == p[k]
    <3> HIDE DEF q, r
    <3>4. r \in L \cup {Null} /\ (r # Null => k <= r)
      <4>1. CASE q = Null
        BY <3>3, <4>1 DEF q, r
      <4>2. CASE q # Null
        <5>1. q \in L /\ k - 1 <= q /\ r = d[q].next
          BY <3>2, <3>3, <4>2 DEF q, r
        <5>2. Follows(L, q, r)
          BY <1>3, <5>1
        <5> QED
          BY <1>1, <3>1, <5>1, <5>2 DEF Follows
      <4> QED
        BY <4>1, <4>2
    <3> QED
      BY <3>1, <3>4 DEF r
  <2> HIDE DEF C
  <2>4. n \in C
    BY <2>1, <2>2, <2>3, Climbs
  <2> QED
    BY <2>4 DEF C
<1>5. ASSUME NEW k \in 1..HeapBlocks, p[k] # Null
      PROVE  /\ p[k - 1] # Null /\ p[k - 1] < p[k]
             /\ \A b \in L : b <= p[k - 1] \/ p[k] <= b
  <2>1. p[k - 1] # Null /\ p[k] = d[p[k - 1]].next
    BY <1>2, <1>5
  <2>2. k - 1 \in 0..HeapBlocks
    BY <1>1
  <2>3. p[k - 1] \in L
    BY <1>4, <2>1, <2>2
  <2>4. Follows(L, p[k - 1], p[k])
    BY <1>3, <2>1, <2>3
  <2> QED
    BY <1>5, <2>1, <2>4 DEF Follows
<1>6. p[HeapBlocks] = Null
  <2>1. HeapBlocks \in 0..HeapBlocks
    BY <1>1
  <2>2. p[HeapBlocks] \in L => FALSE
    <3>1. SUFFICES ASSUME p[HeapBlocks] \in L PROVE FALSE
      OBVIOUS
    <3>2. p[HeapBlocks] # Null /\ HeapBlocks <= p[HeapBlocks]
      BY <1>1, <1>4, <2>1, <3>1
    <3>3. p[HeapBlocks] \in 0..(HeapBlocks - 1)
      BY <1>1, <3>1
    <3> QED
      BY <1>1, <3>2, <3>3
  <2> QED
    BY <1>4, <2>1, <2>2
<1>7. ASSUME NEW a \in L PROVE \E k \in 0..(HeapBlocks - 1) : p[k] = a
  <2> DEFINE Bad == {b \in L : \A k \in 0..(HeapBlocks - 1) : p[k] # b}
  <2>1. SUFFICES ASSUME Bad # {} PROVE FALSE
    OBVIOUS
  <2>2. Bad \in SUBSET Nat
    BY <1>1
  <2>3. Min(Bad) \in Bad /\ \A b \in Bad : Min(Bad) <= b
    BY <2>1, <2>2, MinOfNats
  <2> DEFINE m == Min(Bad)
  <2>4. m \in L /\ (\A k \in 0..(HeapBlocks - 1) : p[k] # m) /\ \A b \in L : b \in Bad => m <= b
    BY <2>3
  <2> HIDE DEF m
  <2>5. \A b \in L : b < m => \E k \in 0..(HeapBlocks - 1) : p[k] = b
    BY <1>1, <2>4
  <2> HIDE DEF Bad
  <2>6. p[0] # m /\ h # m
    BY <1>1, <1>2, <2>4
  <2>7. h \in L /\ h < m
    BY <1>1, <1>3, <2>4, <2>6 DEF Follows
  <2> DEFINE Below == {b \in L : b < m}
             c == CHOOSE b \in Below : \A e \in Below : e <= b
  <2>8. \E b \in Below : \A e \in Below : e <= b
    <3> DEFINE Up == {b + 1 : b \in Below}
    <3>1. Up \in SUBSET (1..m) /\ Up # {} /\ m \in Int
      BY <1>1, <2>4, <2>7
    <3>2. Max(Up) \in Up /\ \A y \in Up : Max(Up) >= y
      BY <3>1, MaxOfNats
    <3>3. PICK b \in Below : Max(Up) = b + 1
      BY <3>2
    <3>4. ASSUME NEW e \in Below PROVE e <= b
      <4>1. e + 1 \in Up
        OBVIOUS
      <4>2. b + 1 >= e + 1
        BY <3>2, <3>3, <4>1
      <4> QED
        BY <1>1, <4>2
    <3> QED
      BY <3>4
  <2>9. c \in L /\ c < m /\ \A e \in L : e < m => e <= c
    BY <2>8
  <2> HIDE DEF c, Below
  <2>10. PICK k \in 0..(HeapBlocks - 1) : p[k] = c
    BY <2>5, <2>9
  <2>11. c # Null /\ Follows(L, c, d[c].next)
    BY <1>1, <1>3, <2>9
  <2>12. d[c].next = m
    BY <1>1, <2>4, <2>9, <2>11 DEF Follows
  <2>13. k + 1 \in 1..HeapBlocks /\ (k + 1) - 1 = k
    BY <1>1
  <2>14. p[k + 1] = m
    BY <1>2, <2>10, <2>11, <2>12, <2>13
  <2>15. k \in 0..HeapBlocks /\ k + 1 \in 0..HeapBlocks
    BY <1>1
  <2>16. m # Null /\ k + 1 <= m /\ m \in 0..(HeapBlocks - 1)
    BY <1>1, <1>4, <2>4, <2>14, <2>15
  <2>17. k + 1 \in 0..(HeapBlocks - 1)
    BY <1>1, <2>16
  <2> QED
    BY <2>4, <2>14, <2>17
<1> QED
  BY <1>4, <1>5, <1>6, <1>7 DEF Ascends

-------------------------------------------------------------------------------
(* Changing links leaves the segments as they are. *)
LEMMA LinksLaid ==
  ASSUME NEW d, NEW h, Laid(d, h), NEW e \in Descs, NEW g,
         \A a \in Addresses : e[a].size = d[a].size,
         g \in Segments(d) \cup {Null},
         \A a \in Segments(d) : /\ e[a].next \in Segments(d) \cup {Null}
                                /\ e[a].prev \in Segments(d) \cup {Null, Unset}
  PROVE  Laid(e, g) /\ Segments(e) = Segments(d)
<1>1. Segments(e) = Segments(d)
  BY DEF Segments
<1>2. \A a \in Segments(d) : a \in Addresses
  BY DEF Segments
<1> QED
  BY <1>1, <1>2 DEF Laid

(* A segment has at least one block.                                        *)
LEMMA SizeType ==
  ASSUME NEW d, NEW h, Laid(d, h), NEW a \in Segments(d)
  PROVE  /\ a \in Addresses /\ a \in 0..(HeapBlocks - 1) /\ d[a].size \in 1..HeapBlocks
         /\ d[a].next \in Segments(d) \cup {Null}
<1>1. a \in Addresses /\ d[a].size # 0
  BY DEF Segments
<1>2. d[a] \in Desc
  BY <1>1 DEF Laid, Descs
<1>3. d[a].size \in 0..HeapBlocks
  BY <1>2 DEF Desc
<1> QED
  BY <1>1, <1>3, HeapAssumption DEF Addresses, Laid

(* The distance tryToMerge adds is too short when a descriptor is shorter   *)
(* than a block, and right when it fills one.                               *)
LEMMA MergeTest ==
  ASSUME NEW d, NEW h, Laid(d, h), NEW main \in Segments(d), NEW other \in Segments(d),
         main * BlockSize + d[main].size * DescSize = other * BlockSize
  PROVE  DescSize = BlockSize /\ main + d[main].size = other
<1> DEFINE n == d[main].size
<1>1. main \in Nat /\ other \in Nat /\ n \in Nat \ {0}
  BY SizeType, HeapAssumption
<1>2. BlockSize \in Nat \ {0} /\ DescSize \in Nat \ {0} /\ DescSize <= BlockSize
  BY SizesAssumption
<1>3. main < other /\ DescSize < BlockSize => main + n <= other
  BY DEF Laid
<1>4. main * BlockSize + n * DescSize = other * BlockSize
  OBVIOUS
<1> HIDE DEF n
<1>5. /\ main * BlockSize = BlockSize * main /\ other * BlockSize = BlockSize * other
      /\ BlockSize * main \in Nat /\ BlockSize * other \in Nat /\ n * DescSize \in Nat
      /\ BlockSize * (main + n) = BlockSize * main + n * BlockSize
      /\ n * BlockSize \in Nat /\ n * DescSize >= DescSize
  BY <1>1, <1>2, SMT
<1>6. main < other
  <2>1. ~(main > other)
    BY <1>1, <1>2, <1>4, <1>5, Multiples
  <2>2. main # other
    BY <1>1, <1>2, <1>4, <1>5
  <2> QED
    BY <1>1, <2>1, <2>2
<1>7. DescSize = BlockSize
  <2>1. SUFFICES ASSUME DescSize < BlockSize PROVE FALSE
    BY <1>2
  <2>2. main + n <= other
    BY <1>3, <1>6, <2>1
  <2>3. n * BlockSize >= n * DescSize + n
    BY <1>1, <1>2, <2>1, Multiples
  <2>4. BlockSize * other >= BlockSize * (main + n)
    <3>1. CASE other = main + n
      BY <1>5, <3>1
    <3>2. CASE other > main + n
      <4>1. BlockSize * other >= BlockSize * (main + n) + BlockSize
        BY <1>1, <1>2, <3>2, Multiples
      <4> QED
        BY <1>1, <1>2, <1>5, <4>1
    <3> QED
      BY <1>1, <2>2, <3>1, <3>2
  <2> QED
    BY <1>1, <1>2, <1>4, <1>5, <2>3, <2>4
<1>8. BlockSize * (main + n) = BlockSize * other
  BY <1>4, <1>5, <1>7
<1>9. ~(main + n > other) /\ ~(other > main + n)
  BY <1>1, <1>2, <1>5, <1>8, Multiples
<1> QED
  BY <1>1, <1>7, <1>9 DEF n

(* tryToMerge of two segments. *)
LEMMA MergeLaid ==
  ASSUME NEW d, NEW h, Laid(d, h), NEW main \in Segments(d), NEW other \in Segments(d)
  PROVE  LET e == Merge(d, main, other) IN Laid(e, h) /\ Segments(e) = Segments(d)
<1> DEFINE e == Merge(d, main, other)
<1>1. CASE main * BlockSize + d[main].size * DescSize # other * BlockSize
  BY <1>1 DEF Merge
<1>2. CASE main * BlockSize + d[main].size * DescSize = other * BlockSize
  <2>1. DescSize = BlockSize /\ main + d[main].size = other
    BY <1>2, MergeTest
  <2>2. /\ main \in 0..(HeapBlocks - 1) /\ other \in 0..(HeapBlocks - 1)
        /\ d[main].size \in 1..HeapBlocks /\ d[other].size \in 1..HeapBlocks
        /\ main \in Addresses /\ other \in Addresses
    BY SizeType
  <2>3. other + d[other].size <= HeapBlocks /\ d \in Descs
    BY DEF Laid
  <2>4. /\ d[main].size + d[other].size \in 1..HeapBlocks
        /\ main + (d[main].size + d[other].size) <= HeapBlocks
    BY <2>1, <2>2, <2>3, HeapAssumption
  <2>5. d[main].size + d[other].size \in 0..HeapBlocks
    BY <2>4
  <2>6. /\ e \in Descs
        /\ \A a \in Addresses :
             /\ e[a].size = IF a = main THEN d[main].size + d[other].size ELSE d[a].size
             /\ e[a].next = IF a = main THEN d[other].next ELSE d[a].next
             /\ e[a].prev = IF a = d[other].next THEN main ELSE d[a].prev
    BY <1>2, <2>2, <2>3, <2>5, MergeIs
  <2> HIDE DEF e
  <2>7. d[main].size # 0 /\ d[main].size + d[other].size # 0
    BY <2>2, <2>4
  <2>8. Segments(e) = Segments(d)
    BY <2>2, <2>6, <2>7 DEF Segments
  <2>9. \A a \in Segments(d) : a \in Addresses
    BY DEF Segments
  <2>10. ASSUME NEW a \in Segments(d)
         PROVE  /\ a + e[a].size <= HeapBlocks
                /\ e[a].next \in Segments(d) \cup {Null}
                /\ e[a].prev \in Segments(d) \cup {Null, Unset}
    BY <2>4, <2>6, <2>9 DEF Laid
  <2>11. ~(DescSize < BlockSize)
    BY <2>1, SizesAssumption
  <2>12. Laid(e, h)
    BY <2>6, <2>8, <2>10, <2>11 DEF Laid
  <2> QED
    BY <2>8, <2>12 DEF e
<1> QED
  BY <1>1, <1>2

-------------------------------------------------------------------------------
(* Addresses are numbers, and Null is below them.                           *)
LEMMA AddressRange ==
  /\ HeapBlocks \in Nat \ {0} /\ Addresses = 0..(HeapBlocks - 1)
  /\ Null = -1 /\ Null \notin Addresses /\ \A a \in Addresses : a \in Nat /\ a # Null /\ -1 < a
  BY HeapAssumption DEF Addresses, Null

(* What precedes an element of the list, or the head when nothing does. *)
Points(L, d, h, e, g, c, r) ==
  \/ h = c /\ g = r /\ \A a \in L : a # c => e[a].next = d[a].next
  \/ /\ g = h /\ h # c
     /\ \E p \in L : /\ d[p].next = c /\ e[p].next = r
                     /\ \A a \in L : a # c /\ a # p => e[a].next = d[a].next

(* The same of the set that a list spells.                                  *)
LEMMA ListRange ==
  ASSUME NEW L \in SUBSET Addresses
  PROVE  /\ Null = -1 /\ Null \in Int /\ Null \notin L
         /\ \A a \in L : a \in Int /\ 0 <= a /\ -1 < a /\ a # -1 /\ ~(a <= -1)
  BY AddressRange

(* Only one pointer leads to an element of the list. *)
LEMMA OnePointer ==
  ASSUME NEW L \in SUBSET Addresses, NEW a \in L \cup {-1}, NEW b \in L \cup {-1}, NEW c \in L,
         Follows(L, a, c), Follows(L, b, c)
  PROVE  a = b
  BY AddressRange DEF Follows

(* A segment is unlinked: what pointed to it points behind it.              *)
LEMMA TakenSpelled ==
  ASSUME NEW L \in SUBSET Addresses, NEW d, NEW h, NEW e, NEW g, NEW c \in L,
         Spelled(L, d, h), Points(L, d, h, e, g, c, d[c].next)
  PROVE  Spelled(L \ {c}, e, g)
<1> DEFINE r == d[c].next
           K == L \ {c}
<1>1. /\ Null = -1 /\ Null \in Int /\ Null \notin L
      /\ \A b \in L : b \in Int /\ 0 <= b /\ -1 < b /\ b # -1 /\ ~(b <= -1)
  BY ListRange
<1>2. Follows(L, -1, h) /\ Follows(L, c, r) /\ \A a \in L : Follows(L, a, d[a].next)
  BY DEF Spelled
<1> HIDE DEF r
<1>3. ASSUME NEW a \in L \cup {-1}, Follows(L, a, c) PROVE Follows(K, a, r)
  BY <1>2, <1>3, <1>1 DEF Follows
<1>4. ASSUME NEW a \in L \cup {-1}, NEW x, Follows(L, a, x), x # c PROVE Follows(K, a, x)
  BY <1>4 DEF Follows
<1> HIDE DEF K
<1>5. \A a \in K : a \in L /\ a # c
  BY DEF K
<1>6. CASE h = c /\ g = r /\ \A a \in L : a # c => e[a].next = d[a].next
  <2>1. Follows(K, -1, g)
    BY <1>2, <1>3, <1>6
  <2>2. ASSUME NEW a \in K PROVE Follows(K, a, e[a].next)
    <3>1. a \in L /\ a # -1 /\ e[a].next = d[a].next /\ Follows(L, a, d[a].next)
      BY <1>2, <1>5, <1>6, AddressRange
    <3>2. d[a].next # c
      BY <1>2, <1>6, <3>1, OnePointer
    <3> QED
      BY <1>4, <3>1, <3>2
  <2> QED
    BY <2>1, <2>2 DEF Spelled, K
<1>7. ASSUME g = h, h # c, NEW p \in L, d[p].next = c, e[p].next = r,
             \A a \in L : a # c /\ a # p => e[a].next = d[a].next
      PROVE  Spelled(K, e, g)
  <2>1. Follows(K, -1, g)
    BY <1>2, <1>4, <1>7
  <2>2. ASSUME NEW a \in K PROVE Follows(K, a, e[a].next)
    <3>1. a \in L /\ a # c /\ Follows(L, a, d[a].next) /\ Follows(L, p, c)
      BY <1>2, <1>5, <1>7
    <3>2. CASE a = p
      BY <1>3, <1>7, <3>1, <3>2
    <3>3. CASE a # p
      <4>1. d[a].next # c
        BY <3>1, <3>3, OnePointer
      <4> QED
        BY <1>4, <1>7, <3>1, <3>3, <4>1
    <3> QED
      BY <3>2, <3>3
  <2> QED
    BY <2>1, <2>2 DEF Spelled
<1> QED
  BY <1>6, <1>7 DEF Points, r, K

(* The first part of a split segment is unlinked: what pointed to it        *)
(* points to the second part, which is where the whole one was.             *)
LEMMA ReplacedSpelled ==
  ASSUME NEW L \in SUBSET Addresses, NEW d, NEW h, NEW e, NEW g, NEW c \in L, NEW r \in Addresses,
         Spelled(L, d, h), Points(L, d, h, e, g, c, r), e[r].next = d[c].next,
         c < r, \A b \in L : b <= c \/ r < b
  PROVE  Spelled((L \ {c}) \cup {r}, e, g)
<1> DEFINE x == d[c].next
           K == (L \ {c}) \cup {r}
<1>1. /\ Null = -1 /\ Null \in Int /\ Null \notin L
      /\ \A b \in L : b \in Int /\ 0 <= b /\ -1 < b /\ b # -1 /\ ~(b <= -1)
      /\ r \in Int /\ 0 <= r /\ -1 < r /\ r # Null
  BY ListRange, AddressRange
<1>2. Follows(L, -1, h) /\ Follows(L, c, x) /\ \A a \in L : Follows(L, a, d[a].next)
  BY DEF Spelled
<1> HIDE DEF x
<1>3. r \notin L /\ \A a \in L : a < c => a < r
  BY AddressRange
<1>4. ASSUME NEW a \in L \cup {-1}, Follows(L, a, c) PROVE Follows(K, a, r)
  BY <1>3, <1>4, <1>1 DEF Follows
<1>5. ASSUME NEW a \in L \cup {-1}, NEW y, Follows(L, a, y), y # c, a # c PROVE Follows(K, a, y)
  <2>1. CASE y = Null
    <3>1. c < a \/ a = -1
      BY <1>5, <2>1, <1>1 DEF Follows
    <3>2. a # -1
      BY <1>5, <2>1, <1>1 DEF Follows
    <3> QED
      BY <1>5, <2>1, <3>1, <3>2, <1>1 DEF Follows
  <2>2. CASE y \in L
    <3>1. c <= a \/ y <= c
      BY <1>5, <2>2, <1>1 DEF Follows
    <3> QED
      BY <1>3, <1>5, <2>2, <3>1, <1>1 DEF Follows
  <2> QED
    BY <1>5, <2>1, <2>2 DEF Follows
<1>6. Follows(K, r, x)
  <2>1. \A b \in K : b <= c => b <= r
    BY <1>1
  <2>2. CASE x = Null
    <3>1. \A b \in L : b <= c
      BY <1>2, <1>1, <2>2 DEF Follows
    <3> QED
      BY <1>1, <2>1, <2>2, <3>1 DEF Follows
  <2>3. CASE x \in L
    <3>1. c < x /\ \A b \in L : b <= c \/ x <= b
      BY <1>2, <1>1, <2>3 DEF Follows
    <3>2. r < x
      BY <1>1, <2>3, <3>1
    <3> QED
      BY <1>1, <2>1, <2>3, <3>1, <3>2 DEF Follows
  <2> QED
    BY <1>2, <2>2, <2>3 DEF Follows
<1>7. \A a \in K : a = r \/ (a \in L /\ a # c)
  OBVIOUS
<1> HIDE DEF K
<1>8. CASE h = c /\ g = r /\ \A a \in L : a # c => e[a].next = d[a].next
  <2>1. Follows(K, -1, g)
    BY <1>2, <1>4, <1>8
  <2>2. ASSUME NEW a \in K, a # r PROVE Follows(K, a, e[a].next)
    <3>1. a \in L /\ a # c /\ a # -1 /\ e[a].next = d[a].next /\ Follows(L, a, d[a].next)
      BY <1>2, <1>7, <1>8, <2>2, AddressRange
    <3>2. d[a].next # c
      BY <1>2, <1>8, <3>1, OnePointer
    <3> QED
      BY <1>5, <3>1, <3>2
  <2> QED
    BY <1>6, <2>1, <2>2 DEF Spelled, K, x
<1>9. ASSUME g = h, h # c, NEW p \in L, d[p].next = c, e[p].next = r,
             \A a \in L : a # c /\ a # p => e[a].next = d[a].next
      PROVE  Spelled(K, e, g)
  <2>1. Follows(K, -1, g)
    <3>1. c # -1
      BY AddressRange
    <3> QED
      BY <1>2, <1>5, <1>9, <3>1
  <2>2. ASSUME NEW a \in K, a # r PROVE Follows(K, a, e[a].next)
    <3>1. a \in L /\ a # c /\ Follows(L, a, d[a].next) /\ Follows(L, p, c)
      BY <1>2, <1>7, <1>9, <2>2
    <3>2. CASE a = p
      BY <1>4, <1>9, <3>1, <3>2
    <3>3. CASE a # p
      <4>1. d[a].next # c
        BY <3>1, <3>3, OnePointer
      <4> QED
        BY <1>5, <1>9, <3>1, <3>3, <4>1
    <3> QED
      BY <3>2, <3>3
  <2> QED
    BY <1>6, <2>1, <2>2 DEF Spelled, x
<1> QED
  BY <1>8, <1>9 DEF Points, K

(* A segment is linked in between what pointed to x and x itself, which is  *)
(* Null at the end.                                                         *)
LEMMA LinkedSpelled ==
  ASSUME NEW L \in SUBSET Addresses, NEW d, NEW h, NEW e, NEW g,
         NEW t \in Addresses \ L, NEW a \in L \cup {-1}, NEW x,
         Spelled(L, d, h), a < t, x = Null \/ (x \in L /\ t < x),
         IF a = -1 THEN h = x /\ g = t ELSE d[a].next = x /\ e[a].next = t /\ g = h,
         e[t].next = x, \A b \in L : b # a => e[b].next = d[b].next
  PROVE  Spelled(L \cup {t}, e, g)
<1> DEFINE K == L \cup {t}
<1>1. /\ Null = -1 /\ Null \in Int /\ Null \notin L
      /\ \A b \in L : b \in Int /\ 0 <= b /\ -1 < b /\ b # -1 /\ ~(b <= -1)
      /\ t \in Int /\ 0 <= t /\ -1 < t /\ t # Null
  BY ListRange, AddressRange
<1>2. Follows(L, -1, h) /\ \A b \in L : Follows(L, b, d[b].next)
  BY DEF Spelled
<1>3. Follows(L, a, x)
  BY <1>2, AddressRange
<1>4. x = Null \/ (x \in L /\ x \in Int /\ t < x)
  BY <1>1
<1>5. Follows(K, a, t) /\ Follows(K, t, x)
  <2>1. \A b \in L : b <= a \/ t <= b
    BY <1>3, <1>1, <1>4 DEF Follows
  <2>2. \A b \in L : b <= t \/ (x # Null /\ x <= b)
    BY <1>3, <1>1, <1>4 DEF Follows
  <2> QED
    BY <1>1, <1>4, <2>1, <2>2 DEF Follows
<1>6. ASSUME NEW b \in L \cup {-1}, NEW y, Follows(L, b, y), b # a PROVE Follows(K, b, y)
  <2>1. b < a \/ a < b
    BY <1>6, AddressRange
  <2>2. a < b => x # Null /\ x <= b
    BY <1>3, <1>6, <1>1 DEF Follows
  <2>3. b < a => y \in L /\ y <= a
    BY <1>6, <1>1 DEF Follows
  <2>4. CASE a < b
    <3>1. t < b
      BY <1>1, <1>4, <2>2, <2>4
    <3> QED
      BY <1>6, <3>1, <1>1 DEF Follows
  <2>5. CASE b < a
    <3>1. y \in L /\ y < t
      <4>1. y \in L /\ y <= a
        BY <2>3, <2>5
      <4>2. y \in Int /\ a \in Int /\ t \in Int /\ a < t
        BY <1>1, <4>1
      <4> QED
        BY <4>1, <4>2
    <3> QED
      BY <1>6, <3>1, <1>1 DEF Follows
  <2> QED
    BY <2>1, <2>4, <2>5
<1> HIDE DEF K
<1>7. Follows(K, -1, g)
  BY <1>2, <1>5, <1>6
<1>8. ASSUME NEW b \in L PROVE Follows(K, b, e[b].next)
  <2>1. CASE b = a
    BY <1>5, <2>1, AddressRange
  <2>2. CASE b # a
    BY <1>2, <1>6, <2>2
  <2> QED
    BY <2>1, <2>2
<1> QED
  BY <1>5, <1>7, <1>8 DEF Spelled, K

-------------------------------------------------------------------------------
(* The type of the history held. *)
HeldType(H, d) == H \subseteq Segments(d) \X (1..HeapBlocks) \X Requests

(* The segments held after one is handed out.                               *)
LEMMA HeadsWith ==
  ASSUME NEW H, NEW c, NEW n, NEW r
  PROVE  Heads(H \cup {<<c, n, r>>}) = Heads(H) \cup {c}
<1>1. <<c, n, r>>[1] = c
  OBVIOUS
<1> DEFINE u == <<c, n, r>>
<1> HIDE DEF u
<1> QED
  BY <1>1 DEF Heads, u

(* Every held segment is a segment.                                         *)
LEMMA HeadsAre ==
  ASSUME NEW d, NEW H, HeldType(H, d)
  PROVE  /\ Heads(H) \subseteq Segments(d)
         /\ \A s \in H : s[1] \in Heads(H) /\ s[1] \in Segments(d)
         /\ \A s \in H : (\A t \in H : t[1] = s[1] => t = s)
                         => Heads(H \ {s}) = Heads(H) \ {s[1]}
<1>1. \A s \in H : s[1] \in Heads(H) /\ s[1] \in Segments(d)
  BY DEF HeldType, Heads
<1>2. Heads(H) \subseteq Segments(d)
  BY <1>1 DEF Heads
<1>3. ASSUME NEW s \in H, \A t \in H : t[1] = s[1] => t = s
      PROVE  Heads(H \ {s}) = Heads(H) \ {s[1]}
  BY <1>3 DEF Heads
<1> QED
  BY <1>1, <1>2, <1>3

(* The segments of A are the heap. *)
Covers(A, d) ==
  /\ \A a, b \in A : a < b => a + d[a].size <= b
  /\ \A x \in Addresses : \E a \in A : a <= x /\ x < a + d[a].size

(* What is held is as large as asked for. *)
Fitting(L, d, H) ==
  /\ \A s \in H : s[1] \notin L /\ d[s[1]].size = s[2] /\ DescSize + s[3] <= s[2] * BlockSize
  /\ \A s, t \in H : s[1] = t[1] => s = t

(* Tiled in two parts: one about each held segment, one about the set of    *)
(* all the segments, whoever has them.                                      *)
LEMMA TiledParts ==
  ASSUME NEW L, NEW d, NEW H
  PROVE  Tiled(L, d, H) <=> Fitting(L, d, H) /\ Covers(Starts(L, H), d)
  BY DEF Tiled, Fitting, Covers

(* Handing out a segment that is large enough.                              *)
LEMMA TakeFits ==
  ASSUME NEW L, NEW d, NEW H, NEW K, NEW e, NEW c, NEW n, NEW r,
         Fitting(L, d, H), HeldType(H, d), c \in L, \A k \in K : k \notin Heads(H) /\ k # c,
         \A s \in H : e[s[1]].size = d[s[1]].size, e[c].size = n,
         DescSize + r <= n * BlockSize
  PROVE  Fitting(K, e, H \cup {<<c, n, r>>})
<1> DEFINE u == <<c, n, r>>
<1>1. u[1] = c /\ u[2] = n /\ u[3] = r
  OBVIOUS
<1> HIDE DEF u
<1>2. \A s \in H : s[1] # c
  BY DEF Fitting
<1>3. \A s \in H : s[1] \notin K
  BY HeadsAre
<1>4. c \notin K
  OBVIOUS
<1>5. ASSUME NEW s \in H \cup {u}
      PROVE  s[1] \notin K /\ e[s[1]].size = s[2] /\ DescSize + s[3] <= s[2] * BlockSize
  BY <1>1, <1>3, <1>4 DEF Fitting
<1>6. ASSUME NEW s \in H \cup {u}, NEW t \in H \cup {u}, s[1] = t[1] PROVE s = t
  BY <1>1, <1>2, <1>6 DEF Fitting
<1> QED
  BY <1>5, <1>6 DEF Fitting, u

(* A whole segment is taken off the list. *)
LEMMA TakeTiled ==
  ASSUME NEW d, NEW h, NEW L, NEW H, NEW e, NEW c \in L, NEW n \in Nat \ {0}, NEW r,
         Laid(d, h), L \subseteq Segments(d), HeldType(H, d), Tiled(L, d, H),
         \A a \in Addresses : e[a].size = d[a].size,
         n <= d[c].size, ~(n < d[c].size), DescSize + r <= n * BlockSize
  PROVE  Tiled(L \ {c}, e, H \cup {<<c, n, r>>})
<1>1. Fitting(L, d, H) /\ Covers(Starts(L, H), d)
  BY TiledParts
<1>2. \A a \in Segments(d) : a \in Addresses
  BY DEF Segments
<1>3. Heads(H) \subseteq Segments(d) /\ Heads(H \cup {<<c, n, r>>}) = Heads(H) \cup {c}
  <2>1. Heads(H) \subseteq Segments(d)
    BY HeadsAre
  <2>2. Heads(H \cup {<<c, n, r>>}) = Heads(H) \cup {c}
    BY HeadsWith
  <2> QED
    BY <2>1, <2>2
<1>4. \A k \in L : k \notin Heads(H)
  BY <1>1 DEF Fitting, Heads
<1>5. \A s \in H : e[s[1]].size = d[s[1]].size
  BY <1>2, HeadsAre
<1>6. Fitting(L \ {c}, e, H \cup {<<c, n, r>>})
  <2>1. d[c].size \in Nat /\ c \in Addresses
    BY SizeType, HeapAssumption
  <2>2. e[c].size = n
    BY <2>1
  <2> QED
    BY <1>1, <1>2, <1>4, <1>5, <2>2, TakeFits
<1>7. Starts(L \ {c}, H \cup {<<c, n, r>>}) = Starts(L, H)
  BY <1>3 DEF Starts
<1>8. \A a \in Starts(L, H) : e[a].size = d[a].size
  BY <1>2, <1>3 DEF Starts
<1>9. Covers(Starts(L, H), e)
  BY <1>1, <1>8 DEF Covers
<1> QED
  BY <1>6, <1>7, <1>9, TiledParts

(* Splitting a segment keeps segments apart. *)
Apart(A, d) == \A a, b \in A : a < b => a + d[a].size <= b

(* The sizes in d and in e, where f is the rest of the segment c of A.      *)
SplitSizes(A, d, e, c, n, f) ==
  /\ A \in SUBSET Nat /\ c \in A /\ n \in Nat \ {0} /\ f \in Nat
  /\ Apart(A, d) /\ \A a \in A : d[a].size \in Nat
  /\ n < d[c].size /\ f = c + n
  /\ e[c].size = n /\ e[f].size = d[c].size - n
  /\ \A a \in A : a # c /\ a # f => e[a].size = d[a].size

(* A set of segments that covers the heap does so after one is cut in two.  *)
LEMMA SplitApart ==
  ASSUME NEW A, NEW d, NEW e, NEW c, NEW n, NEW f, SplitSizes(A, d, e, c, n, f)
  PROVE  /\ Apart(A \cup {f}, e) /\ f \notin A
         /\ \A b \in A : (b <= c \/ f < b) /\ (c < b => c + d[c].size <= b)
<1> DEFINE z == d[c].size
<1>1. /\ c \in Nat /\ z \in Nat /\ f \in Nat /\ c < f /\ f < c + z
      /\ \A a \in A : a \in Nat /\ d[a].size \in Nat
  <2>1. c \in Nat /\ z \in Nat /\ n \in Nat \ {0} /\ n < z /\ f = c + n
    BY DEF SplitSizes
  <2> HIDE DEF z
  <2>2. c < f /\ f < c + z /\ f \in Nat
    BY <2>1
  <2>3. \A a \in A : a \in Nat /\ d[a].size \in Nat
    BY DEF SplitSizes
  <2> QED
    BY <2>1, <2>2, <2>3
<1>2. \A a, b \in A : a < b => a + d[a].size <= b
  BY DEF Apart, SplitSizes
<1>3. /\ z - n \in Nat /\ f + (z - n) = c + z /\ e[c].size = n /\ e[f].size = z - n
      /\ n \in Nat /\ f = c + n
  <2>1. n \in Nat \ {0} /\ n < z /\ f = c + n /\ e[c].size = n /\ e[f].size = z - n
    BY DEF SplitSizes
  <2> HIDE DEF z
  <2> QED
    BY <1>1, <2>1
<1>4. \A b \in A : c < b => c + z <= b
  BY <1>2 DEF SplitSizes
<1>5. c \in A /\ \A a \in A : a # c /\ a # f => e[a].size = d[a].size
  BY DEF SplitSizes
<1> HIDE DEF z
<1>6. \A b \in A : b <= c \/ f < b
  BY <1>1, <1>4
<1>7. f \notin A
  BY <1>1, <1>6
<1>8. ASSUME NEW a \in A \cup {f}, NEW b \in A \cup {f}, a < b PROVE a + e[a].size <= b
  <2>1. CASE a = f
    <3>1. b \in A /\ c < b
      <4>1. f \in Nat /\ c \in Nat /\ c < f /\ f < b
        BY <1>1, <1>8, <2>1
      <4>2. b \in A
        BY <1>8, <4>1
      <4>3. b \in Nat
        BY <1>1, <4>2
      <4> QED
        BY <4>1, <4>2, <4>3
    <3> QED
      BY <1>3, <1>4, <2>1, <3>1
  <2>2. CASE a = c
    <3>1. f <= b
      BY <1>1, <1>6, <1>8, <2>2
    <3> QED
      BY <1>3, <2>2, <3>1
  <2>3. CASE a # f /\ a # c
    <3>1. a \in A /\ e[a].size = d[a].size
      BY <1>8, <1>5, <2>3
    <3>2. CASE b = f
      <4>1. a < c
        <5>1. a \in Nat /\ a <= c /\ a # c
          BY <1>1, <1>6, <1>8, <2>3, <3>1, <3>2
        <5> QED
          BY <1>1, <5>1
      <4>2. a + d[a].size <= c
        BY <1>5, <1>2, <3>1, <4>1
      <4> QED
        BY <1>1, <3>1, <3>2, <4>2
    <3>3. CASE b # f
      BY <1>2, <1>8, <3>1, <3>3
    <3> QED
      BY <3>2, <3>3
  <2> QED
    BY <2>1, <2>2, <2>3
<1> QED
  BY <1>4, <1>6, <1>7, <1>8 DEF Apart, z

(* The front of a segment is taken off the list, n blocks of c for r bytes. *)
CutsOff(L, d, h, H, e, c, n, r) ==
  /\ Laid(d, h) /\ L \subseteq Segments(d) /\ HeldType(H, d) /\ Tiled(L, d, H)
  /\ c \in L /\ n \in Nat \ {0} /\ n < d[c].size /\ DescSize + r <= n * BlockSize
  /\ \A a \in Addresses : e[a].size = IF a = c THEN n
                                        ELSE IF a = c + n THEN d[c].size - n ELSE d[a].size

(* The first part of a segment of the list is handed out.                   *)
LEMMA SplitTiled ==
  ASSUME NEW d, NEW h, NEW L, NEW H, NEW e, NEW c, NEW n, NEW r, CutsOff(L, d, h, H, e, c, n, r)
  PROVE  /\ Tiled((L \ {c}) \cup {c + n}, e, H \cup {<<c, n, r>>})
         /\ c + n \in Addresses /\ c + n \notin Starts(L, H)
         /\ \A b \in L : b <= c \/ c + n < b
<1> DEFINE f == c + n
<1> SUFFICES ASSUME Laid(d, h), L \subseteq Segments(d), HeldType(H, d), Tiled(L, d, H),
                    c \in L, n \in Nat \ {0}, n < d[c].size, DescSize + r <= n * BlockSize,
                    \A a \in Addresses : e[a].size =
                      IF a = c THEN n ELSE IF a = f THEN d[c].size - n ELSE d[a].size
             PROVE  /\ Tiled((L \ {c}) \cup {f}, e, H \cup {<<c, n, r>>})
                    /\ f \in Addresses /\ f \notin Starts(L, H)
                    /\ \A b \in L : b <= c \/ f < b
  BY DEF CutsOff
<1>1. Fitting(L, d, H) /\ Covers(Starts(L, H), d)
  BY TiledParts
<1>2. \A a \in Segments(d) : a \in Addresses /\ a \in Nat /\ d[a].size \in Nat
  BY SizeType, HeapAssumption
<1>3. Heads(H) \subseteq Segments(d) /\ Heads(H \cup {<<c, n, r>>}) = Heads(H) \cup {c}
  <2>1. Heads(H) \subseteq Segments(d)
    BY HeadsAre
  <2>2. Heads(H \cup {<<c, n, r>>}) = Heads(H) \cup {c}
    BY HeadsWith
  <2> QED
    BY <2>1, <2>2
<1>4. \A k \in L : k \notin Heads(H)
  BY <1>1 DEF Fitting, Heads
<1> DEFINE A == Starts(L, H)
           z == d[c].size
<1>5. /\ c \in A /\ c \in Nat /\ z \in Nat /\ f \in Nat /\ c < f /\ f < c + z
      /\ \A a \in A : a \in Nat /\ a \in Addresses /\ d[a].size \in Nat
  BY <1>2, <1>3 DEF Starts
<1>6. f \in Addresses
  <2>1. c + z <= HeapBlocks
    BY DEF Laid
  <2> QED
    BY <1>5, <2>1, HeapAssumption DEF Addresses
<1>7. /\ \A a, b \in A : a < b => a + d[a].size <= b
      /\ \A x \in Addresses : \E a \in A : a <= x /\ x < a + d[a].size
  BY <1>1 DEF Covers
<1>8. c + z = c + d[c].size /\ z - n \in Nat /\ f + (z - n) = c + z
  BY <1>5
<1>9. Apart(A \cup {f}, e) /\ f \notin A /\ \A b \in A : b <= c \/ f < b
  <2>1. A \in SUBSET Nat /\ Apart(A, d)
    BY <1>5, <1>7 DEF Apart
  <2>2. e[c].size = n /\ e[f].size = d[c].size - n
    BY <1>5, <1>6
  <2>3. \A a \in A : a # c /\ a # f => e[a].size = d[a].size
    BY <1>5
  <2>4. c \in A /\ f \in Nat /\ f = c + n /\ n < d[c].size /\ \A a \in A : d[a].size \in Nat
    BY <1>5
  <2> HIDE DEF A, z, f
  <2>5. SplitSizes(A, d, e, c, n, f)
    BY <2>1, <2>2, <2>3, <2>4 DEF SplitSizes
  <2>6. /\ Apart(A \cup {f}, e) /\ f \notin A
        /\ \A b \in A : (b <= c \/ f < b) /\ (c < b => c + d[c].size <= b)
    BY <2>5, SplitApart
  <2> QED
    BY <2>6
<1> HIDE DEF z, A
<1>10. \A b \in A : b <= c \/ f < b
  BY <1>9
<1>11. f \notin A
  BY <1>9
<1>12. \A a \in A : a # c => e[a].size = d[a].size
  BY <1>5, <1>11
<1>13. e[c].size = n /\ e[f].size = z - n
  BY <1>5, <1>6 DEF z
<1>14. \A s \in H : e[s[1]].size = d[s[1]].size
  <2> SUFFICES ASSUME NEW s \in H PROVE e[s[1]].size = d[s[1]].size
    OBVIOUS
  <2>1. s[1] \in Heads(H)
    BY HeadsAre
  <2>2. s[1] \in A /\ s[1] # c
    BY <1>4, <2>1 DEF A, Starts
  <2> QED
    BY <1>12, <2>2
<1>15. \A k \in (L \ {c}) \cup {f} : k \notin Heads(H) /\ k # c
  BY <1>4, <1>5, <1>11 DEF A, Starts
<1>16. Fitting((L \ {c}) \cup {f}, e, H \cup {<<c, n, r>>})
  BY <1>1, <1>13, <1>14, <1>15, TakeFits
<1>17. Starts((L \ {c}) \cup {f}, H \cup {<<c, n, r>>}) = A \cup {f}
  BY <1>3 DEF A, Starts
<1>18. Covers(A \cup {f}, e)
  <2>1. \A a, b \in A \cup {f} : a < b => a + e[a].size <= b
    BY <1>9 DEF Apart
  <2>2. ASSUME NEW x \in Addresses PROVE \E a \in A \cup {f} : a <= x /\ x < a + e[a].size
    <3>1. PICK a \in A : a <= x /\ x < a + d[a].size
      BY <1>7
    <3>2. x \in Int
      BY HeapAssumption DEF Addresses
    <3>3. CASE a # c
      BY <1>12, <3>1, <3>3
    <3>4. CASE a = c
      <4>1. c <= x /\ x < c + z
        BY <1>8, <3>1, <3>4
      <4>2. CASE x < f
        BY <1>5, <1>13, <4>1, <4>2
      <4>3. CASE ~(x < f)
        BY <1>5, <1>8, <1>13, <3>2, <4>1, <4>3
      <4> QED
        BY <4>2, <4>3
    <3> QED
      BY <3>3, <3>4
  <2> QED
    BY <2>1, <2>2 DEF Covers
<1>19. \A b \in L : b <= c \/ f < b
  BY <1>10 DEF A, Starts
<1> QED
  BY <1>6, <1>11, <1>16, <1>17, <1>18, <1>19, TiledParts DEF A

(* A held segment is put back. *)
LEMMA GiveTiled ==
  ASSUME NEW d, NEW h, NEW L, NEW H, NEW e, NEW s \in H,
         Laid(d, h), L \subseteq Segments(d), HeldType(H, d), Tiled(L, d, H),
         \A a \in Addresses : e[a].size = d[a].size
  PROVE  Tiled(L \cup {s[1]}, e, H \ {s}) /\ s[1] \notin L
<1>1. Fitting(L, d, H) /\ Covers(Starts(L, H), d)
  BY TiledParts
<1>2. \A a \in Segments(d) : a \in Addresses
  BY DEF Segments
<1>3. \A t \in H : t[1] = s[1] => t = s
  BY <1>1 DEF Fitting
<1>4. /\ Heads(H) \subseteq Segments(d) /\ s[1] \in Heads(H)
      /\ Heads(H \ {s}) = Heads(H) \ {s[1]}
  BY <1>3, HeadsAre
<1>5. Starts(L \cup {s[1]}, H \ {s}) = Starts(L, H)
  BY <1>4 DEF Starts
<1>6. \A a \in Starts(L, H) : e[a].size = d[a].size
  BY <1>2, <1>4 DEF Starts
<1>7. Covers(Starts(L, H), e)
  BY <1>1, <1>6 DEF Covers
<1>8. \A t \in H : e[t[1]].size = d[t[1]].size
  BY <1>2, HeadsAre
<1>9. Fitting(L \cup {s[1]}, e, H \ {s})
  BY <1>1, <1>3, <1>8 DEF Fitting
<1> QED
  BY <1>1, <1>5, <1>7, <1>9, TiledParts DEF Fitting

-------------------------------------------------------------------------------
(* tryToMerge of a segment and the one behind it in the list. *)
Keeps(L, d, e, h, H, main, other, M) ==
  /\ M \subseteq L /\ Sound(M, e, h, H)
  /\ \A b \in L : b # other => b \in M
  /\ \A b \in L : b # main => e[b].next = d[b].next
  /\ \A b \in L : d[other].next # b => e[b].prev = d[b].prev

(* tryToMerge of two neighbours in the list keeps it sound, with other      *)
(* taken out of the set.                                                    *)
LEMMA MergeSound ==
  ASSUME NEW d, NEW h, NEW L, NEW H, Laid(d, h), HeldType(H, d), Sound(L, d, h, H),
         NEW main \in L, NEW other \in L, d[main].next = other
  PROVE  \E M : Keeps(L, d, Merge(d, main, other), h, H, main, other, M)
<1>1. /\ L \subseteq Segments(d) /\ L \in SUBSET Addresses /\ Spelled(L, d, h) /\ Tiled(L, d, H)
      /\ main \in Segments(d) /\ other \in Segments(d)
  BY DEF Sound, Segments
<1>2. CASE main * BlockSize + d[main].size * DescSize # other * BlockSize
  <2>1. Merge(d, main, other) = d
    BY <1>2 DEF Merge
  <2>2. Keeps(L, d, d, h, H, main, other, L)
    BY DEF Keeps
  <2> QED
    BY <2>1, <2>2
<1>3. CASE main * BlockSize + d[main].size * DescSize = other * BlockSize
  <2> DEFINE e == Merge(d, main, other)
             M == L \ {other}
  <2>1. main + d[main].size = other
    BY <1>1, <1>3, MergeTest
  <2>2. /\ main \in 0..(HeapBlocks - 1) /\ other \in 0..(HeapBlocks - 1)
        /\ d[main].size \in 1..HeapBlocks /\ d[other].size \in 1..HeapBlocks
        /\ main \in Addresses /\ other \in Addresses
    BY <1>1, SizeType
  <2>3. other + d[other].size <= HeapBlocks /\ d \in Descs
    BY <1>1 DEF Laid
  <2>4. d[main].size + d[other].size \in 0..HeapBlocks
    BY <2>1, <2>2, <2>3, HeapAssumption
  <2>5. \A a \in Addresses :
          /\ e[a].size = IF a = main THEN d[main].size + d[other].size ELSE d[a].size
          /\ e[a].next = IF a = main THEN d[other].next ELSE d[a].next
          /\ e[a].prev = IF a = d[other].next THEN main ELSE d[a].prev
    BY <1>3, <2>2, <2>3, <2>4, MergeIs
  <2>6. Laid(e, h) /\ Segments(e) = Segments(d)
    BY <1>1, MergeLaid
  <2> HIDE DEF e
  <2>7. main < other /\ main # other
    BY <2>1, <2>2, HeapAssumption
  <2>8. Spelled(M, e, h)
    <3>1. Follows(L, -1, h) /\ Follows(L, main, other)
      BY <1>1 DEF Spelled
    <3>2. h # other
      <4>1. SUFFICES ASSUME h = other PROVE FALSE
        OBVIOUS
      <4>2. -1 = main
        BY <1>1, <3>1, <4>1, OnePointer
      <4> QED
        BY <1>1, <4>2, AddressRange
    <3>3. e[main].next = d[other].next /\ \A a \in L : a # main => e[a].next = d[a].next
      BY <1>1, <2>2, <2>5
    <3>4. Points(L, d, h, e, h, other, d[other].next)
      BY <3>2, <3>3 DEF Points
    <3> QED
      BY <1>1, <3>4, TakenSpelled
  <2>9. Tiled(M, e, H)
    <3>1. Fitting(L, d, H) /\ Covers(Starts(L, H), d)
      BY <1>1, TiledParts
    <3> DEFINE A == Starts(L, H)
               z == d[main].size
               y == d[other].size
    <3>2. \A k \in L : k \notin Heads(H)
      BY <3>1 DEF Fitting, Heads
    <3>3. A \subseteq Segments(d) /\ main \in A /\ other \in A
      BY <1>1, HeadsAre DEF Starts
    <3>4. \A a \in A : a \in Addresses /\ a \in Int /\ d[a].size \in Int
      BY <3>3, SizeType, HeapAssumption
    <3>5. Starts(M, H) = A \ {other}
      BY <3>2 DEF Starts
    <3>6. /\ \A a, b \in A : a < b => a + d[a].size <= b
          /\ \A x \in Addresses : \E a \in A : a <= x /\ x < a + d[a].size
      BY <3>1 DEF Covers
    <3>7. /\ e[main].size = z + y /\ \A a \in A : a # main => e[a].size = d[a].size
          /\ main + z = other /\ z \in Nat /\ y \in Nat /\ main \in Int /\ other \in Int
      BY <2>1, <2>2, <2>5, <3>4, HeapAssumption
    <3>8. \A b \in A : main < b /\ b # other => other + y <= b
      <4>1. ASSUME NEW b \in A, main < b, b # other PROVE other + y <= b
        <5>1. other <= b
          BY <3>3, <3>6, <3>7, <4>1
        <5>2. other < b
          BY <3>4, <3>7, <4>1, <5>1
        <5> QED
          BY <3>3, <3>6, <5>2
      <4> QED
        BY <4>1
    <3>9. \A x \in Addresses : x \in Int
      BY AddressRange
    <3> HIDE DEF A
    <3>10. main + d[main].size = other /\ other + d[other].size = other + y
      BY <2>1
    <3> HIDE DEF z, y
    <3>11. Covers(A \ {other}, e)
      <4>1. ASSUME NEW a \in A \ {other}, NEW b \in A \ {other}, a < b
            PROVE  a + e[a].size <= b
        <5>1. CASE a = main
          BY <3>4, <3>7, <3>8, <4>1, <5>1
        <5>2. CASE a # main
          BY <3>6, <3>7, <4>1, <5>2
        <5> QED
          BY <5>1, <5>2
      <4>2. ASSUME NEW x \in Addresses
            PROVE  \E a \in A \ {other} : a <= x /\ x < a + e[a].size
        <5>1. PICK a \in A : a <= x /\ x < a + d[a].size
          BY <3>6
        <5>2. CASE a # main /\ a # other
          BY <3>7, <5>1, <5>2
        <5>3. CASE a = main
          <6>1. main <= x /\ x < main + e[main].size
            BY <3>7, <3>9, <3>10, <5>1, <5>3
          <6> QED
            BY <2>7, <3>3, <6>1
        <5>4. CASE a = other
          <6>1. main <= x /\ x < main + e[main].size
            BY <2>7, <3>7, <3>9, <3>10, <5>1, <5>4
          <6> QED
            BY <2>7, <3>3, <6>1
        <5> QED
          BY <5>2, <5>3, <5>4
      <4> QED
        BY <4>1, <4>2 DEF Covers
    <3>12. Fitting(M, e, H)
      <4>1. ASSUME NEW s \in H PROVE s[1] \notin L /\ e[s[1]].size = d[s[1]].size
        <5>1. s[1] \in Heads(H) /\ s[1] \notin L
          BY <3>2, HeadsAre
        <5>2. s[1] \in A /\ s[1] # main
          BY <5>1 DEF A, Starts
        <5> QED
          BY <3>7, <5>1, <5>2
      <4> QED
        BY <3>1, <4>1 DEF Fitting
    <3> QED
      BY <3>5, <3>11, <3>12, TiledParts
  <2>10. M \subseteq Segments(e)
    BY <1>1, <2>6
  <2>11. \A b \in L : b \in Addresses
    BY <1>1
  <2>12. Keeps(L, d, e, h, H, main, other, M)
    BY <2>5, <2>8, <2>9, <2>10, <2>11 DEF Keeps, Sound
  <2> QED
    BY <2>12 DEF e
<1> QED
  BY <1>2, <1>3

-------------------------------------------------------------------------------
(* The callers ask for enough blocks. *)
LEMMA BlocksSuffice ==
  ASSUME NEW bytes \in Requests
  PROVE  BlocksFor(bytes) \in Nat \ {0} /\ DescSize + bytes <= BlocksFor(bytes) * BlockSize
<1> DEFINE all == bytes + DescSize
           q == all \div BlockSize
<1>1. bytes \in Nat /\ BlockSize \in Nat \ {0} /\ DescSize \in Nat \ {0} /\ all \in Nat \ {0}
  BY SizesAssumption
<1>2. q \in Nat /\ q * BlockSize <= all /\ all < q * BlockSize + BlockSize
  BY <1>1, DivBounds
<1>3. all = BlockSize * q + (all % BlockSize)
  BY <1>1, SMT
<1>4. BlocksFor(bytes) = IF all % BlockSize = 0 THEN q ELSE q + 1
  BY DEF BlocksFor
<1>5. DescSize + bytes = all
  BY <1>1
<1> HIDE DEF all, q
<1>6. /\ BlockSize * q = q * BlockSize /\ (q + 1) * BlockSize = q * BlockSize + BlockSize
      /\ q * BlockSize \in Nat
  BY <1>1, <1>2, SMT
<1>7. CASE all % BlockSize = 0
  <2>1. all = q * BlockSize
    BY <1>1, <1>2, <1>3, <1>6, <1>7
  <2>2. q # 0
    BY <1>1, <2>1, SMT
  <2> QED
    BY <1>1, <1>2, <1>4, <1>5, <1>7, <2>1, <2>2
<1>8. CASE all % BlockSize # 0
  <2>1. BlocksFor(bytes) = q + 1
    BY <1>4, <1>8
  <2> QED
    BY <1>1, <1>2, <1>5, <1>6, <2>1
<1> QED
  BY <1>7, <1>8

(* A split keeps the descriptors right.                                     *)
LEMMA SplitLaid ==
  ASSUME NEW h, Laid(desc, h), NEW c \in Segments(desc), NEW n \in Nat \ {0}, n < desc[c].size
  PROVE  LET e == Split(n, c)
         IN  /\ Laid(e, h) /\ Segments(e) = Segments(desc) \cup {c + n}
             /\ c + n \in Addresses
             /\ \A a \in Addresses :
                  /\ e[a].size = IF a = c THEN n
                        ELSE IF a = c + n THEN desc[c].size - n ELSE desc[a].size
                  /\ e[a].next = IF a = c + n THEN desc[c].next ELSE desc[a].next
                  /\ e[a].prev = IF a = c + n THEN desc[c].prev ELSE desc[a].prev
<1> DEFINE e == Split(n, c)
           f == c + n
           z == desc[c].size
           S == Segments(desc)
<1>1. /\ c \in Addresses /\ c \in Nat /\ z \in Nat /\ HeapBlocks \in Nat
      /\ \A a \in S : a \in Addresses /\ a \in Nat /\ desc[a].size \in Nat
  BY SizeType, HeapAssumption
<1>2. desc \in Descs /\ c + z <= HeapBlocks
  BY DEF Laid
<1>3. /\ f \in Addresses /\ n \in 0..HeapBlocks /\ z - n \in 0..HeapBlocks /\ f # c
      /\ z - n # 0 /\ f + (z - n) <= HeapBlocks /\ c + n <= HeapBlocks
  BY <1>1, <1>2 DEF Addresses
<1>4. /\ e \in Descs
      /\ \A a \in Addresses :
           /\ e[a].size = IF a = c THEN n ELSE IF a = f THEN z - n ELSE desc[a].size
           /\ e[a].next = IF a = f THEN desc[c].next ELSE desc[a].next
           /\ e[a].prev = IF a = f THEN desc[c].prev ELSE desc[a].prev
  BY <1>1, <1>2, <1>3, SplitIs
<1> HIDE DEF e
<1>5. Segments(e) = S \cup {f}
  BY <1>1, <1>3, <1>4 DEF Segments
<1>6. ASSUME NEW a \in S \cup {f}
      PROVE  /\ a + e[a].size <= HeapBlocks
             /\ e[a].next \in (S \cup {f}) \cup {Null}
             /\ e[a].prev \in (S \cup {f}) \cup {Null, Unset}
  <2>1. /\ desc[c].next \in S \cup {Null} /\ desc[c].prev \in S \cup {Null, Unset}
        /\ \A b \in S : /\ b + desc[b].size <= HeapBlocks
                        /\ desc[b].next \in S \cup {Null} /\ desc[b].prev \in S \cup {Null, Unset}
    BY DEF Laid
  <2>2. a \in Addresses /\ (a # f => a \in S)
    BY <1>1, <1>3
  <2> HIDE DEF S, f, z
  <2>3. a + e[a].size <= HeapBlocks
    <3>1. CASE a = f
      BY <1>3, <1>4, <3>1
    <3>2. CASE a = c
      BY <1>3, <1>4, <2>2, <3>2 DEF f
    <3>3. CASE a # f /\ a # c
      BY <1>4, <2>1, <2>2, <3>3
    <3> QED
      BY <3>1, <3>2, <3>3
  <2> QED
    BY <1>4, <2>1, <2>2, <2>3
<1>7. DescSize < BlockSize => \A a, b \in Segments(e) : a < b => a + e[a].size <= b
  <2>1. SUFFICES ASSUME DescSize < BlockSize PROVE Apart(S \cup {f}, e)
    BY <1>5 DEF Apart
  <2>2. S \in SUBSET Nat /\ Apart(S, desc)
    BY <1>1, <2>1 DEF Laid, Apart
  <2>3. e[c].size = n /\ e[f].size = desc[c].size - n
    BY <1>1, <1>3, <1>4
  <2>4. \A a \in S : a # c /\ a # f => e[a].size = desc[a].size
    BY <1>1, <1>4
  <2> HIDE DEF S, z
  <2>5. c \in S /\ f \in Nat /\ f = c + n /\ n < desc[c].size /\ \A a \in S : desc[a].size \in Nat
    BY <1>1 DEF S
  <2> HIDE DEF f
  <2> QED
    <3>1. SplitSizes(S, desc, e, c, n, f)
      BY <2>2, <2>3, <2>4, <2>5 DEF SplitSizes
    <3> QED
      BY <3>1, SplitApart
<1>8. h \in Segments(e) \cup {Null}
  BY <1>5 DEF Laid
<1>9. Laid(e, h)
  BY <1>4, <1>5, <1>6, <1>7, <1>8 DEF Laid
<1> QED
  BY <1>3, <1>4, <1>5, <1>9 DEF e

-------------------------------------------------------------------------------
(* mem_alloc takes n blocks of the k-th segment of the list.                *)
Rest(c, n) == IF n < desc[c].size THEN c + n ELSE desc[c].next
Cut(c, n) == IF n < desc[c].size THEN Split(n, c) ELSE desc

Takes(k, n, bytes) ==
  /\ k \in 0..HeapBlocks /\ Path[k] # Null /\ n <= desc[Path[k]].size
  /\ \/ k = 0 /\ freeSegHead' = Rest(Path[k], n) /\ desc' = Cut(Path[k], n)
     \/ /\ k > 0 /\ freeSegHead' = freeSegHead
        /\ desc' = WithNext(Cut(Path[k], n), Path[k - 1], Rest(Path[k], n))
  /\ held' = held \cup {<<Path[k], n, bytes>>} /\ outcome' = "ok"

(* A call of mem_alloc takes the first segment that fits, or finds none.    *)
LEMMA AllocTakes ==
  ASSUME NEW bytes \in Requests, Alloc(bytes)
  PROVE  \/ \E k \in 0..HeapBlocks : Takes(k, BlocksFor(bytes), bytes)
         \/ /\ UNCHANGED <<freeSegHead, desc, held>>
            /\ outcome' = IF Ends THEN "ok" ELSE "hangs"
<1> DEFINE n == BlocksFor(bytes)
           k == Min(Fits(n))
           curr == Path[k]
           rest == IF n < desc[curr].size THEN curr + n ELSE desc[curr].next
           split == IF n < desc[curr].size THEN Split(n, curr) ELSE desc
<1>1. CASE /\ Fits(n) # {}
           /\ \/ k = 0 /\ freeSegHead' = rest /\ desc' = split
              \/ /\ k > 0 /\ desc' = [split EXCEPT ![Path[k - 1]].next = rest]
                 /\ UNCHANGED freeSegHead
           /\ held' = held \cup {<<curr, n, bytes>>}
           /\ outcome' = "ok"
  <2>1. Fits(n) \in SUBSET (0..HeapBlocks)
    BY DEF Fits
  <2>2. Fits(n) \in SUBSET Nat
    BY <2>1, HeapAssumption
  <2>3. k \in Fits(n)
    BY <1>1, <2>2, MinOfNats
  <2>4. k \in 0..HeapBlocks /\ Path[k] # Null /\ n <= desc[Path[k]].size
    BY <2>3 DEF Fits
  <2>5. rest = Rest(Path[k], n) /\ split = Cut(Path[k], n)
    BY DEF Rest, Cut
  <2> HIDE DEF k, rest, split, n
  <2>6. [split EXCEPT ![Path[k - 1]].next = rest] = WithNext(split, Path[k - 1], rest)
    BY DEF WithNext
  <2>7. Takes(k, n, bytes)
    BY <1>1, <2>4, <2>5, <2>6 DEF Takes, curr
  <2> QED
    BY <2>4, <2>7 DEF n
<1>2. CASE /\ Fits(n) = {}
           /\ outcome' = IF Ends THEN "ok" ELSE "hangs"
           /\ UNCHANGED <<freeSegHead, desc, held>>
  BY <1>2
<1> QED
  BY <1>1, <1>2 DEF Alloc

(* The walk up to k, in the state before a call. *)
LEMMA PathAt ==
  ASSUME TypeInv, NEW k \in 0..HeapBlocks, Path[k] # Null
  PROVE  /\ Path[k] \in Segments(desc)
         /\ k = 0 => Path[k] = freeSegHead
         /\ k > 0 => /\ Path[k - 1] # Null /\ Path[k - 1] \in Segments(desc)
                     /\ desc[Path[k - 1]].next = Path[k]
<1> DEFINE p == Path
<1>1. Walk(p, desc, freeSegHead)
  BY PathIs DEF TypeInv, Path
<1> HIDE DEF p
<1>2. /\ p \in [0..HeapBlocks -> Segments(desc) \cup {Null}] /\ p[0] = freeSegHead
      /\ \A j \in 1..HeapBlocks : p[j] = IF p[j - 1] = Null THEN Null ELSE desc[p[j - 1]].next
  BY <1>1 DEF Walk
<1>3. p[k] # Null
  BY DEF p
<1>4. p[k] \in Segments(desc)
  BY <1>2, <1>3
<1>5. ASSUME k > 0
      PROVE  p[k - 1] # Null /\ p[k - 1] \in Segments(desc) /\ desc[p[k - 1]].next = p[k]
  <2>1. k \in 1..HeapBlocks /\ k - 1 \in 0..HeapBlocks
    BY <1>5, HeapAssumption
  <2> QED
    BY <1>2, <1>3, <2>1
<1> QED
  BY <1>2, <1>4, <1>5 DEF p

(* The descriptors and the rest, whether or not mem_alloc splits.           *)
LEMMA CutLaid ==
  ASSUME TypeInv, NEW c \in Segments(desc), NEW n \in Nat \ {0}, n <= desc[c].size
  PROVE  /\ \A h \in Segments(Cut(c, n)) \cup {Null} : Laid(Cut(c, n), h)
         /\ Segments(desc) \subseteq Segments(Cut(c, n))
         /\ Rest(c, n) \in Segments(Cut(c, n)) \cup {Null}
<1> DEFINE e == Cut(c, n)
<1>1. Laid(desc, freeSegHead)
  BY DEF TypeInv
<1>2. CASE ~(n < desc[c].size)
  <2>1. e = desc /\ Rest(c, n) = desc[c].next
    BY <1>2 DEF Cut, Rest
  <2> QED
    BY <1>1, <2>1 DEF Laid
<1>3. CASE n < desc[c].size
  <2>1. e = Split(n, c) /\ Rest(c, n) = c + n
    BY <1>3 DEF Cut, Rest
  <2>2. Laid(e, freeSegHead) /\ Segments(e) = Segments(desc) \cup {c + n}
    BY <1>1, <1>3, <2>1, SplitLaid
  <2> HIDE DEF e
  <2>3. Rest(c, n) \in Segments(e)
    BY <2>1, <2>2
  <2>4. \A h \in Segments(e) \cup {Null} : Laid(e, h)
    BY <2>2 DEF Laid
  <2> QED
    BY <2>2, <2>3, <2>4 DEF e
<1> QED
  BY <1>2, <1>3

(* mem_alloc keeps the descriptors right. *)
LEMMA TakesLaid ==
  ASSUME TypeInv, NEW bytes \in Requests, NEW k \in 0..HeapBlocks, Takes(k, BlocksFor(bytes), bytes)
  PROVE  Laid(desc, freeSegHead)' /\ HeldType(held, desc)'
<1> DEFINE n == BlocksFor(bytes)
           c == Path[k]
           q == Path[k - 1]
           r == Rest(c, n)
           e == Cut(c, n)
<1>1. n \in Nat \ {0}
  BY BlocksSuffice
<1>2. /\ c # Null /\ n <= desc[c].size
      /\ \/ k = 0 /\ freeSegHead' = r /\ desc' = e
         \/ k > 0 /\ freeSegHead' = freeSegHead /\ desc' = WithNext(e, q, r)
      /\ held' = held \cup {<<c, n, bytes>>}
  BY DEF Takes
<1>3. c \in Segments(desc) /\ (k > 0 => q \in Segments(desc))
  BY <1>2, PathAt
<1>4. Laid(desc, freeSegHead) /\ HeldType(held, desc)
  BY DEF TypeInv, HeldType
<1>5. desc[c].size \in 1..HeapBlocks
  BY <1>3, <1>4, SizeType
<1>6. n \in 1..HeapBlocks
  BY <1>1, <1>2, <1>5, HeapAssumption
<1> HIDE DEF n, c, q
<1>7. /\ \A h \in Segments(e) \cup {Null} : Laid(e, h)
      /\ Segments(desc) \subseteq Segments(e) /\ r \in Segments(e) \cup {Null}
  BY <1>1, <1>2, <1>3, CutLaid
<1> HIDE DEF r, e
<1>8. freeSegHead \in Segments(e) \cup {Null}
  BY <1>4, <1>7 DEF Laid
<1>9. Laid(desc', freeSegHead') /\ Segments(desc') = Segments(e)
  <2>1. CASE k = 0 /\ freeSegHead' = r /\ desc' = e
    BY <1>7, <2>1
  <2>2. CASE k > 0 /\ freeSegHead' = freeSegHead /\ desc' = WithNext(e, q, r)
    <3>1. e \in Descs /\ Laid(e, freeSegHead) /\ \A a \in Segments(e) : a \in Addresses
      BY <1>7, <1>8 DEF Laid, Segments
    <3>2. q \in Segments(e) /\ q \in Addresses /\ r \in Pointers
      BY <1>3, <1>7, <2>2, <3>1 DEF Pointers
    <3> DEFINE g == WithNext(e, q, r)
    <3>3. /\ g \in Descs
          /\ \A a \in Addresses :
               /\ g[a].size = e[a].size /\ g[a].prev = e[a].prev
               /\ g[a].next = IF a = q THEN r ELSE e[a].next
      BY <3>1, <3>2, NextSet
    <3> HIDE DEF g
    <3>4. \A a \in Segments(e) : /\ g[a].next \in Segments(e) \cup {Null}
                                 /\ g[a].prev \in Segments(e) \cup {Null, Unset}
      BY <1>7, <3>1, <3>3 DEF Laid
    <3>5. \A a \in Addresses : g[a].size = e[a].size
      BY <3>3
    <3>6. Laid(g, freeSegHead) /\ Segments(g) = Segments(e)
      BY <1>8, <3>1, <3>3, <3>4, <3>5, LinksLaid
    <3> QED
      BY <2>2, <3>6 DEF g
  <2> QED
    BY <1>2, <2>1, <2>2
<1>10. HeldType(held', desc')
  <2>1. <<c, n, bytes>> \in Segments(desc') \X (1..HeapBlocks) \X Requests
    BY <1>3, <1>6, <1>7, <1>9
  <2>2. Segments(desc) \subseteq Segments(desc')
    BY <1>7, <1>9
  <2> QED
    BY <1>2, <1>4, <2>1, <2>2 DEF HeldType
<1> QED
  BY <1>9, <1>10

(* The same of the list, as long as it is sound. *)
LEMMA PathSound ==
  ASSUME TypeInv, NEW L, Sound(L, desc, freeSegHead, held)
  PROVE  Ascends(Path, L) /\ L \in SUBSET Addresses /\ L \subseteq Segments(desc)
<1>1. L \subseteq Segments(desc) /\ L \in SUBSET Addresses /\ Spelled(L, desc, freeSegHead)
  BY DEF Sound, Segments
<1>2. Laid(desc, freeSegHead)
  BY DEF TypeInv
<1>3. Walk(Path, desc, freeSegHead)
  BY <1>2, PathIs DEF Path
<1>4. Ascends(Path, L)
  BY <1>1, <1>2, <1>3, WalkAscends
<1> QED
  BY <1>1, <1>4

(* mem_alloc keeps the list sound. *)
LEMMA TakesSound ==
  ASSUME TypeInv, NEW L, Sound(L, desc, freeSegHead, held),
         NEW bytes \in Requests, NEW k \in 0..HeapBlocks, Takes(k, BlocksFor(bytes), bytes)
  PROVE  \E K : Sound(K, desc, freeSegHead, held)'
<1> DEFINE n == BlocksFor(bytes)
           c == Path[k]
           q == Path[k - 1]
           r == Rest(c, n)
           e == Cut(c, n)
<1>1. n \in Nat \ {0} /\ DescSize + bytes <= n * BlockSize
  BY BlocksSuffice
<1>2. /\ c # Null /\ n <= desc[c].size
      /\ \/ k = 0 /\ freeSegHead' = r /\ desc' = e
         \/ k > 0 /\ freeSegHead' = freeSegHead /\ desc' = WithNext(e, q, r)
      /\ held' = held \cup {<<c, n, bytes>>}
  BY DEF Takes
<1>3. /\ c \in Segments(desc) /\ (k = 0 => c = freeSegHead)
      /\ k > 0 => q # Null /\ q \in Segments(desc) /\ desc[q].next = c
  BY <1>2, PathAt
<1>4. Laid(desc, freeSegHead) /\ HeldType(held, desc)
  BY DEF TypeInv, HeldType
<1>5. Ascends(Path, L) /\ L \in SUBSET Addresses /\ L \subseteq Segments(desc)
  BY PathSound
<1>6. Spelled(L, desc, freeSegHead) /\ Tiled(L, desc, held)
  BY DEF Sound
<1>7. c \in L
  BY <1>2, <1>5 DEF Ascends
<1>8. k > 0 => q \in L /\ q < c /\ freeSegHead # c
  <2>1. SUFFICES ASSUME k > 0 PROVE q \in L /\ q < c /\ freeSegHead # c
    OBVIOUS
  <2>2. k - 1 \in 0..HeapBlocks /\ k \in 1..HeapBlocks
    BY <2>1, HeapAssumption
  <2>3. q \in L /\ q < c
    BY <1>2, <1>3, <1>5, <2>1, <2>2 DEF Ascends
  <2>4. Follows(L, q, c) /\ Follows(L, -1, freeSegHead)
    BY <1>3, <1>6, <2>1, <2>3 DEF Spelled
  <2> HIDE DEF c, q
  <2>5. freeSegHead # c
    <3>1. SUFFICES ASSUME freeSegHead = c PROVE FALSE
      OBVIOUS
    <3>2. -1 = q
      BY <1>5, <1>7, <2>3, <2>4, <3>1, OnePointer
    <3> QED
      BY <1>5, <2>3, <3>2, AddressRange
  <2> QED
    BY <2>3, <2>5
<1>9. desc[c].size \in Nat /\ desc \in Descs /\ c \in Addresses
  BY <1>3, <1>4, SizeType, HeapAssumption DEF Laid
<1>10. \A h \in Segments(e) \cup {Null} : Laid(e, h)
  BY <1>1, <1>2, <1>3, CutLaid
<1>11. Segments(desc) \subseteq Segments(e) /\ r \in Segments(e) \cup {Null} /\ e \in Descs
  <2>1. Segments(desc) \subseteq Segments(e) /\ r \in Segments(e) \cup {Null}
    BY <1>1, <1>2, <1>3, CutLaid
  <2> QED
    BY <1>10, <2>1 DEF Laid
<1> HIDE DEF n, c, q
<1>12. r \in Pointers /\ \A a \in Segments(e) : a \in Addresses
  BY <1>11 DEF Pointers, Segments
<1>13. /\ \A a \in Addresses : desc'[a].size = e[a].size
       /\ k = 0 => desc' = e /\ freeSegHead' = r
       /\ k > 0 => /\ freeSegHead' = freeSegHead
                   /\ \A a \in Addresses : desc'[a].next = IF a = q THEN r ELSE e[a].next
  <2>1. CASE k = 0 /\ freeSegHead' = r /\ desc' = e
    BY <2>1
  <2>2. CASE k > 0 /\ freeSegHead' = freeSegHead /\ desc' = WithNext(e, q, r)
    <3>1. q \in Addresses
      BY <1>3, <1>11, <1>12, <2>2
    <3> HIDE DEF e, r
    <3> DEFINE g == WithNext(e, q, r)
    <3>2. /\ g \in Descs
          /\ \A a \in Addresses :
               /\ g[a].size = e[a].size /\ g[a].prev = e[a].prev
               /\ g[a].next = IF a = q THEN r ELSE e[a].next
      BY <1>11, <1>12, <3>1, NextSet
    <3> HIDE DEF g
    <3> QED
      BY <2>2, <3>2 DEF g
  <2> QED
    BY <1>2, <2>1, <2>2
<1>14. Segments(desc') = Segments(e)
  BY <1>13 DEF Segments
<1>15. CASE ~(n < desc[c].size)
  <2>1. e = desc /\ r = desc[c].next
    BY <1>15 DEF Cut, Rest
  <2>2. Points(L, desc, freeSegHead, desc', freeSegHead', c, r)
    <3>1. CASE k = 0
      BY <1>3, <1>13, <2>1, <3>1 DEF Points
    <3>2. CASE k # 0
      <4>1. k > 0
        BY <3>2
      <4> HIDE DEF e, r
      <4> QED
        BY <1>3, <1>5, <1>8, <1>13, <2>1, <4>1 DEF Points
    <3> QED
      BY <3>1, <3>2
  <2>3. Spelled(L \ {c}, desc', freeSegHead')
    BY <1>5, <1>6, <1>7, <2>1, <2>2, TakenSpelled
  <2>4. Tiled(L \ {c}, desc', held \cup {<<c, n, bytes>>})
    BY <1>1, <1>2, <1>4, <1>5, <1>6, <1>7, <1>13, <1>15, <2>1, TakeTiled
  <2>5. L \ {c} \subseteq Segments(desc')
    BY <1>5, <1>11, <1>14
  <2> QED
    BY <1>2, <2>3, <2>4, <2>5 DEF Sound
<1>16. CASE n < desc[c].size
  <2>1. e = Split(n, c) /\ r = c + n
    BY <1>16 DEF Cut, Rest
  <2>2. /\ c + n \in Addresses
        /\ \A a \in Addresses :
             /\ e[a].size = IF a = c THEN n
                   ELSE IF a = c + n THEN desc[c].size - n ELSE desc[a].size
             /\ e[a].next = IF a = c + n THEN desc[c].next ELSE desc[a].next
    BY <1>1, <1>3, <1>4, <1>16, <2>1, SplitLaid
  <2> HIDE DEF e, r
  <2>3. \A a \in Addresses : desc'[a].size =
          IF a = c THEN n ELSE IF a = c + n THEN desc[c].size - n ELSE desc[a].size
    BY <1>13, <2>2
  <2>4. /\ Tiled((L \ {c}) \cup {c + n}, desc', held \cup {<<c, n, bytes>>})
        /\ c + n \in Addresses /\ c + n \notin Starts(L, held)
        /\ \A b \in L : b <= c \/ c + n < b
    <3>1. CutsOff(L, desc, freeSegHead, held, desc', c, n, bytes)
      BY <1>1, <1>4, <1>5, <1>6, <1>7, <1>16, <2>3 DEF CutsOff
    <3> QED
      BY <3>1, SplitTiled
  <2>5. r \in Addresses /\ r \notin L /\ c < r /\ \A b \in L : b <= c \/ r < b
    <3>1. c < c + n
      BY <1>1, <1>9, AddressRange
    <3> QED
      BY <2>1, <2>2, <2>4, <3>1 DEF Starts
  <2>6. \A a \in L : a # r /\ a \in Addresses
    BY <1>5, <2>5
  <2>7. /\ Points(L, desc, freeSegHead, desc', freeSegHead', c, r)
        /\ desc'[r].next = desc[c].next
    <3>1. e[r].next = desc[c].next /\ \A a \in L : e[a].next = desc[a].next
      BY <2>1, <2>2, <2>5, <2>6
    <3>2. CASE k = 0
      BY <1>3, <1>13, <3>1, <3>2 DEF Points
    <3>3. CASE k # 0
      <4>1. k > 0
        BY <3>3
      <4>2. q \in L /\ q # r /\ freeSegHead # c /\ desc[q].next = c /\ freeSegHead' = freeSegHead
        BY <1>3, <1>8, <1>13, <2>6, <4>1
      <4>3. /\ desc'[r].next = desc[c].next /\ desc'[q].next = r
            /\ \A a \in L : a # q => desc'[a].next = desc[a].next
        BY <1>13, <2>5, <2>6, <3>1, <4>1, <4>2
      <4> QED
        BY <4>2, <4>3 DEF Points
    <3> QED
      BY <3>2, <3>3
  <2>8. Spelled((L \ {c}) \cup {r}, desc', freeSegHead')
    BY <1>5, <1>6, <1>7, <2>5, <2>7, ReplacedSpelled
  <2>9. (L \ {c}) \cup {r} \subseteq Segments(desc')
    <3>1. r # Null
      BY <2>5, AddressRange
    <3> QED
      BY <1>5, <1>11, <1>14, <3>1
  <2> QED
    BY <1>2, <2>1, <2>4, <2>8, <2>9 DEF Sound
<1> QED
  BY <1>15, <1>16

-------------------------------------------------------------------------------
(* The four places for tmp leave the descriptors right. *)
LEMMA LinkLaid ==
  ASSUME NEW h, Laid(desc, h), NEW tmp \in Segments(desc)
  PROVE  /\ LET e == WithLinks(desc, tmp, Null, Null)
            IN  Laid(e, tmp) /\ Segments(e) = Segments(desc)
         /\ \A curr \in Segments(desc) :
              /\ LET e == InFront(desc, tmp, curr)
                 IN  Laid(e, tmp) /\ Segments(e) = Segments(desc)
              /\ LET e == Behind(desc, tmp, curr)
                 IN  Laid(e, h) /\ Segments(e) = Segments(desc)
              /\ \A before \in Segments(desc) :
                   LET e == Amid(desc, tmp, curr, before)
                   IN  Laid(e, h) /\ Segments(e) = Segments(desc)
<1>1. /\ desc \in Descs /\ tmp \in Addresses /\ \A a \in Segments(desc) : a \in Addresses
      /\ h \in Segments(desc) \cup {Null} /\ Null \in Pointers
      /\ \A a \in Segments(desc) : /\ desc[a].next \in Segments(desc) \cup {Null}
                                   /\ desc[a].prev \in Segments(desc) \cup {Null, Unset}
  BY DEF Laid, Segments, Pointers
<1>2. LET e == WithLinks(desc, tmp, Null, Null)
      IN  Laid(e, tmp) /\ Segments(e) = Segments(desc)
  <2> DEFINE e == WithLinks(desc, tmp, Null, Null)
  <2>1. /\ e \in Descs
        /\ \A a \in Addresses :
             /\ e[a].size = desc[a].size
             /\ e[a].next = IF a = tmp THEN Null ELSE desc[a].next
             /\ e[a].prev = IF a = tmp THEN Null ELSE desc[a].prev
    BY <1>1, PairSet
  <2> HIDE DEF e
  <2>2. \A a \in Segments(desc) : /\ e[a].next \in Segments(desc) \cup {Null}
                                  /\ e[a].prev \in Segments(desc) \cup {Null, Unset}
    BY <1>1, <2>1
  <2>3. \A a \in Addresses : e[a].size = desc[a].size
    BY <2>1
  <2>4. Laid(e, tmp) /\ Segments(e) = Segments(desc)
    BY <2>1, <2>2, <2>3, LinksLaid
  <2> QED
    BY <2>4 DEF e
<1>3. ASSUME NEW curr \in Segments(desc)
      PROVE  LET e == InFront(desc, tmp, curr)
             IN  Laid(e, tmp) /\ Segments(e) = Segments(desc)
  <2> DEFINE e == InFront(desc, tmp, curr)
  <2>1. /\ e \in Descs
        /\ \A a \in Addresses :
             /\ e[a].size = desc[a].size
             /\ e[a].next = IF a = tmp THEN curr ELSE desc[a].next
             /\ e[a].prev = IF a = tmp THEN Null ELSE IF a = curr THEN tmp ELSE desc[a].prev
    BY <1>1, FirstSet
  <2> HIDE DEF e
  <2>2. \A a \in Segments(desc) : /\ e[a].next \in Segments(desc) \cup {Null}
                                  /\ e[a].prev \in Segments(desc) \cup {Null, Unset}
    BY <1>1, <2>1
  <2>3. \A a \in Addresses : e[a].size = desc[a].size
    BY <2>1
  <2>4. Laid(e, tmp) /\ Segments(e) = Segments(desc)
    BY <2>1, <2>2, <2>3, LinksLaid
  <2> QED
    BY <2>4 DEF e
<1>4. ASSUME NEW curr \in Segments(desc)
      PROVE  LET e == Behind(desc, tmp, curr)
             IN  Laid(e, h) /\ Segments(e) = Segments(desc)
  <2> DEFINE e == Behind(desc, tmp, curr)
  <2>1. /\ e \in Descs
        /\ \A a \in Addresses :
             /\ e[a].size = desc[a].size
             /\ e[a].next = IF a = tmp THEN Null ELSE IF a = curr THEN tmp ELSE desc[a].next
             /\ e[a].prev = IF a = tmp THEN curr ELSE desc[a].prev
    BY <1>1, LastSet
  <2> HIDE DEF e
  <2>2. \A a \in Segments(desc) : /\ e[a].next \in Segments(desc) \cup {Null}
                                  /\ e[a].prev \in Segments(desc) \cup {Null, Unset}
    BY <1>1, <2>1
  <2>3. \A a \in Addresses : e[a].size = desc[a].size
    BY <2>1
  <2>4. Laid(e, h) /\ Segments(e) = Segments(desc)
    BY <1>1, <2>1, <2>2, <2>3, LinksLaid
  <2> QED
    BY <2>4 DEF e
<1>5. ASSUME NEW curr \in Segments(desc), NEW before \in Segments(desc)
      PROVE  LET e == Amid(desc, tmp, curr, before)
             IN  Laid(e, h) /\ Segments(e) = Segments(desc)
  <2> DEFINE e == Amid(desc, tmp, curr, before)
  <2>1. /\ e \in Descs
        /\ \A a \in Addresses :
             /\ e[a].size = desc[a].size
             /\ e[a].next = IF a = before THEN tmp
                            ELSE IF a = tmp THEN curr ELSE desc[a].next
             /\ e[a].prev = IF a = curr THEN tmp
                            ELSE IF a = tmp THEN before ELSE desc[a].prev
    BY <1>1, BetweenSet
  <2> HIDE DEF e
  <2>2. \A a \in Segments(desc) : /\ e[a].next \in Segments(desc) \cup {Null}
                                  /\ e[a].prev \in Segments(desc) \cup {Null, Unset}
    BY <1>1, <2>1
  <2>3. \A a \in Addresses : e[a].size = desc[a].size
    BY <2>1
  <2>4. Laid(e, h) /\ Segments(e) = Segments(desc)
    BY <1>1, <2>1, <2>2, <2>3, LinksLaid
  <2> QED
    BY <2>4 DEF e
<1> QED
  BY <1>2, <1>3, <1>4, <1>5

(* mem_free keeps the descriptors right. *)
LEMMA FreeLaid ==
  ASSUME TypeInv, NEW tmp \in Segments(desc), Free(tmp)
  PROVE  /\ Laid(desc, freeSegHead)' /\ Segments(desc') = Segments(desc)
         /\ outcome' \in {"ok", "hangs", "fault"}
<1>1. Laid(desc, freeSegHead) /\ \A a \in Segments(desc) : a \in Addresses
  BY DEF TypeInv, Segments
<1>2. CASE IntoEmpty(tmp)
  <2>1. [desc EXCEPT ![tmp].next = Null, ![tmp].prev = Null] = WithLinks(desc, tmp, Null, Null)
    BY DEF WithLinks
  <2>2. /\ desc' = WithLinks(desc, tmp, Null, Null) /\ freeSegHead' = tmp /\ outcome' = "ok"
    BY <1>2, <2>1 DEF IntoEmpty
  <2> QED
    BY <1>1, <2>2, LinkLaid
<1>3. CASE /\ freeSegHead # Null /\ Stops(tmp) # {}
           /\ LET curr == Path[Min(Stops(tmp))]
              IN  AsFirst(tmp, curr) \/ AsLast(tmp, curr) \/ Between(tmp, curr)
  <2> DEFINE k == Min(Stops(tmp))
             curr == Path[k]
  <2>1. k \in 0..HeapBlocks /\ curr # Null
    <3>1. Stops(tmp) \in SUBSET Nat
      BY HeapAssumption DEF Stops
    <3>2. k \in Stops(tmp)
      BY <1>3, <3>1, MinOfNats
    <3> QED
      BY <3>2 DEF Stops
  <2>2. curr \in Segments(desc)
    BY <2>1, PathAt
  <2>3. AsFirst(tmp, curr) \/ AsLast(tmp, curr) \/ Between(tmp, curr)
    BY <1>3
  <2> HIDE DEF curr, k
  <2>4. CASE AsFirst(tmp, curr)
    <3> DEFINE e == InFront(desc, tmp, curr)
    <3>1. desc' = Merge(e, tmp, curr) /\ freeSegHead' = tmp /\ outcome' = "ok"
      BY <2>4 DEF AsFirst, InFront
    <3>2. Laid(e, tmp) /\ Segments(e) = Segments(desc)
      BY <1>1, <2>2, LinkLaid
    <3> HIDE DEF e
    <3>3. Laid(Merge(e, tmp, curr), tmp) /\ Segments(Merge(e, tmp, curr)) = Segments(e)
      BY <2>2, <3>2, MergeLaid
    <3> QED
      BY <3>1, <3>2, <3>3
  <2>5. CASE AsLast(tmp, curr)
    <3> DEFINE e == Behind(desc, tmp, curr)
    <3>1. desc' = Merge(e, curr, tmp) /\ freeSegHead' = freeSegHead /\ outcome' = "ok"
      BY <2>5 DEF AsLast, Behind
    <3>2. Laid(e, freeSegHead) /\ Segments(e) = Segments(desc)
      BY <1>1, <2>2, LinkLaid
    <3> HIDE DEF e
    <3>3. Laid(Merge(e, curr, tmp), freeSegHead) /\ Segments(Merge(e, curr, tmp)) = Segments(e)
      BY <2>2, <3>2, MergeLaid
    <3> QED
      BY <3>1, <3>2, <3>3
  <2>6. CASE Between(tmp, curr)
    <3> DEFINE before == desc[curr].prev
               e == Amid(desc, tmp, curr, before)
               m == Merge(e, tmp, curr)
    <3>1. CASE before \notin Addresses
      <4>1. freeSegHead' = freeSegHead /\ desc' = desc /\ outcome' = "fault"
        BY <2>6, <3>1 DEF Between
      <4> QED
        BY <1>1, <4>1
    <3>2. CASE before \in Addresses
      <4>1. /\ freeSegHead' = freeSegHead /\ outcome' = "ok"
            /\ desc' = Merge(m, m[tmp].prev, tmp)
        BY <2>6, <3>2 DEF Between, Amid
      <4>2. before \in Segments(desc)
        <5>1. before \in Segments(desc) \cup {Null, Unset}
          BY <1>1, <2>2 DEF Laid
        <5>2. Unset \notin Addresses /\ Null \notin Addresses
          BY HeapAssumption DEF Unset, Null, Addresses
        <5> QED
          BY <3>2, <5>1, <5>2
      <4>3. Laid(e, freeSegHead) /\ Segments(e) = Segments(desc)
        BY <1>1, <2>2, <4>2, LinkLaid
      <4> HIDE DEF e
      <4>4. Laid(m, freeSegHead) /\ Segments(m) = Segments(desc)
        BY <2>2, <4>3, MergeLaid
      <4>5. m[tmp].prev \in Segments(desc)
        <5>1. e[tmp].prev \in Segments(desc)
          <6>1. desc \in Descs /\ tmp \in Addresses /\ curr \in Addresses /\ before \in Addresses
            BY <1>1, <2>2, <3>2 DEF Laid
          <6> HIDE DEF before
          <6>2. e[tmp].prev = IF tmp = curr THEN tmp ELSE before
            BY <6>1, BetweenSet DEF e
          <6> QED
            BY <4>2, <6>2
        <5>2. CASE tmp * BlockSize + e[tmp].size * DescSize # curr * BlockSize
          BY <5>1, <5>2 DEF Merge
        <5>3. CASE tmp * BlockSize + e[tmp].size * DescSize = curr * BlockSize
          <6>1. tmp + e[tmp].size = curr /\ tmp \in Segments(e) /\ curr \in Segments(e)
            BY <2>2, <4>3, <5>3, MergeTest
          <6>2. /\ tmp \in Addresses /\ curr \in Addresses /\ e \in Descs
                /\ tmp \in 0..(HeapBlocks - 1) /\ curr \in 0..(HeapBlocks - 1)
                /\ e[tmp].size \in 1..HeapBlocks /\ e[curr].size \in 1..HeapBlocks
                /\ curr + e[curr].size <= HeapBlocks
            BY <4>3, <6>1, SizeType DEF Laid
          <6>3. e[tmp].size + e[curr].size \in 0..HeapBlocks
            BY <6>1, <6>2, HeapAssumption
          <6>4. m[tmp].prev = IF tmp = e[curr].next THEN tmp ELSE e[tmp].prev
            BY <5>3, <6>2, <6>3, MergeIs
          <6> QED
            BY <5>1, <6>4
        <5> QED
          BY <5>2, <5>3
      <4> HIDE DEF m
      <4>6. /\ Laid(Merge(m, m[tmp].prev, tmp), freeSegHead)
            /\ Segments(Merge(m, m[tmp].prev, tmp)) = Segments(m)
        BY <4>4, <4>5, MergeLaid
      <4> QED
        BY <4>1, <4>4, <4>6
    <3> QED
      BY <3>1, <3>2
  <2> QED
    BY <2>3, <2>4, <2>5, <2>6
<1>4. CASE /\ freeSegHead # Null /\ Stops(tmp) = {}
           /\ outcome' = "hangs"
           /\ UNCHANGED <<freeSegHead, desc>>
  BY <1>1, <1>4
<1> QED
  BY <1>2, <1>3, <1>4 DEF Free

(* Where the loop of mem_free stops in a sound list, and who is in front.   *)
LEMMA StopsAt ==
  ASSUME TypeInv, NEW L, Sound(L, desc, freeSegHead, held), NEW tmp \in Addresses,
         freeSegHead # Null
  PROVE  LET k == Min(Stops(tmp))
             curr == Path[k]
         IN  /\ Stops(tmp) # {} /\ k \in 0..HeapBlocks /\ curr \in L /\ curr # Null
             /\ tmp <= curr \/ (desc[curr].next = Null /\ \A b \in L : b <= curr)
             /\ k = 0 <=> curr = freeSegHead
             /\ k > 0 => /\ Path[k - 1] \in L /\ Path[k - 1] < tmp
                         /\ desc[Path[k - 1]].next = curr
<1> DEFINE S == Stops(tmp)
           k == Min(S)
           curr == Path[k]
<1>1. Ascends(Path, L) /\ L \in SUBSET Addresses /\ L \subseteq Segments(desc)
  BY PathSound
<1>2. Follows(L, -1, freeSegHead) /\ \A a \in L : Follows(L, a, desc[a].next)
  BY DEF Sound, Spelled
<1>3. Null \notin L /\ Null = -1 /\ HeapBlocks \in Nat /\ tmp \in Int /\ \A a \in L : a \in Int
  BY <1>1, AddressRange
<1>4. S # {}
  <2>1. L # {} /\ L \subseteq Nat
    BY <1>1, <1>2, AddressRange DEF Follows
  <2>2. \E a \in L : \A b \in L : b <= a
    <3> DEFINE Up == {b + 1 : b \in L}
    <3>1. Up \in SUBSET (1..HeapBlocks) /\ Up # {} /\ HeapBlocks \in Int
      <4>1. \A b \in L : b \in 0..(HeapBlocks - 1)
        BY <1>1, AddressRange
      <4>2. \A b \in 0..(HeapBlocks - 1) : b + 1 \in 1..HeapBlocks
        BY <1>3
      <4>3. \A b \in L : b + 1 \in 1..HeapBlocks /\ b + 1 \in Up
        BY <4>1, <4>2
      <4>4. \A u \in Up : u \in 1..HeapBlocks
        BY <4>3
      <4>5. Up # {}
        BY <2>1, <4>3
      <4> HIDE DEF Up
      <4> QED
        BY <1>3, <4>4, <4>5
    <3>2. Max(Up) \in Up /\ \A y \in Up : Max(Up) >= y
      BY <3>1, MaxOfNats
    <3>3. PICK a \in L : Max(Up) = a + 1
      BY <3>2
    <3>4. ASSUME NEW b \in L PROVE b <= a
      <4>1. b + 1 \in Up
        OBVIOUS
      <4>2. a + 1 >= b + 1
        BY <3>2, <3>3, <4>1
      <4> QED
        BY <1>3, <4>2
    <3> QED
      BY <3>4
  <2>3. PICK a \in L : \A b \in L : b <= a
    BY <2>2
  <2>4. desc[a].next = Null
    BY <1>2, <1>3, <2>3 DEF Follows
  <2>5. PICK j \in 0..(HeapBlocks - 1) : Path[j] = a
    BY <1>1 DEF Ascends
  <2>6. j \in S
    BY <1>3, <2>4, <2>5 DEF Stops
  <2> QED
    BY <2>6
<1>5. S \in SUBSET Nat
  BY <1>3 DEF Stops
<1>6. k \in S /\ \A j \in S : k <= j
  BY <1>4, <1>5, MinOfNats
<1> HIDE DEF k
<1>7. k \in 0..HeapBlocks /\ curr # Null /\ (curr >= tmp \/ desc[curr].next = Null)
  BY <1>6 DEF Stops
<1>8. curr \in L
  BY <1>1, <1>7 DEF Ascends
<1>9. tmp <= curr \/ (desc[curr].next = Null /\ \A b \in L : b <= curr)
  <2>1. desc[curr].next = Null => \A b \in L : b <= curr
    BY <1>2, <1>3, <1>8 DEF Follows
  <2> QED
    BY <1>3, <1>7, <1>8, <2>1
<1>10. k = 0 => curr = freeSegHead
  BY <1>7, PathAt
<1>11. ASSUME k > 0
       PROVE  /\ Path[k - 1] \in L /\ Path[k - 1] < tmp
              /\ desc[Path[k - 1]].next = curr /\ curr # freeSegHead
  <2> DEFINE q == Path[k - 1]
  <2>1. k - 1 \in 0..HeapBlocks /\ k \in 1..HeapBlocks /\ ~(k <= k - 1)
    BY <1>3, <1>7, <1>11
  <2>2. q # Null /\ desc[q].next = curr
    BY <1>7, <1>11, PathAt
  <2>3. q \in L /\ q < curr
    BY <1>1, <1>7, <2>1, <2>2 DEF Ascends
  <2>4. k - 1 \notin S
    BY <1>6, <2>1
  <2>5. ~(q >= tmp)
    BY <2>1, <2>2, <2>4 DEF Stops
  <2>6. Follows(L, q, curr)
    BY <1>2, <2>2, <2>3
  <2> HIDE DEF q, curr
  <2>7. curr # freeSegHead
    <3>1. SUFFICES ASSUME curr = freeSegHead PROVE FALSE
      OBVIOUS
    <3>2. q = -1
      BY <1>1, <1>2, <1>8, <2>3, <2>6, <3>1, OnePointer
    <3> QED
      BY <1>3, <2>3, <3>2
  <2>8. q < tmp
    BY <1>3, <2>3, <2>5
  <2> QED
    BY <2>2, <2>3, <2>7, <2>8 DEF q
<1>12. k > 0 \/ k = 0
  BY <1>3, <1>7
<1> QED
  BY <1>4, <1>7, <1>8, <1>9, <1>10, <1>11, <1>12 DEF k

(* The held segment s is linked in right, behind a (-1 for the head) and in *)
(* front of x, and nothing is merged yet.                                    *)
LinkedRight(L, d, h, H, s, e, g, a, x) ==
  /\ Laid(d, h) /\ HeldType(H, d) /\ Sound(L, d, h, H)
  /\ s \in H /\ a \in L \cup {-1} /\ a < s[1]
  /\ x = Null \/ (x \in L /\ s[1] < x)
  /\ \A b \in Addresses : e[b].size = d[b].size
  /\ IF a = -1 THEN h = x /\ g = s[1] ELSE d[a].next = x /\ e[a].next = s[1] /\ g = h
  /\ e[s[1]].next = x /\ \A b \in L : b # a => e[b].next = d[b].next

(* The list with the freed segment linked in, before any merge.             *)
LEMMA LinkSound ==
  ASSUME NEW L, NEW d, NEW h, NEW H, NEW s, NEW e, NEW g, NEW a, NEW x,
         LinkedRight(L, d, h, H, s, e, g, a, x)
  PROVE  Sound(L \cup {s[1]}, e, g, H \ {s}) /\ HeldType(H \ {s}, e)
<1> SUFFICES ASSUME Laid(d, h), HeldType(H, d), Sound(L, d, h, H),
                    s \in H, a \in L \cup {-1}, a < s[1],
                    x = Null \/ (x \in L /\ s[1] < x),
                    \A b \in Addresses : e[b].size = d[b].size,
                    IF a = -1 THEN h = x /\ g = s[1]
                    ELSE d[a].next = x /\ e[a].next = s[1] /\ g = h,
                    e[s[1]].next = x, \A b \in L : b # a => e[b].next = d[b].next
             PROVE  Sound(L \cup {s[1]}, e, g, H \ {s}) /\ HeldType(H \ {s}, e)
  BY DEF LinkedRight
<1> DEFINE t == s[1]
<1>1. /\ L \subseteq Segments(d) /\ L \in SUBSET Addresses /\ Spelled(L, d, h) /\ Tiled(L, d, H)
      /\ t \in Segments(d) /\ t \in Addresses
  BY DEF Sound, Segments, HeldType
<1>2. Segments(e) = Segments(d)
  BY DEF Segments
<1>3. Tiled(L \cup {t}, e, H \ {s}) /\ t \notin L
  BY <1>1, GiveTiled
<1>4. HeldType(H \ {s}, e)
  BY <1>2 DEF HeldType
<1> HIDE DEF t
<1>5. Spelled(L \cup {t}, e, g)
  <2>1. t \in Addresses \ L
    BY <1>1, <1>3
  <2>2. /\ a < t /\ (x = Null \/ (x \in L /\ t < x)) /\ e[t].next = x
        /\ IF a = -1 THEN h = x /\ g = t ELSE d[a].next = x /\ e[a].next = t /\ g = h
    BY DEF t
  <2> QED
    BY <1>1, <2>1, <2>2, LinkedSpelled
<1> QED
  BY <1>1, <1>2, <1>3, <1>4, <1>5 DEF Sound, t

(* mem_free of a held segment keeps the list sound if it finds the place.   *)
LEMMA FreeSound ==
  ASSUME TypeInv, NEW L, Sound(L, desc, freeSegHead, held), outcome = "ok",
         NEW s \in held, Free(s[1]), ~Misplaces(s[1])
  PROVE  outcome' = "ok" /\ \E K : Sound(K, desc', freeSegHead', held \ {s})
<1> DEFINE tmp == s[1]
           G == held \ {s}
<1>1. /\ Laid(desc, freeSegHead) /\ HeldType(held, desc) /\ desc \in Descs
      /\ tmp \in Segments(desc) /\ tmp \in Addresses
  BY DEF TypeInv, HeldType, Segments, Laid
<1>2. /\ L \in SUBSET Addresses /\ L \subseteq Segments(desc) /\ Spelled(L, desc, freeSegHead)
      /\ Tiled(L, desc, held)
  BY DEF Sound, Segments
<1>3. tmp \notin L
  BY <1>2 DEF Tiled
<1>4. /\ Follows(L, -1, freeSegHead) /\ \A b \in L : Follows(L, b, desc[b].next)
      /\ Null = -1 /\ tmp \in Int /\ -1 < tmp /\ tmp # Null
      /\ \A b \in L : b \in Int /\ b # Null /\ b # -1 /\ b # tmp /\ b \in Addresses
  BY <1>1, <1>2, <1>3, AddressRange DEF Spelled
<1>5. Free(tmp) /\ ~Misplaces(tmp)
  OBVIOUS
<1> HIDE DEF tmp, G
<1>6. CASE freeSegHead = Null
  <2>1. IntoEmpty(tmp)
    BY <1>5, <1>6 DEF Free
  <2>2. [desc EXCEPT ![tmp].next = Null, ![tmp].prev = Null] = WithLinks(desc, tmp, Null, Null)
    BY DEF WithLinks
  <2> DEFINE e == WithLinks(desc, tmp, Null, Null)
  <2>3. desc' = e /\ freeSegHead' = tmp /\ outcome' = "ok"
    BY <2>1, <2>2 DEF IntoEmpty
  <2>4. /\ e \in Descs
        /\ \A b \in Addresses :
             /\ e[b].size = desc[b].size
             /\ e[b].next = IF b = tmp THEN Null ELSE desc[b].next
             /\ e[b].prev = IF b = tmp THEN Null ELSE desc[b].prev
    <3>1. Null \in Pointers
      BY DEF Pointers
    <3> QED
      BY <1>1, <3>1, PairSet
  <2> HIDE DEF e
  <2>5. /\ \A b \in Addresses : e[b].size = desc[b].size
        /\ e[tmp].next = Null /\ \A b \in L : e[b].next = desc[b].next
    BY <1>1, <1>4, <2>4
  <2>6. LinkedRight(L, desc, freeSegHead, held, s, e, tmp, -1, Null)
    BY <1>1, <1>4, <1>6, <2>5 DEF LinkedRight, tmp
  <2>7. Sound(L \cup {tmp}, e, tmp, G)
    BY <2>6, LinkSound DEF tmp, G
  <2> QED
    BY <2>3, <2>7 DEF G
<1>7. CASE freeSegHead # Null
  <2> DEFINE k == Min(Stops(tmp))
             curr == Path[k]
             q == Path[k - 1]
  <2>1. /\ Stops(tmp) # {} /\ k \in 0..HeapBlocks /\ curr \in L /\ curr # Null
        /\ tmp <= curr \/ (desc[curr].next = Null /\ \A b \in L : b <= curr)
        /\ k = 0 <=> curr = freeSegHead
        /\ k > 0 => /\ q \in L /\ q < tmp /\ desc[q].next = curr
    BY <1>1, <1>7, StopsAt
  <2>2. AsFirst(tmp, curr) \/ AsLast(tmp, curr) \/ Between(tmp, curr)
    BY <1>5, <1>7, <2>1 DEF Free, IntoEmpty
  <2>3. ~(k = 0 /\ tmp > curr) /\ ~(k > 0 /\ tmp <= curr /\ desc[curr].prev # q)
    BY <1>5, <1>7, <2>1 DEF Misplaces
  <2> HIDE DEF k, curr, q
  <2>4. curr \in Int /\ curr \in Addresses /\ curr # tmp /\ (k > 0 \/ k = 0)
    BY <1>4, <2>1, HeapAssumption
  <2>5. CASE AsFirst(tmp, curr)
    <3> DEFINE e == InFront(desc, tmp, curr)
               K == L \cup {tmp}
    <3>1. desc' = Merge(e, tmp, curr) /\ freeSegHead' = tmp /\ outcome' = "ok" /\ curr = freeSegHead
      BY <2>5 DEF AsFirst, InFront
    <3>2. tmp < curr
      BY <1>4, <2>1, <2>3, <2>4, <3>1
    <3>3. /\ e \in Descs
          /\ \A b \in Addresses :
               /\ e[b].size = desc[b].size
               /\ e[b].next = IF b = tmp THEN curr ELSE desc[b].next
               /\ e[b].prev = IF b = tmp THEN Null ELSE IF b = curr THEN tmp ELSE desc[b].prev
      BY <1>1, <2>4, FirstSet
    <3>4. Laid(e, tmp)
      BY <1>1, <1>2, <2>1, LinkLaid
    <3> HIDE DEF e
    <3>5. /\ \A b \in Addresses : e[b].size = desc[b].size
          /\ e[tmp].next = curr /\ \A b \in L : e[b].next = desc[b].next
      BY <1>1, <1>4, <3>3
    <3>6. LinkedRight(L, desc, freeSegHead, held, s, e, tmp, -1, curr)
      BY <1>1, <1>4, <2>1, <3>1, <3>2, <3>5 DEF LinkedRight, tmp
    <3>7. Sound(K, e, tmp, G) /\ HeldType(G, e)
      BY <3>6, LinkSound DEF tmp, G
    <3>8. \E M : Keeps(K, e, Merge(e, tmp, curr), tmp, G, tmp, curr, M)
      BY <2>1, <3>4, <3>5, <3>7, MergeSound
    <3> QED
      BY <3>1, <3>8 DEF Keeps, G
  <2>6. CASE AsLast(tmp, curr)
    <3> DEFINE e == Behind(desc, tmp, curr)
               K == L \cup {tmp}
    <3>1. /\ desc' = Merge(e, curr, tmp) /\ freeSegHead' = freeSegHead /\ outcome' = "ok"
          /\ tmp > curr
      BY <2>6 DEF AsLast, Behind
    <3>2. curr < tmp /\ desc[curr].next = Null
      BY <1>4, <2>1, <2>4, <3>1
    <3>3. /\ e \in Descs
          /\ \A b \in Addresses :
               /\ e[b].size = desc[b].size
               /\ e[b].next = IF b = tmp THEN Null ELSE IF b = curr THEN tmp ELSE desc[b].next
               /\ e[b].prev = IF b = tmp THEN curr ELSE desc[b].prev
      BY <1>1, <2>4, LastSet
    <3>4. Laid(e, freeSegHead)
      BY <1>1, <1>2, <2>1, LinkLaid
    <3> HIDE DEF e
    <3>5. /\ \A b \in Addresses : e[b].size = desc[b].size
          /\ e[tmp].next = Null /\ e[curr].next = tmp
          /\ \A b \in L : b # curr => e[b].next = desc[b].next
      BY <1>1, <1>4, <2>4, <3>3
    <3>6. LinkedRight(L, desc, freeSegHead, held, s, e, freeSegHead, curr, Null)
      BY <1>1, <1>4, <2>1, <3>2, <3>5 DEF LinkedRight, tmp
    <3>7. Sound(K, e, freeSegHead, G) /\ HeldType(G, e)
      BY <3>6, LinkSound DEF tmp, G
    <3>8. \E M : Keeps(K, e, Merge(e, curr, tmp), freeSegHead, G, curr, tmp, M)
      BY <2>1, <3>4, <3>5, <3>7, MergeSound
    <3> QED
      BY <3>1, <3>8 DEF Keeps, G
  <2>7. CASE Between(tmp, curr)
    <3>1. curr # freeSegHead /\ tmp <= curr
      BY <2>7 DEF Between
    <3>2. k > 0 /\ q \in L /\ q < tmp /\ tmp < curr /\ desc[q].next = curr /\ desc[curr].prev = q
      BY <1>4, <2>1, <2>3, <2>4, <3>1
    <3> DEFINE e == Amid(desc, tmp, curr, q)
               m == Merge(e, tmp, curr)
               K == L \cup {tmp}
    <3>3. q \in Addresses /\ q # tmp /\ q # curr /\ q \in Int
      BY <1>4, <2>4, <3>2
    <3>4. freeSegHead' = freeSegHead /\ outcome' = "ok" /\ desc' = Merge(m, m[tmp].prev, tmp)
      BY <2>7, <3>2, <3>3 DEF Between, Amid
    <3>5. /\ e \in Descs
          /\ \A b \in Addresses :
               /\ e[b].size = desc[b].size
               /\ e[b].next = IF b = q THEN tmp ELSE IF b = tmp THEN curr ELSE desc[b].next
               /\ e[b].prev = IF b = curr THEN tmp ELSE IF b = tmp THEN q ELSE desc[b].prev
      BY <1>1, <2>4, <3>3, BetweenSet
    <3>6. Laid(e, freeSegHead) /\ Segments(e) = Segments(desc)
      BY <1>1, <1>2, <2>1, <3>2, LinkLaid
    <3> HIDE DEF e
    <3>7. /\ \A b \in Addresses : e[b].size = desc[b].size
          /\ e[tmp].next = curr /\ e[q].next = tmp /\ e[tmp].prev = q
          /\ \A b \in L : b # q => e[b].next = desc[b].next
      BY <1>1, <1>4, <2>4, <3>3, <3>5
    <3>8. LinkedRight(L, desc, freeSegHead, held, s, e, freeSegHead, q, curr)
      BY <1>1, <1>4, <2>1, <3>2, <3>3, <3>7 DEF LinkedRight, tmp
    <3>9. Sound(K, e, freeSegHead, G) /\ HeldType(G, e)
      BY <3>8, LinkSound DEF tmp, G
    <3>10. PICK M : Keeps(K, e, m, freeSegHead, G, tmp, curr, M)
      BY <2>1, <3>6, <3>7, <3>9, MergeSound
    <3>11. Laid(m, freeSegHead) /\ Segments(m) = Segments(e)
      BY <1>1, <1>2, <2>1, <3>6, MergeLaid
    <3>12. e[curr].next # tmp
      <4>1. e[curr].next = desc[curr].next /\ Follows(L, curr, desc[curr].next)
        BY <1>4, <2>1, <3>3, <3>7
      <4> QED
        BY <1>3, <1>4, <4>1 DEF Follows
    <3> HIDE DEF m
    <3>13. m[tmp].prev = q
      BY <3>7, <3>10, <3>12 DEF Keeps
    <3>14. m[q].next = tmp
      BY <3>2, <3>3, <3>7, <3>10 DEF Keeps
    <3>15. Sound(M, m, freeSegHead, G) /\ tmp \in M /\ q \in M
      BY <2>4, <3>2, <3>3, <3>10 DEF Keeps
    <3>16. HeldType(G, m)
      BY <3>9, <3>11 DEF HeldType
    <3>17. \E N : Keeps(M, m, Merge(m, q, tmp), freeSegHead, G, q, tmp, N)
      BY <3>11, <3>14, <3>15, <3>16, MergeSound
    <3> QED
      BY <3>4, <3>13, <3>17 DEF Keeps, G
  <2> QED
    BY <2>2, <2>5, <2>6, <2>7
<1> QED
  BY <1>6, <1>7

-------------------------------------------------------------------------------
(* One segment, free: the list spells {0}.                                  *)
LEMMA InitInv == Init => IInv
<1> SUFFICES ASSUME Init PROVE IInv
  OBVIOUS
<1>1. /\ freeSegHead = 0 /\ held = {} /\ outcome = "ok" /\ misplaced = FALSE
      /\ desc = [a \in Addresses |->
           IF a = 0 THEN [size |-> HeapBlocks, next |-> Null, prev |-> Unset]
           ELSE [size |-> 0, next |-> Unset, prev |-> Unset]]
  BY DEF Init
<1>2. HeapBlocks \in Nat \ {0} /\ 0 \in Addresses /\ Addresses = 0..(HeapBlocks - 1) /\ 0 # Null
  BY AddressRange
<1>3. Null \in Pointers /\ Unset \in Pointers /\ HeapBlocks \in 0..HeapBlocks /\ 0 \in 0..HeapBlocks
  BY <1>2 DEF Pointers
<1>4. desc \in Descs
  BY <1>1, <1>3 DEF Descs, Desc
<1>5. /\ desc[0].size = HeapBlocks /\ desc[0].next = Null /\ desc[0].prev = Unset
      /\ \A a \in Addresses : a # 0 => desc[a].size = 0
  BY <1>1, <1>2
<1>6. Segments(desc) = {0}
  BY <1>2, <1>5 DEF Segments
<1>7. Laid(desc, freeSegHead)
  BY <1>1, <1>2, <1>4, <1>5, <1>6 DEF Laid
<1>8. Spelled({0}, desc, freeSegHead)
  BY <1>1, <1>2, <1>5 DEF Spelled, Follows
<1>9. Starts({0}, held) = {0}
  BY <1>1 DEF Starts, Heads
<1>10. Covers({0}, desc)
  BY <1>2, <1>5 DEF Covers
<1>11. Fitting({0}, desc, held)
  BY <1>1 DEF Fitting
<1>12. Tiled({0}, desc, held)
  BY <1>9, <1>10, <1>11, TiledParts
<1>13. Sound({0}, desc, freeSegHead, held)
  BY <1>6, <1>8, <1>12 DEF Sound
<1>14. TypeInv
  BY <1>1, <1>7 DEF TypeInv
<1> QED
  BY <1>1, <1>2, <1>13, <1>14 DEF IInv

(* One case for each call.                                                  *)
LEMMA StepInv == IInv /\ [Next]_vars => IInv'
<1> SUFFICES ASSUME IInv, [Next]_vars PROVE IInv'
  OBVIOUS
<1>1. TypeInv
  BY DEF IInv
<1>2. ~misplaced => outcome = "ok" /\ \E L : Sound(L, desc, freeSegHead, held)
  BY DEF IInv
<1>3. ASSUME Laid(desc', freeSegHead'), HeldType(held', desc'),
             outcome' \in {"ok", "hangs", "fault"}, misplaced' \in BOOLEAN,
             ~misplaced' => outcome' = "ok" /\ \E K : Sound(K, desc', freeSegHead', held')
      PROVE  IInv'
  <2>1. \A K : Sound(K, desc', freeSegHead', held') => K \in SUBSET Addresses
    BY DEF Sound, Segments
  <2>2. TypeInv'
    BY <1>3 DEF TypeInv, HeldType
  <2>3. ~misplaced' => \E K \in SUBSET Addresses : Sound(K, desc', freeSegHead', held')
    BY <1>3, <2>1
  <2> QED
    BY <1>3, <2>2, <2>3 DEF IInv
<1>4. CASE UNCHANGED vars
  BY <1>4 DEF vars, IInv, TypeInv, Laid, Sound, Spelled, Follows, Tiled, Starts, Heads, Segments
<1>5. ASSUME NEW bytes \in Requests, Alloc(bytes), UNCHANGED misplaced PROVE IInv'
  <2>1. CASE \E k \in 0..HeapBlocks : Takes(k, BlocksFor(bytes), bytes)
    <3>1. PICK k \in 0..HeapBlocks : Takes(k, BlocksFor(bytes), bytes)
      BY <2>1
    <3>2. Laid(desc', freeSegHead') /\ HeldType(held', desc')
      BY <1>1, <3>1, TakesLaid
    <3>3. outcome' = "ok"
      BY <3>1 DEF Takes
    <3>4. ~misplaced => \E K : Sound(K, desc', freeSegHead', held')
      BY <1>1, <1>2, <3>1, TakesSound
    <3>5. misplaced' = misplaced /\ misplaced \in BOOLEAN
      BY <1>1, <1>5 DEF TypeInv
    <3> QED
      BY <1>3, <3>2, <3>3, <3>4, <3>5
  <2>2. CASE /\ UNCHANGED <<freeSegHead, desc, held>>
             /\ outcome' = IF Ends THEN "ok" ELSE "hangs"
    <3>1. Laid(desc', freeSegHead') /\ HeldType(held', desc') /\ misplaced' \in BOOLEAN
      BY <1>1, <1>5, <2>2 DEF TypeInv, HeldType
    <3>2. ASSUME ~misplaced PROVE outcome' = "ok" /\ \E K : Sound(K, desc', freeSegHead', held')
      <4>1. PICK L : Sound(L, desc, freeSegHead, held)
        BY <1>2, <3>2
      <4>2. Path[HeapBlocks] = Null
        BY <1>1, <4>1, PathSound DEF Ascends
      <4>3. Ends
        BY <4>2, HeapAssumption DEF Ends
      <4> QED
        BY <2>2, <4>1, <4>3
    <3>3. outcome' \in {"ok", "hangs", "fault"} /\ misplaced' = misplaced
      BY <1>5, <2>2
    <3> QED
      BY <1>3, <3>1, <3>2, <3>3
  <2> QED
    BY <1>5, <2>1, <2>2, AllocTakes
<1>6. ASSUME NEW s \in held, Free(s[1]), held' = held \ {s},
             misplaced' = (misplaced \/ Misplaces(s[1]))
      PROVE  IInv'
  <2>1. s[1] \in Segments(desc) /\ HeldType(held, desc) /\ misplaced \in BOOLEAN
    BY <1>1 DEF TypeInv, HeldType
  <2>2. /\ Laid(desc', freeSegHead') /\ Segments(desc') = Segments(desc)
        /\ outcome' \in {"ok", "hangs", "fault"}
    BY <1>1, <1>6, <2>1, FreeLaid
  <2>3. HeldType(held', desc')
    BY <1>6, <2>1, <2>2 DEF HeldType
  <2>4. misplaced' \in BOOLEAN /\ (~misplaced' => ~misplaced /\ ~Misplaces(s[1]))
    BY <1>6, <2>1
  <2>5. ASSUME ~misplaced' PROVE outcome' = "ok" /\ \E K : Sound(K, desc', freeSegHead', held')
    <3>1. PICK L : Sound(L, desc, freeSegHead, held)
      BY <1>2, <2>4, <2>5
    <3>2. outcome = "ok" /\ ~Misplaces(s[1])
      BY <1>2, <2>4, <2>5
    <3> QED
      BY <1>1, <1>6, <3>1, <3>2, FreeSound
  <2> QED
    BY <1>3, <2>2, <2>3, <2>4, <2>5
<1> QED
  BY <1>4, <1>5, <1>6 DEF Next

(* Descriptors stay descriptors, and a segment in the list or held has at   *)
(* least a block, even after the list has got out of order and a cycle:     *)
(* whatever mem_alloc and mem_free follow or write is a segment or null.    *)
THEOREM TypeCorrect == Spec => []TypeOK
<1>1. IInv => TypeOK
  <2> SUFFICES ASSUME IInv PROVE TypeOK
    OBVIOUS
  <2>1. TypeInv /\ Laid(desc, freeSegHead)
    BY DEF IInv, TypeInv
  <2>2. freeSegHead \in Addresses \cup {Null}
    BY <2>1 DEF Laid, Segments
  <2>3. desc \in [Addresses -> [size : 0..HeapBlocks, next : Pointers, prev : Pointers]]
    BY <2>1 DEF Laid, Descs, Desc
  <2>4. \A a \in Linked : desc[a].size # 0
    <3>1. \A a \in Linked : \E k \in 0..HeapBlocks : a = Path[k] /\ Path[k] # Null
      BY DEF Linked
    <3>2. \A k \in 0..HeapBlocks : Path[k] # Null => Path[k] \in Segments(desc)
      BY <2>1, PathAt
    <3> QED
      BY <3>1, <3>2 DEF Segments
  <2>5. held \subseteq Addresses \X (1..HeapBlocks) \X Requests
    <3>1. Segments(desc) \subseteq Addresses
      BY DEF Segments
    <3> QED
      BY <2>1, <3>1 DEF TypeInv
  <2> QED
    BY <2>1, <2>2, <2>3, <2>4, <2>5 DEF TypeInv, TypeOK
<1> QED
  BY <1>1, InitInv, StepInv, PTL DEF Spec

(* Until mem_free has linked a segment in at a wrong place, nothing is      *)
(* handed out twice or lost, every segment is as large as asked for, the    *)
(* list is sorted and every call returns, for a heap of any size and        *)
(* whatever is asked for.                                                   *)
THEOREM AlwaysSoundUntilMisplaced == Spec => []SoundUntilMisplaced
<1>1. IInv => SoundUntilMisplaced
  <2> SUFFICES ASSUME IInv, ~misplaced PROVE Disjoint /\ Roomy /\ NothingLost /\ Sorted /\ Returns
    BY DEF SoundUntilMisplaced
  <2>1. TypeInv /\ Laid(desc, freeSegHead) /\ HeldType(held, desc) /\ outcome = "ok"
    BY DEF IInv, TypeInv, HeldType
  <2>2. PICK L : Sound(L, desc, freeSegHead, held)
    BY DEF IInv
  <2>3. Ascends(Path, L) /\ L \in SUBSET Addresses /\ L \subseteq Segments(desc)
    BY <2>1, <2>2, PathSound
  <2>4. Fitting(L, desc, held) /\ Covers(Starts(L, held), desc)
    BY <2>2, TiledParts DEF Sound
  <2>5. Linked = L
    <3>1. \A a \in Linked : a \in L
      BY <2>3 DEF Linked, Ascends
    <3>2. ASSUME NEW a \in L PROVE a \in Linked
      <4>1. PICK k \in 0..(HeapBlocks - 1) : Path[k] = a
        BY <2>3 DEF Ascends
      <4>2. k \in 0..HeapBlocks /\ a # Null
        BY <2>3, AddressRange
      <4> QED
        BY <4>1, <4>2 DEF Linked
    <3> QED
      BY <3>1, <3>2
  <2> DEFINE A == Starts(L, held)
             All == held \cup FreeSegments
  <2>6. ASSUME NEW s \in All
        PROVE  /\ s[1] \in A /\ s[2] = desc[s[1]].size
               /\ s \in held \/ (s[1] \in L /\ s = <<s[1], desc[s[1]].size>>)
    <3>1. CASE s \in held
      BY <2>1, <2>4, <3>1, HeadsAre DEF Fitting, Starts
    <3>2. CASE s \in FreeSegments
      BY <2>5, <3>2 DEF FreeSegments, Starts
    <3> QED
      BY <3>1, <3>2
  <2>7. \A a \in A : \E s \in All : s[1] = a /\ s[2] = desc[a].size
    <3>1. ASSUME NEW a \in L PROVE \E s \in All : s[1] = a /\ s[2] = desc[a].size
      <4>1. <<a, desc[a].size>> \in FreeSegments
        BY <2>5 DEF FreeSegments
      <4> QED
        BY <4>1
    <3>2. ASSUME NEW a \in Heads(held) PROVE \E s \in All : s[1] = a /\ s[2] = desc[a].size
      BY <2>4 DEF Heads, Fitting
    <3> QED
      BY <3>1, <3>2 DEF Starts
  <2>8. \A a \in A : /\ a \in Addresses /\ a \in 0..(HeapBlocks - 1)
                     /\ desc[a].size \in 1..HeapBlocks /\ a + desc[a].size <= HeapBlocks
    <3>1. A \subseteq Segments(desc)
      BY <2>1, <2>3, HeadsAre DEF Starts
    <3> QED
      BY <2>1, <3>1, SizeType DEF Laid
  <2>9. /\ \A a, b \in A : a < b => a + desc[a].size <= b
        /\ \A x \in Addresses : \E a \in A : a <= x /\ x < a + desc[a].size
    BY <2>4 DEF Covers
  <2>10. \A s, t \in All : s # t => s[1] # t[1]
    <3> SUFFICES ASSUME NEW s \in All, NEW t \in All, s[1] = t[1] PROVE s = t
      OBVIOUS
    <3>1. s \in held /\ t \in held => s = t
      BY <2>4 DEF Fitting
    <3>2. \A u \in held : u[1] \notin L
      BY <2>4 DEF Fitting
    <3> QED
      BY <2>6, <3>1, <3>2
  <2> HIDE DEF A, All
  <2>11. Disjoint
    <3> SUFFICES ASSUME NEW s \in All, NEW t \in All, s # t
                 PROVE  Blocks(s) \cap Blocks(t) = {}
      BY DEF Disjoint, All
    <3> DEFINE a == s[1]
               b == t[1]
               m == s[2]
               n == t[2]
    <3>1. a \in A /\ b \in A /\ m = desc[a].size /\ n = desc[b].size /\ a # b
      BY <2>6, <2>10
    <3>2. Blocks(s) = a..(a + m - 1) /\ Blocks(t) = b..(b + n - 1)
      BY DEF Blocks
    <3>3. a \in Int /\ b \in Int /\ m \in Int /\ n \in Int
      BY <2>8, <3>1, HeapAssumption
    <3>4. (a < b => a + m <= b) /\ (b < a => b + n <= a)
      BY <2>9, <3>1
    <3> HIDE DEF a, b, m, n
    <3>5. a..(a + m - 1) \cap b..(b + n - 1) = {}
      BY <3>1, <3>3, <3>4
    <3> QED
      BY <3>2, <3>5
  <2>12. Roomy
    BY <2>4 DEF Roomy, Fitting
  <2>13. NothingLost
    <3>1. ASSUME NEW s \in All PROVE Blocks(s) \subseteq Addresses
      <4>1. /\ s[1] \in 0..(HeapBlocks - 1) /\ s[2] \in 1..HeapBlocks
            /\ s[1] + s[2] <= HeapBlocks /\ HeapBlocks \in Nat
        BY <2>6, <2>8, HeapAssumption
      <4> QED
        BY <4>1, AddressRange DEF Blocks
    <3>2. ASSUME NEW x \in Addresses PROVE \E s \in All : x \in Blocks(s)
      <4>1. PICK a \in A : a <= x /\ x < a + desc[a].size
        BY <2>9
      <4>2. PICK s \in All : s[1] = a /\ s[2] = desc[a].size
        BY <2>7
      <4>3. x \in Int /\ a \in Int /\ desc[a].size \in Int
        BY <2>8, AddressRange, HeapAssumption
      <4>4. Blocks(s) = a..(a + desc[a].size - 1)
        BY <4>2 DEF Blocks
      <4> DEFINE z == desc[a].size
      <4> HIDE DEF z
      <4>5. x \in a..(a + z - 1)
        BY <4>1, <4>3 DEF z
      <4> QED
        BY <4>4, <4>5 DEF z
    <3> QED
      BY <3>1, <3>2 DEF NothingLost, All
  <2>14. Sorted
    BY <2>3 DEF Sorted, Ascends
  <2>15. Returns
    BY <2>1 DEF Returns
  <2> QED
    BY <2>11, <2>12, <2>13, <2>14, <2>15
<1> QED
  BY <1>1, InitInv, StepInv, PTL DEF Spec

-------------------------------------------------------------------------------
(* Where a descriptor is shorter than a block, tryToMerge does nothing. *)
LEMMA MergeNever ==
  ASSUME NEW d, NEW h, Laid(d, h), NEW main \in Segments(d), NEW other \in Segments(d),
         DescSize < BlockSize
  PROVE  Merge(d, main, other) = d
<1>1. DescSize # BlockSize
  BY SizesAssumption
<1>2. main * BlockSize + d[main].size * DescSize # other * BlockSize
  BY <1>1, MergeTest
<1> QED
  BY <1>2 DEF Merge

(* mem_free changes no size then. *)
LEMMA FreeSizes ==
  ASSUME TypeInv, DescSize < BlockSize, NEW tmp \in Segments(desc), Free(tmp)
  PROVE  \A a \in Addresses : desc'[a].size = desc[a].size
<1>1. /\ Laid(desc, freeSegHead) /\ desc \in Descs /\ tmp \in Addresses
      /\ \A a \in Segments(desc) : a \in Addresses
  BY DEF TypeInv, Laid, Segments
<1>2. CASE IntoEmpty(tmp)
  <2>1. desc' = WithLinks(desc, tmp, Null, Null)
    BY <1>2 DEF IntoEmpty, WithLinks
  <2>2. Null \in Pointers
    BY DEF Pointers
  <2> QED
    BY <1>1, <2>1, <2>2, PairSet
<1>3. CASE /\ freeSegHead # Null /\ Stops(tmp) # {}
           /\ LET curr == Path[Min(Stops(tmp))]
              IN  AsFirst(tmp, curr) \/ AsLast(tmp, curr) \/ Between(tmp, curr)
  <2> DEFINE k == Min(Stops(tmp))
             curr == Path[k]
  <2>1. k \in 0..HeapBlocks /\ curr # Null
    <3>1. Stops(tmp) \in SUBSET Nat
      BY HeapAssumption DEF Stops
    <3>2. k \in Stops(tmp)
      BY <1>3, <3>1, MinOfNats
    <3> QED
      BY <3>2 DEF Stops
  <2>2. curr \in Segments(desc) /\ curr \in Addresses
    BY <1>1, <2>1, PathAt
  <2>3. AsFirst(tmp, curr) \/ AsLast(tmp, curr) \/ Between(tmp, curr)
    BY <1>3
  <2> HIDE DEF curr, k
  <2>4. CASE AsFirst(tmp, curr)
    <3> DEFINE e == InFront(desc, tmp, curr)
    <3>1. desc' = Merge(e, tmp, curr)
      BY <2>4 DEF AsFirst, InFront
    <3>2. \A a \in Addresses : e[a].size = desc[a].size
      BY <1>1, <2>2, FirstSet
    <3>3. Laid(e, tmp) /\ Segments(e) = Segments(desc)
      BY <1>1, <2>2, LinkLaid
    <3> HIDE DEF e
    <3>4. Merge(e, tmp, curr) = e
      BY <2>2, <3>3, MergeNever
    <3> QED
      BY <3>1, <3>2, <3>4
  <2>5. CASE AsLast(tmp, curr)
    <3> DEFINE e == Behind(desc, tmp, curr)
    <3>1. desc' = Merge(e, curr, tmp)
      BY <2>5 DEF AsLast, Behind
    <3>2. \A a \in Addresses : e[a].size = desc[a].size
      BY <1>1, <2>2, LastSet
    <3>3. Laid(e, freeSegHead) /\ Segments(e) = Segments(desc)
      BY <1>1, <2>2, LinkLaid
    <3> HIDE DEF e
    <3>4. Merge(e, curr, tmp) = e
      BY <2>2, <3>3, MergeNever
    <3> QED
      BY <3>1, <3>2, <3>4
  <2>6. CASE Between(tmp, curr) /\ desc[curr].prev \notin Addresses
    BY <2>6 DEF Between
  <2>7. CASE Between(tmp, curr) /\ desc[curr].prev \in Addresses
    <3> DEFINE before == desc[curr].prev
               e == Amid(desc, tmp, curr, before)
    <3>1. LET m == Merge(e, tmp, curr) IN desc' = Merge(m, m[tmp].prev, tmp)
      BY <2>7 DEF Between, Amid
    <3>2. before \in Segments(desc) /\ before \in Addresses
      <4>1. before \in Segments(desc) \cup {Null, Unset}
        BY <1>1, <2>2 DEF Laid
      <4>2. Unset \notin Addresses /\ Null \notin Addresses
        BY HeapAssumption DEF Unset, Null, Addresses
      <4> QED
        BY <2>7, <4>1, <4>2
    <3> HIDE DEF before
    <3>3. /\ \A a \in Addresses : e[a].size = desc[a].size
          /\ e[tmp].prev = IF tmp = curr THEN tmp ELSE before
      BY <1>1, <2>2, <3>2, BetweenSet
    <3>4. Laid(e, freeSegHead) /\ Segments(e) = Segments(desc)
      BY <1>1, <2>2, <3>2, LinkLaid
    <3> HIDE DEF e
    <3>5. Merge(e, tmp, curr) = e
      BY <2>2, <3>4, MergeNever
    <3>6. e[tmp].prev \in Segments(e)
      BY <3>2, <3>3, <3>4
    <3>7. Merge(e, e[tmp].prev, tmp) = e
      BY <3>4, <3>6, MergeNever
    <3> QED
      BY <3>1, <3>3, <3>5, <3>7
  <2> QED
    BY <2>3, <2>4, <2>5, <2>6, <2>7
<1>4. CASE freeSegHead # Null /\ Stops(tmp) = {} /\ desc' = desc
  BY <1>4
<1> QED
  BY <1>2, <1>3, <1>4 DEF Free

(* mem_alloc makes the segment it takes shorter, or no segment at all: the  *)
(* rest of a split begins where there was none.                             *)
LEMMA TakeSizes ==
  ASSUME TypeInv, DescSize < BlockSize, NEW bytes \in Requests, NEW k \in 0..HeapBlocks,
         Takes(k, BlocksFor(bytes), bytes), NEW a \in Segments(desc)
  PROVE  desc'[a].size \in 1..desc[a].size
<1> DEFINE n == BlocksFor(bytes)
           c == Path[k]
           q == Path[k - 1]
           r == Rest(c, n)
           e == Cut(c, n)
<1>1. n \in Nat \ {0}
  BY BlocksSuffice
<1>2. c # Null /\ n <= desc[c].size /\ (desc' = e \/ (k > 0 /\ desc' = WithNext(e, q, r)))
  BY DEF Takes
<1>3. c \in Segments(desc) /\ (k > 0 => q \in Segments(desc))
  BY <1>2, PathAt
<1>4. Laid(desc, freeSegHead) /\ a \in Addresses
  BY DEF TypeInv, Segments
<1>5. /\ c \in Nat /\ a \in Nat /\ desc[c].size \in Nat /\ desc[a].size \in 1..HeapBlocks
      /\ HeapBlocks \in Nat
  BY <1>3, <1>4, SizeType, HeapAssumption
<1> HIDE DEF n, c, q
<1>6. e[a].size \in 1..desc[a].size
  <2>1. CASE ~(n < desc[c].size)
    <3>1. e = desc
      BY <2>1 DEF Cut
    <3> QED
      BY <1>5, <3>1
  <2>2. CASE n < desc[c].size
    <3>1. e[a].size = IF a = c THEN n ELSE IF a = c + n THEN desc[c].size - n ELSE desc[a].size
      BY <1>1, <1>3, <1>4, <2>2, SplitLaid DEF Cut
    <3>2. c < a => c + desc[c].size <= a
      BY <1>3, <1>4 DEF Laid
    <3> DEFINE z == desc[c].size
    <3> HIDE DEF z, e
    <3>3. a # c + n
      BY <1>1, <1>5, <2>2, <3>2 DEF z
    <3> QED
      BY <1>1, <1>5, <2>2, <3>1, <3>3
  <2> QED
    BY <2>1, <2>2
<1>7. /\ e \in Descs /\ r \in Pointers
      /\ k > 0 => q \in Addresses
  <2>1. /\ \A h \in Segments(e) \cup {Null} : Laid(e, h)
        /\ r \in Segments(e) \cup {Null}
    BY <1>1, <1>2, <1>3, CutLaid
  <2> QED
    BY <1>3, <2>1 DEF Laid, Segments, Pointers
<1> HIDE DEF e, r
<1>8. CASE k > 0 /\ desc' = WithNext(e, q, r)
  <2>1. desc'[a].size = e[a].size
    BY <1>4, <1>7, <1>8, NextSet
  <2> QED
    BY <1>6, <2>1
<1> QED
  BY <1>2, <1>6, <1>8

(* For any heap whose descriptors are shorter than a block, as they are     *)
(* here (32 bytes of 64), no call of mem_alloc or mem_free makes a segment  *)
(* grow: tryToMerge never merges.                                           *)
THEOREM NeverMerged == DescSize < BlockSize => (Spec => SegmentsOnlyCut)
<1> SUFFICES ASSUME DescSize < BlockSize PROVE Spec => SegmentsOnlyCut
  OBVIOUS
<1> DEFINE Cuts == \A a \in Addresses : desc[a].size # 0 => desc'[a].size \in 1..desc[a].size
<1>1. IInv /\ [Next]_vars => [Cuts]_vars
  <2> SUFFICES ASSUME IInv, Next, NEW a \in Segments(desc)
               PROVE  desc'[a].size \in 1..desc[a].size
    BY DEF Segments
  <2>1. TypeInv /\ a \in Addresses /\ desc[a].size \in 1..HeapBlocks
    BY SizeType DEF IInv, TypeInv
  <2>2. desc[a].size \in 1..desc[a].size
    BY <2>1, HeapAssumption
  <2>3. CASE \E bytes \in Requests : Alloc(bytes)
    BY <2>1, <2>2, <2>3, AllocTakes, TakeSizes
  <2>4. CASE \E s \in held : Free(s[1])
    <3>1. PICK s \in held : Free(s[1])
      BY <2>4
    <3>2. s[1] \in Segments(desc)
      BY <2>1 DEF TypeInv
    <3>3. desc'[a].size = desc[a].size
      BY <2>1, <3>1, <3>2, FreeSizes
    <3> QED
      BY <2>2, <3>3
  <2> QED
    BY <2>3, <2>4 DEF Next
<1>2. [][Cuts]_vars => SegmentsOnlyCut
  BY PTL DEF SegmentsOnlyCut
<1> QED
  BY <1>1, <1>2, InitInv, StepInv, PTL DEF Spec
===============================================================================
