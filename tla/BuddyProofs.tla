------------------------------ MODULE BuddyProofs ------------------------------
(***************************************************************************)
(* Proofs about the buddy allocator, for a heap of any number of sizes.    *)
(*                                                                         *)
(* The chunks of all sizes form a tree, and everything is said about the   *)
(* chunk of an entry around a block, MergedAddress(k, e).  Given the       *)
(* chunks that are held, what the lists have to contain is determined: the *)
(* largest chunks that none of them overlaps (MaxFree).  Taking a chunk    *)
(* out of one of these (Room) or giving it back changes MaxFree in the     *)
(* entries from its own to that of the room, and there by one chunk.       *)
(***************************************************************************)
EXTENDS Buddy, Lemmas

(* Every chunk has at least one block. *)
LEMMA SizePositive ==
  \A e \in Entries : Size[e] \in Nat \ {0}
<1> DEFINE Bad == {e \in Entries : Size[e] \notin Nat \ {0}}
<1>1. SUFFICES ASSUME Bad # {} PROVE FALSE
  OBVIOUS
<1>2. Bad \in SUBSET Nat
  BY DEF Entries
<1>3. Min(Bad) \in Bad /\ \A e \in Bad : Min(Bad) <= e
  BY <1>1, <1>2, MinOfNats
<1> DEFINE m == Min(Bad)
<1>4. m \in Entries /\ Size[m] \notin Nat \ {0} /\ \A e \in Entries : e < m => Size[e] \in Nat \ {0}
  <2>1. m \in Entries /\ Size[m] \notin Nat \ {0}
    BY <1>3
  <2>2. \A e \in Entries : e \in Bad => m <= e
    BY <1>3
  <2> HIDE DEF m
  <2>3. \A e \in Entries : e < m => e \notin Bad
    BY <2>1, <2>2 DEF Entries
  <2> QED
    BY <2>1, <2>3
<1> HIDE DEF m, Bad
<1>5. CASE m = 0
  BY <1>4, <1>5, BuddyAssumption DEF BuddyAssumption
<1>6. CASE m # 0
  <2>1. m - 1 \in Entries /\ m \in 1..NSizesMax /\ m - 1 < m
    BY <1>4, <1>6, BuddyAssumption DEF BuddyAssumption, Entries
  <2>2. Size[m - 1] \in Nat \ {0}
    BY <1>4, <2>1
  <2>3. Size[m] = 2 * Size[m - 1]
    BY <2>1, BuddyAssumption DEF BuddyAssumption
  <2> QED
    BY <1>4, <2>2, <2>3
<1> QED
  BY <1>5, <1>6

(* A larger chunk is so many smaller ones. *)
LEMMA SizeMultiple ==
  ASSUME NEW e \in Entries, NEW f \in e..NSizesMax
  PROVE  \E q \in Nat \ {0} : Size[f] = q * Size[e]
<1> DEFINE Holds(g) == \E q \in Nat \ {0} : Size[g] = q * Size[e]
           Bad == {g \in e..NSizesMax : ~Holds(g)}
<1>1. SUFFICES ASSUME Bad # {} PROVE FALSE
  OBVIOUS
<1>2. Bad \in SUBSET Nat /\ e \in Nat
  BY BuddyAssumption DEF Entries
<1>3. Min(Bad) \in Bad /\ \A g \in Bad : Min(Bad) <= g
  BY <1>1, <1>2, MinOfNats
<1> DEFINE m == Min(Bad)
<1>4. m \in e..NSizesMax /\ ~Holds(m) /\ \A g \in e..NSizesMax : g < m => Holds(g)
  <2>1. m \in e..NSizesMax /\ ~Holds(m)
    BY <1>3
  <2>2. \A g \in e..NSizesMax : g \in Bad => m <= g
    BY <1>3
  <2> HIDE DEF m, Holds
  <2>3. \A g \in e..NSizesMax : g < m => g \notin Bad
    BY <1>2, <2>1, <2>2
  <2> QED
    BY <2>1, <2>3
<1> HIDE DEF m, Bad
<1>5. CASE m = e
  <2>1. Size[e] = 1 * Size[e]
    BY SizePositive
  <2> QED
    BY <1>4, <1>5, <2>1
<1>6. CASE m # e
  <2>1. m - 1 \in e..NSizesMax /\ m \in 1..NSizesMax /\ m - 1 < m /\ NSizesMax \in Nat
    BY <1>2, <1>4, <1>6, BuddyAssumption DEF BuddyAssumption, Entries
  <2>2. PICK q \in Nat \ {0} : Size[m - 1] = q * Size[e]
    BY <1>4, <2>1
  <2>3. Size[m] = 2 * Size[m - 1]
    BY <2>1, BuddyAssumption DEF BuddyAssumption
  <2>4. Size[e] \in Nat
    BY SizePositive
  <2>5. 2 * (q * Size[e]) = (2 * q) * Size[e] /\ 2 * q \in Nat \ {0}
    BY <2>4
  <2> QED
    BY <1>4, <2>2, <2>3, <2>5
<1> QED
  BY <1>5, <1>6

(* The heap is so many chunks of every size. *)
LEMMA SizeProduct ==
  ASSUME NEW e \in Entries
  PROVE  Size[NSizesMax - e] * Size[e] = HeapSize
<1> DEFINE Holds(g) == Size[NSizesMax - g] * Size[g] = HeapSize
           Bad == {g \in Entries : ~Holds(g)}
<1>1. SUFFICES ASSUME Bad # {} PROVE FALSE
  OBVIOUS
<1>2. Bad \in SUBSET Nat
  BY DEF Entries
<1>3. Min(Bad) \in Bad /\ \A g \in Bad : Min(Bad) <= g
  BY <1>1, <1>2, MinOfNats
<1> DEFINE m == Min(Bad)
<1>4. m \in Entries /\ ~Holds(m) /\ \A g \in Entries : g < m => Holds(g)
  <2>1. m \in Entries /\ ~Holds(m)
    BY <1>3
  <2>2. \A g \in Entries : g \in Bad => m <= g
    BY <1>3
  <2> HIDE DEF m, Holds
  <2>3. \A g \in Entries : g < m => g \notin Bad
    BY <2>1, <2>2 DEF Entries
  <2> QED
    BY <2>1, <2>3
<1> HIDE DEF m, Bad
<1>5. CASE m = 0
  <2>1. NSizesMax - 0 = NSizesMax /\ NSizesMax \in Entries
    BY BuddyAssumption DEF BuddyAssumption, Entries
  <2>2. Size[0] = 1 /\ Size[NSizesMax] \in Nat
    BY <2>1, SizePositive, BuddyAssumption DEF BuddyAssumption
  <2>3. Size[NSizesMax] * 1 = Size[NSizesMax]
    BY <2>2
  <2> QED
    BY <1>4, <1>5, <2>1, <2>2, <2>3 DEF HeapSize
<1>6. CASE m # 0
  <2> DEFINE g == NSizesMax - m
  <2>1. /\ m - 1 \in Entries /\ m \in 1..NSizesMax /\ m - 1 < m
        /\ g \in Entries /\ g + 1 \in 1..NSizesMax /\ NSizesMax - (m - 1) = g + 1 /\ g + 1 - 1 = g
        /\ m \in Entries
    BY <1>4, <1>6, BuddyAssumption DEF BuddyAssumption, Entries
  <2> HIDE DEF g
  <2>2. Size[g + 1] * Size[m - 1] = HeapSize
    BY <1>4, <2>1
  <2>3. Size[m] = 2 * Size[m - 1] /\ Size[g + 1] = 2 * Size[g]
    BY <2>1, BuddyAssumption DEF BuddyAssumption
  <2>4. Size[g] \in Nat /\ Size[m - 1] \in Nat
    BY <2>1, SizePositive
  <2>5. Size[g] * (2 * Size[m - 1]) = (2 * Size[g]) * Size[m - 1]
    BY <2>4
  <2>6. Size[g] * Size[m] = HeapSize
    BY <2>2, <2>3, <2>5
  <2> QED
    BY <1>4, <2>6 DEF g
<1> QED
  BY <1>5, <1>6

-------------------------------------------------------------------------------
(* The blocks of the heap, and the blocks in the chunk of entry e around k. *)
Heap == 0 .. (HeapSize - 1)

(* The chunk of entry e around k starts at most at k and ends behind it. *)
LEMMA ChunkBounds ==
  ASSUME NEW k \in Heap, NEW e \in Entries
  PROVE  /\ k \div Size[e] \in 0 .. (Size[NSizesMax - e] - 1)
         /\ MergedAddress(k, e) \in Heap
         /\ MergedAddress(k, e) <= k /\ k < MergedAddress(k, e) + Size[e]
         /\ MergedAddress(k, e) + Size[e] <= HeapSize
<1> DEFINE C == Size[e]
           D == Size[NSizesMax - e]
           p == k \div C
<1>1. NSizesMax - e \in Entries /\ NSizesMax \in Entries
  BY BuddyAssumption DEF BuddyAssumption, Entries
<1>2. C \in Nat \ {0} /\ D \in Nat \ {0} /\ D * C = HeapSize /\ HeapSize \in Nat \ {0}
  BY <1>1, SizePositive, SizeProduct DEF HeapSize
<1>3. k \in Nat /\ k < HeapSize
  BY <1>2 DEF Heap
<1> HIDE DEF C, D
<1>4. p \in Nat /\ p * C <= k /\ k < p * C + C
  BY <1>2, <1>3, DivBounds
<1> HIDE DEF p
<1>5. C * p = p * C /\ C * D = D * C /\ p * C \in Int /\ D * C \in Int
  BY <1>2, <1>4
<1>6. p < D
  <2>1. p > D => p * C >= D * C + C
    BY <1>2, <1>4, <1>5, Multiples
  <2>2. p = D => p * C = D * C
    OBVIOUS
  <2> QED
    BY <1>2, <1>3, <1>4, <1>5, <2>1, <2>2
<1>7. p * C + C <= D * C
  BY <1>2, <1>4, <1>5, <1>6, Multiples
<1>8. MergedAddress(k, e) = p * C
  BY DEF MergedAddress, p, C
<1>9. p * C \in Nat
  BY <1>2, <1>4
<1> QED
  BY <1>2, <1>3, <1>4, <1>6, <1>7, <1>8, <1>9 DEF Heap, p, C, D

(* The chunk around k is the one that starts at most at k and ends behind it. *)
LEMMA ChunkUnique ==
  ASSUME NEW k \in Heap, NEW e \in Entries, NEW q \in Int,
         q * Size[e] <= k, k < q * Size[e] + Size[e]
  PROVE  k \div Size[e] = q /\ MergedAddress(k, e) = q * Size[e]
<1>1. Size[e] \in Nat \ {0} /\ k \in Nat
  BY SizePositive DEF Heap
<1>2. k \div Size[e] = q
  BY <1>1, DivUnique
<1> QED
  BY <1>2 DEF MergedAddress

(* The start of a chunk is in the chunk, and in the same larger ones. *)
LEMMA Coarser ==
  ASSUME NEW k \in Heap, NEW e \in Entries, NEW f \in e..NSizesMax
  PROVE  MergedAddress(MergedAddress(k, e), f) = MergedAddress(k, f)
<1> DEFINE a == MergedAddress(k, e)
           p == k \div Size[e]
           q == k \div Size[f]
           C == Size[e]
<1>1. f \in Entries /\ e \in Nat
  BY BuddyAssumption DEF BuddyAssumption, Entries
<1>2. /\ a \in Heap /\ a <= k /\ a = p * C /\ p \in Int /\ k < p * C + C
      /\ q * Size[f] <= k /\ k < q * Size[f] + Size[f] /\ q \in Int
      /\ k \in Nat /\ a \in Nat
  BY <1>1, ChunkBounds DEF MergedAddress, Heap
<1>3. PICK r \in Nat \ {0} : Size[f] = r * C
  BY SizeMultiple
<1>4. C \in Nat \ {0} /\ Size[f] \in Nat
  BY <1>1, SizePositive
<1> HIDE DEF a, p, q, C
<1>5. q * Size[f] = (q * r) * C /\ q * r \in Int
  BY <1>2, <1>3, <1>4
<1>6. ~(q * r > p)
  <2> DEFINE n == q * r
  <2>1. n \in Int /\ n * C <= k
    BY <1>2, <1>5
  <2> HIDE DEF n
  <2>2. C * n = n * C /\ C * p = p * C /\ C * n \in Int /\ C * p \in Int
    BY <1>2, <1>4, <2>1
  <2>3. n > p => n * C >= p * C + C
    BY <1>2, <1>4, <2>1, <2>2, Multiples
  <2>4. ~(n > p)
    BY <1>2, <1>4, <2>1, <2>2, <2>3
  <2> QED
    BY <2>4 DEF n
<1>7. (q * r) * C <= p * C
  <2> DEFINE n == q * r
  <2>1. n \in Int /\ ~(n > p)
    BY <1>5, <1>6
  <2> HIDE DEF n
  <2>2. C * n = n * C /\ C * p = p * C /\ C * n \in Int /\ C * p \in Int
    BY <1>2, <1>4, <2>1
  <2>3. p > n => p * C >= n * C + C
    BY <1>2, <1>4, <2>1, <2>2, Multiples
  <2>4. p = n => p * C = n * C
    OBVIOUS
  <2>5. n * C <= p * C
    BY <1>2, <1>4, <2>1, <2>2, <2>3, <2>4
  <2> QED
    BY <2>5 DEF n
<1>8. q * Size[f] <= a /\ a < q * Size[f] + Size[f]
  <2>1. q * Size[f] \in Int
    BY <1>2, <1>4
  <2> QED
    BY <1>2, <1>4, <1>5, <1>7, <2>1
<1>9. MergedAddress(a, f) = q * Size[f]
  BY <1>1, <1>2, <1>8, ChunkUnique
<1> QED
  BY <1>9 DEF a, q, MergedAddress

(* Blocks in one chunk are in the same larger ones. *)
LEMMA Together ==
  ASSUME NEW j \in Heap, NEW k \in Heap, NEW e \in Entries, NEW f \in e..NSizesMax,
         MergedAddress(j, e) = MergedAddress(k, e)
  PROVE  MergedAddress(j, f) = MergedAddress(k, f)
  BY Coarser, Zenon

(* The start of a chunk is aligned to its size. *)
LEMMA Start ==
  ASSUME NEW k \in Heap, NEW e \in Entries
  PROVE  MergedAddress(MergedAddress(k, e), e) = MergedAddress(k, e)
<1>1. e \in e..NSizesMax
  BY BuddyAssumption DEF BuddyAssumption, Entries
<1> QED
  BY <1>1, Coarser

(* All blocks are in the whole heap, and a block is a chunk by itself. *)
LEMMA Extremes ==
  ASSUME NEW k \in Heap
  PROVE  MergedAddress(k, NSizesMax) = 0 /\ MergedAddress(k, 0) = k
<1>1. NSizesMax \in Entries /\ 0 \in Entries /\ Size[0] = 1
  BY BuddyAssumption DEF BuddyAssumption, Entries
<1>2. HeapSize \in Nat \ {0} /\ k \in Nat /\ k < HeapSize /\ HeapSize = Size[NSizesMax]
  BY <1>1, SizePositive DEF Heap, HeapSize
<1>3. 0 * Size[NSizesMax] = 0 /\ k * Size[0] = k /\ 0 \in Int /\ k \in Int
  BY <1>1, <1>2
<1>4. MergedAddress(k, NSizesMax) = 0
  BY <1>1, <1>2, <1>3, ChunkUnique
<1>5. MergedAddress(k, 0) = k
  <2>1. k * Size[0] <= k /\ k < k * Size[0] + Size[0]
    BY <1>1, <1>2, <1>3
  <2>2. MergedAddress(k, 0) = k * Size[0]
    BY <1>1, <1>3, <2>1, ChunkUnique
  <2> QED
    BY <1>3, <2>2
<1> QED
  BY <1>4, <1>5

-------------------------------------------------------------------------------
(* The buddy of the chunk of entry e around k. *)
BuddyOf(k, e) == BuddyAddress(MergedAddress(k, e), e)

(* A chunk of entry e has the same bit whichever of its blocks is asked for. *)
LEMMA BitOfStart ==
  ASSUME NEW k \in Heap, NEW e \in Entries
  PROVE  BitIndex(MergedAddress(k, e), e) = BitIndex(k, e)
<1> DEFINE a == MergedAddress(k, e)
           p == k \div Size[e]
<1>1. a \in Heap /\ p \in Int /\ Size[e] \in Nat \ {0}
  BY ChunkBounds, SizePositive, SMT DEF Heap
<1>2. a = p * Size[e] /\ p * Size[e] \in Int
  BY <1>1 DEF MergedAddress
<1> HIDE DEF a, p
<1>3. p * Size[e] <= a /\ a < p * Size[e] + Size[e]
  BY <1>1, <1>2
<1>4. a \div Size[e] = p
  BY <1>1, <1>3, ChunkUnique
<1> QED
  BY <1>4 DEF BitIndex, a, p

(* The chunk around k and its buddy are the halves of the next larger one,  *)
(* and the bit of the buddy is the one find_buddy_index gives.              *)
LEMMA Halves ==
  ASSUME NEW k \in Heap, NEW e \in 0..(NSizesMax - 1)
  PROVE  LET b == BuddyOf(k, e)
         IN  /\ b \in Heap /\ MergedAddress(b, e) = b
             /\ b # MergedAddress(k, e)
             /\ MergedAddress(b, e + 1) = MergedAddress(k, e + 1)
             /\ \A j \in Heap : MergedAddress(j, e + 1) = MergedAddress(k, e + 1)
                  => MergedAddress(j, e) \in {MergedAddress(k, e), b}
             /\ FindBuddyIndex(BitIndex(k, e)) = BitIndex(b, e)
             /\ MergedAddress(k, e + 1) = MergedAddress(k, e)
                  => b = MergedAddress(k, e) + Size[e]
<1> DEFINE C == Size[e]
           a == MergedAddress(k, e)
           b == BuddyOf(k, e)
           p == k \div C
           H == Size[NSizesMax - (e + 1)]
           top == Size[NSizesMax - e]
           bit == BitIndex(k, e)
<1>1. /\ e \in Entries /\ e + 1 \in Entries /\ NSizesMax - (e + 1) \in Entries
      /\ NSizesMax - e \in 1..NSizesMax /\ e + 1 \in 1..NSizesMax
      /\ (NSizesMax - e) - 1 = NSizesMax - (e + 1) /\ (e + 1) - 1 = e
  BY BuddyAssumption DEF BuddyAssumption, Entries
<1>2. top = 2 * H /\ Size[e + 1] = 2 * C
  <2>1. Size[NSizesMax - e] = 2 * Size[(NSizesMax - e) - 1]
    BY <1>1, BuddyAssumption DEF BuddyAssumption
  <2>2. Size[e + 1] = 2 * Size[(e + 1) - 1]
    BY <1>1, BuddyAssumption DEF BuddyAssumption
  <2> QED
    BY <1>1, <2>1, <2>2
<1>3. C \in Nat \ {0} /\ H \in Nat \ {0}
  BY <1>1, SizePositive
<1>4. /\ p \in 0..(top - 1) /\ a \in Heap /\ a <= k /\ k < a + C /\ a + C <= HeapSize
      /\ k \in Nat /\ a = p * C
  BY <1>1, ChunkBounds DEF Heap, MergedAddress
<1>5. bit = top - 1 + p
  BY DEF BitIndex
<1>6. top * C = HeapSize
  BY <1>1, SizeProduct
<1>7. b = a + C * (FindBuddyIndex(bit) - bit)
  BY <1>1, BitOfStart DEF BuddyOf, BuddyAddress
<1> HIDE DEF C, a, b, p, H, top, bit
(* Chunks of the next entry, by the halves they consist of. *)
<1>8. ASSUME NEW j \in Heap
      PROVE  \E s \in Nat :
               /\ MergedAddress(j, e + 1) = (2 * s) * C
               /\ (j \div C = 2 * s /\ MergedAddress(j, e) = (2 * s) * C)
                    \/ (j \div C = 2 * s + 1 /\ MergedAddress(j, e) = (2 * s + 1) * C)
  <2> DEFINE s == j \div (2 * C)
             q == j \div C
  <2>1. j \in Nat /\ 2 * C \in Nat \ {0}
    BY <1>3 DEF Heap
  <2>2. s \in Nat /\ s * (2 * C) <= j /\ j < s * (2 * C) + 2 * C
    BY <2>1, DivBounds
  <2>3. MergedAddress(j, e + 1) = s * (2 * C)
    BY <1>2 DEF MergedAddress
  <2>4. MergedAddress(j, e) = q * C
    BY DEF MergedAddress, C
  <2> HIDE DEF s, q
  <2>5. s * (2 * C) = (2 * s) * C /\ (2 * s + 1) * C = (2 * s) * C + C
        /\ (2 * s) * C \in Nat
    BY <1>3, <2>2
  <2>6. CASE j < (2 * s) * C + C
    <3> DEFINE n == 2 * s
    <3>1. n \in Int /\ n * C <= j /\ j < n * C + C
      BY <2>2, <2>5, <2>6
    <3> HIDE DEF n
    <3>2. q = n
      BY <1>3, <2>1, <3>1, DivUnique DEF q
    <3> QED
      BY <2>2, <2>3, <2>4, <2>5, <3>2 DEF n, q
  <2>7. CASE ~(j < (2 * s) * C + C)
    <3> DEFINE n == 2 * s + 1
    <3>1. n \in Int /\ n * C <= j /\ j < n * C + C
      BY <1>3, <2>1, <2>2, <2>5, <2>7
    <3> HIDE DEF n
    <3>2. q = n
      BY <1>3, <2>1, <3>1, DivUnique DEF q
    <3> QED
      BY <2>2, <2>3, <2>4, <2>5, <3>2 DEF n, q
  <2> QED
    BY <2>6, <2>7
<1>9. PICK r \in Nat : /\ MergedAddress(k, e + 1) = (2 * r) * C
                       /\ (p = 2 * r /\ a = (2 * r) * C)
                            \/ (p = 2 * r + 1 /\ a = (2 * r + 1) * C)
  BY <1>8 DEF p, a
<1>10. (2 * r + 1) * C = (2 * r) * C + C /\ (2 * r) * C \in Nat
  BY <1>3
<1>11. FindBuddyIndex(bit) = top - 1 + (IF p = 2 * r THEN 2 * r + 1 ELSE 2 * r)
       /\ FindBuddyIndex(bit) - bit = (IF p = 2 * r THEN 1 ELSE -1)
  <2>1. CASE p = 2 * r
    <3>1. bit = 2 * (H + r - 1) + 1 /\ H + r - 1 \in Int
      BY <1>2, <1>3, <1>5, <2>1
    <3>2. bit % 2 = 1
      BY <3>1, RemainderIs
    <3> QED
      BY <1>2, <1>3, <1>5, <2>1, <3>2 DEF FindBuddyIndex
  <2>2. CASE p = 2 * r + 1
    <3>1. bit = 2 * (H + r) + 0 /\ H + r \in Int
      BY <1>2, <1>3, <1>5, <2>2
    <3>2. bit % 2 = 0
      BY <3>1, RemainderIs
    <3> QED
      BY <1>2, <1>3, <1>5, <2>2, <3>2 DEF FindBuddyIndex
  <2> QED
    BY <1>9, <2>1, <2>2
<1>12. b = (IF p = 2 * r THEN (2 * r) * C + C ELSE (2 * r) * C)
  <2>1. C * 1 = C /\ C * (-1) = -C
    BY <1>3
  <2> QED
    BY <1>3, <1>7, <1>9, <1>10, <1>11, <2>1
<1>13. b \in Heap /\ b \div C = (IF p = 2 * r THEN 2 * r + 1 ELSE 2 * r) /\ MergedAddress(b, e) = b
  <2> DEFINE q == IF p = 2 * r THEN 2 * r + 1 ELSE 2 * r
  <2>1. q \in 0..(top - 1)
    BY <1>2, <1>3, <1>4, <1>9
  <2>2. b = q * C
    BY <1>10, <1>12
  <2>3. b \in Nat
    BY <1>3, <1>10, <1>12
  <2> HIDE DEF q
  <2>4. b + C <= HeapSize
    <3>1. C * q = q * C /\ C * top = top * C /\ q \in Int /\ top \in Int /\ top > q
          /\ C * top \in Int
      BY <1>2, <1>3, <2>1
    <3> QED
      BY <1>3, <1>6, <2>2, <3>1, Multiples
  <2>5. b \in Heap
    <3>1. HeapSize \in Nat
      BY <1>3, <1>6, <1>2
    <3> QED
      BY <1>3, <2>3, <2>4, <3>1 DEF Heap
  <2>6. q * C <= b /\ b < q * C + C /\ q \in Int
    BY <1>3, <2>1, <2>2, <2>3
  <2>7. b \div C = q /\ MergedAddress(b, e) = q * C
    BY <1>1, <2>5, <2>6, ChunkUnique DEF C
  <2> QED
    BY <2>2, <2>5, <2>7 DEF q
<1>14. b # a
  BY <1>3, <1>9, <1>10, <1>12
<1>15. MergedAddress(b, e + 1) = MergedAddress(k, e + 1)
  <2>1. PICK s \in Nat : /\ MergedAddress(b, e + 1) = (2 * s) * C
                         /\ b \div C = 2 * s \/ b \div C = 2 * s + 1
    BY <1>8, <1>13
  <2>2. s = r
    BY <1>9, <1>13, <2>1
  <2> QED
    BY <1>9, <2>1, <2>2
<1>16. ASSUME NEW j \in Heap, MergedAddress(j, e + 1) = MergedAddress(k, e + 1)
       PROVE  MergedAddress(j, e) \in {a, b}
  <2>1. PICK s \in Nat : /\ MergedAddress(j, e + 1) = (2 * s) * C
                         /\ MergedAddress(j, e) = (2 * s) * C \/ MergedAddress(j, e) = (2 * s + 1) * C
    BY <1>8
  <2>2. s = r
    <3> DEFINE x == 2 * s
               y == 2 * r
    <3>1. x \in Int /\ y \in Int /\ x * C = y * C
      BY <1>9, <1>16, <2>1
    <3>2. x = y => s = r
      OBVIOUS
    <3> HIDE DEF x, y
    <3>3. C * x = x * C /\ C * y = y * C /\ C * x \in Int
      BY <1>3, <3>1
    <3>4. ~(x > y) /\ ~(y > x)
      BY <1>3, <3>1, <3>3, Multiples
    <3> QED
      BY <3>1, <3>2, <3>4
  <2> QED
    BY <1>9, <1>10, <1>12, <2>1, <2>2
<1>17. FindBuddyIndex(bit) = BitIndex(b, e)
  BY <1>11, <1>13 DEF BitIndex, top, C
<1>18. MergedAddress(k, e + 1) = a => b = a + C
  BY <1>3, <1>9, <1>10, <1>12
<1> QED
  BY <1>13, <1>14, <1>15, <1>16, <1>17, <1>18 DEF a, b, bit, C

(* The bits of the chunks of one entry, a row of the bitmap. *)
LEMMA BitInRow ==
  ASSUME NEW k \in Heap, NEW e \in Entries
  PROVE  LET row == Size[NSizesMax - e]
         IN  /\ row \in Nat \ {0} /\ row <= HeapSize
             /\ BitIndex(k, e) \in (row - 1) .. (2 * row - 2)
             /\ BitIndex(k, e) \in 0 .. (2 * HeapSize - 1)
<1> DEFINE row == Size[NSizesMax - e]
           p == k \div Size[e]
<1>1. NSizesMax - e \in Entries
  BY BuddyAssumption DEF BuddyAssumption, Entries
<1>2. row \in Nat \ {0} /\ Size[e] \in Nat \ {0} /\ row * Size[e] = HeapSize
  BY <1>1, SizePositive, SizeProduct
<1>3. p \in 0..(row - 1)
  BY ChunkBounds
<1>4. BitIndex(k, e) = row - 1 + p
  BY DEF BitIndex
<1> HIDE DEF row, p
<1>5. row <= HeapSize
  <2> DEFINE C == Size[e]
  <2>1. C \in Nat \ {0} /\ row * C = HeapSize
    BY <1>2
  <2> HIDE DEF C
  <2>2. PICK n \in Nat : C = 1 + n
    BY <2>1
  <2>3. row * C = row + row * n /\ row * n \in Nat
    BY <1>2, <2>2
  <2> QED
    BY <1>2, <2>1, <2>3
<1>6. HeapSize \in Nat
  BY <1>2
<1> QED
  BY <1>2, <1>3, <1>4, <1>5, <1>6 DEF row

(* Rows do not overlap: the one of the larger entry is in front. *)
LEMMA RowsApart ==
  ASSUME NEW e \in Entries, NEW f \in Entries, e < f
  PROVE  2 * Size[NSizesMax - f] <= Size[NSizesMax - e]
<1> DEFINE g == NSizesMax - f
<1>1. /\ g \in Entries /\ g + 1 \in Entries /\ g + 1 \in 1..NSizesMax
      /\ NSizesMax - e \in (g + 1)..NSizesMax /\ (g + 1) - 1 = g
  BY BuddyAssumption DEF BuddyAssumption, Entries
<1> DEFINE D == Size[g + 1]
<1>2. PICK q \in Nat \ {0} : Size[NSizesMax - e] = q * D
  BY <1>1, SizeMultiple
<1>3. D = 2 * Size[g]
  BY <1>1, BuddyAssumption DEF BuddyAssumption
<1>4. D \in Nat
  BY <1>1, SizePositive
<1> HIDE DEF D, g
<1>5. PICK n \in Nat : q = 1 + n
  BY <1>2
<1>6. q * D = D + n * D /\ n * D \in Nat
  BY <1>4, <1>5
<1> QED
  BY <1>2, <1>3, <1>4, <1>6 DEF g

(* Different chunks have different bits, and bit 0 is that of the heap. *)
LEMMA BitsApart ==
  ASSUME NEW j \in Heap, NEW k \in Heap, NEW e \in Entries, NEW f \in Entries,
         BitIndex(j, e) = BitIndex(k, f)
  PROVE  e = f /\ MergedAddress(j, e) = MergedAddress(k, e)
<1>1. ASSUME NEW c \in Entries, NEW d \in Entries, NEW x \in Heap, NEW y \in Heap, c < d
      PROVE  BitIndex(x, c) # BitIndex(y, d)
  <2>1. 2 * Size[NSizesMax - d] <= Size[NSizesMax - c]
    BY <1>1, RowsApart
  <2>2. /\ BitIndex(x, c) \in (Size[NSizesMax - c] - 1) .. (2 * Size[NSizesMax - c] - 2)
        /\ Size[NSizesMax - c] \in Nat
    BY BitInRow
  <2>3. /\ BitIndex(y, d) \in (Size[NSizesMax - d] - 1) .. (2 * Size[NSizesMax - d] - 2)
        /\ Size[NSizesMax - d] \in Nat
    BY BitInRow
  <2> QED
    BY <2>1, <2>2, <2>3
<1>2. e = f
  <2>1. ~(e < f) /\ ~(f < e)
    BY <1>1
  <2> QED
    BY <2>1, BuddyAssumption DEF BuddyAssumption, Entries
<1>3. j \div Size[e] = k \div Size[e]
  <2>1. j \div Size[e] \in Int /\ k \div Size[e] \in Int
    BY ChunkBounds
  <2>2. Size[NSizesMax - e] \in Int
    BY BitInRow
  <2> QED
    BY <1>2, <2>1, <2>2 DEF BitIndex
<1> QED
  BY <1>2, <1>3 DEF MergedAddress

(* The bit of the whole heap is bit 0, and no other chunk has it. *)
LEMMA FirstBit ==
  ASSUME NEW k \in Heap, NEW e \in Entries
  PROVE  BitIndex(k, e) = 0 <=> e = NSizesMax
<1>1. NSizesMax \in Entries /\ NSizesMax - NSizesMax = 0 /\ Size[0] = 1
  BY BuddyAssumption DEF BuddyAssumption, Entries
<1>2. BitIndex(k, NSizesMax) = 0
  <2>1. BitIndex(k, NSizesMax) \in (Size[NSizesMax - NSizesMax] - 1) .. (2 * Size[NSizesMax - NSizesMax] - 2)
    BY <1>1, BitInRow
  <2> QED
    BY <1>1, <2>1
<1>3. BitIndex(k, e) = 0 => e = NSizesMax
  BY <1>1, <1>2, BitsApart
<1> QED
  BY <1>2, <1>3

(* A chunk of that entry consists of the blocks around which it is. *)
LEMMA BlocksOf ==
  ASSUME NEW a \in Heap, NEW e \in Entries, MergedAddress(a, e) = a
  PROVE  Blocks(<<a, e>>) = {k \in Heap : MergedAddress(k, e) = a}
<1>1. Size[e] \in Nat \ {0} /\ HeapSize \in Nat
  <2>1. NSizesMax \in Entries
    BY BuddyAssumption DEF BuddyAssumption, Entries
  <2> QED
    BY <2>1, SizePositive DEF HeapSize
<1>2. a + Size[e] <= HeapSize /\ a \in Nat
  BY ChunkBounds DEF Heap
<1>3. Blocks(<<a, e>>) = a .. (a + Size[e] - 1)
  BY DEF Blocks
<1>4. ASSUME NEW k \in a .. (a + Size[e] - 1)
      PROVE  k \in Heap /\ MergedAddress(k, e) = a
  <2> DEFINE q == a \div Size[e]
  <2>1. k \in Heap
    BY <1>1, <1>2 DEF Heap
  <2>2. q \in Int /\ a = q * Size[e]
    BY ChunkBounds DEF MergedAddress
  <2> HIDE DEF q
  <2>3. MergedAddress(k, e) = q * Size[e]
    BY <1>1, <1>2, <2>1, <2>2, ChunkUnique
  <2> QED
    BY <2>1, <2>2, <2>3
<1>5. ASSUME NEW k \in Heap, MergedAddress(k, e) = a
      PROVE  k \in a .. (a + Size[e] - 1)
  BY <1>1, <1>2, <1>5, ChunkBounds DEF Heap
<1> QED
  BY <1>3, <1>4, <1>5

-------------------------------------------------------------------------------
(* Chunks as the callers hold them, at an address their size divides. *)
Chunks == {c \in Heap \X Entries : MergedAddress(c[1], c[2]) = c[1]}

(* The chunk c and the chunk of entry e around k have blocks in common: one *)
(* of them lies in the other.                                               *)
Overlaps(c, k, e) ==
  \/ c[2] <= e /\ MergedAddress(c[1], e) = MergedAddress(k, e)
  \/ e <= c[2] /\ MergedAddress(k, c[2]) = c[1]

(* Some chunk of H overlaps the chunk of entry e around k; is part of it.   *)
Touched(H, k, e) == \E c \in H : Overlaps(c, k, e)
UsedIn(H, k, e)  == \E c \in H : c[2] <= e /\ MergedAddress(c[1], e) = MergedAddress(k, e)

(* The largest chunks that H does not touch, those of entry e. *)
MaxFree(H, e) ==
  {a \in Heap : /\ MergedAddress(a, e) = a
                /\ ~Touched(H, a, e)
                /\ e = NSizesMax \/ Touched(H, a, e + 1)}

(* What overlaps a chunk overlaps the larger ones around it. *)
LEMMA OverlapUp ==
  ASSUME NEW c \in Chunks, NEW k \in Heap, NEW e \in Entries, NEW f \in e..NSizesMax,
         Overlaps(c, k, e)
  PROVE  Overlaps(c, k, f)
<1>1. /\ c[1] \in Heap /\ c[2] \in Entries /\ MergedAddress(c[1], c[2]) = c[1]
      /\ f \in Entries /\ NSizesMax \in Nat /\ e \in Nat /\ c[2] \in Nat /\ f \in Nat
      /\ e <= f /\ f <= NSizesMax
  BY BuddyAssumption DEF BuddyAssumption, Entries, Chunks
<1>2. CASE c[2] <= e /\ MergedAddress(c[1], e) = MergedAddress(k, e)
  <2>1. MergedAddress(c[1], f) = MergedAddress(k, f)
    BY <1>1, <1>2, Together
  <2> QED
    BY <1>1, <1>2, <2>1 DEF Overlaps
<1>3. CASE e <= c[2] /\ MergedAddress(k, c[2]) = c[1]
  <2>1. CASE f <= c[2]
    BY <1>3, <2>1 DEF Overlaps
  <2>2. CASE c[2] <= f
    <3>1. f \in c[2]..NSizesMax
      BY <1>1, <2>2
    <3>2. MergedAddress(MergedAddress(k, c[2]), f) = MergedAddress(k, f)
      BY <1>1, <3>1, Coarser
    <3> QED
      BY <1>3, <2>2, <3>2 DEF Overlaps
  <2> QED
    BY <1>1, <2>1, <2>2
<1> QED
  BY <1>2, <1>3 DEF Overlaps

(* It does not matter around which of its blocks a chunk is taken. *)
LEMMA OverlapSame ==
  ASSUME NEW c \in Chunks, NEW j \in Heap, NEW k \in Heap, NEW e \in Entries,
         MergedAddress(j, e) = MergedAddress(k, e), Overlaps(c, j, e)
  PROVE  Overlaps(c, k, e)
<1>1. c[2] \in Entries /\ e \in Nat /\ c[2] \in Nat /\ c[2] <= NSizesMax /\ NSizesMax \in Nat
  BY BuddyAssumption DEF BuddyAssumption, Entries, Chunks
<1>2. CASE c[2] <= e /\ MergedAddress(c[1], e) = MergedAddress(j, e)
  BY <1>2 DEF Overlaps
<1>3. CASE e <= c[2] /\ MergedAddress(j, c[2]) = c[1]
  <2>1. c[2] \in e..NSizesMax
    BY <1>1, <1>3
  <2>2. MergedAddress(j, c[2]) = MergedAddress(k, c[2])
    BY <2>1, Together
  <2> QED
    BY <1>3, <2>2 DEF Overlaps
<1> QED
  BY <1>2, <1>3 DEF Overlaps

(* What overlaps the next larger chunk and not the chunk lies in its buddy. *)
LEMMA OverlapSplit ==
  ASSUME NEW c \in Chunks, NEW k \in Heap, NEW e \in 0..(NSizesMax - 1)
  PROVE  Overlaps(c, k, e + 1) /\ ~Overlaps(c, k, e)
           <=> c[2] <= e /\ MergedAddress(c[1], e) = BuddyOf(k, e)
<1> DEFINE b == BuddyOf(k, e)
<1>1. /\ c[1] \in Heap /\ c[2] \in Entries /\ MergedAddress(c[1], c[2]) = c[1]
      /\ e \in Entries /\ e + 1 \in Entries /\ e + 1 \in e..NSizesMax /\ e \in Nat /\ c[2] \in Nat
  BY BuddyAssumption DEF BuddyAssumption, Entries, Chunks
<1>2. /\ b \in Heap /\ MergedAddress(b, e) = b /\ b # MergedAddress(k, e)
      /\ MergedAddress(b, e + 1) = MergedAddress(k, e + 1)
      /\ \A j \in Heap : MergedAddress(j, e + 1) = MergedAddress(k, e + 1)
           => MergedAddress(j, e) \in {MergedAddress(k, e), b}
  BY Halves
<1> HIDE DEF b
<1>3. ASSUME Overlaps(c, k, e + 1), ~Overlaps(c, k, e)
      PROVE  c[2] <= e /\ MergedAddress(c[1], e) = b
  <2>1. ~(e + 1 <= c[2] /\ MergedAddress(k, c[2]) = c[1])
    BY <1>1, <1>3 DEF Overlaps
  <2>2. c[2] <= e + 1 /\ MergedAddress(c[1], e + 1) = MergedAddress(k, e + 1)
    BY <1>3, <2>1 DEF Overlaps
  <2>3. c[2] # e + 1
    BY <1>1, <2>1, <2>2
  <2>4. c[2] <= e
    BY <1>1, <2>2, <2>3
  <2>5. MergedAddress(c[1], e) # MergedAddress(k, e)
    BY <1>3, <2>4 DEF Overlaps
  <2> QED
    BY <1>1, <1>2, <2>2, <2>4, <2>5
<1>4. ASSUME c[2] <= e, MergedAddress(c[1], e) = b
      PROVE  Overlaps(c, k, e + 1) /\ ~Overlaps(c, k, e)
  <2>1. MergedAddress(c[1], e + 1) = MergedAddress(k, e + 1)
    <3>1. MergedAddress(c[1], e + 1) = MergedAddress(b, e + 1)
      BY <1>1, <1>2, <1>4, Together
    <3> QED
      BY <1>2, <3>1
  <2>2. c[2] <= e + 1
    BY <1>1, <1>4
  <2>3. ASSUME e <= c[2] PROVE MergedAddress(k, c[2]) # c[1]
    <3>1. c[2] = e
      BY <1>1, <1>4, <2>3
    <3> QED
      BY <1>1, <1>2, <1>4, <3>1
  <2> QED
    BY <1>2, <1>4, <2>1, <2>2, <2>3 DEF Overlaps
<1> QED
  BY <1>3, <1>4 DEF b

(* The same for the chunks of a set. *)
LEMMA TouchedUp ==
  ASSUME NEW H \in SUBSET Chunks, NEW k \in Heap, NEW e \in Entries, NEW f \in e..NSizesMax,
         Touched(H, k, e)
  PROVE  Touched(H, k, f)
  BY OverlapUp DEF Touched

(* Nor does the block matter for a set. *)
LEMMA TouchedSame ==
  ASSUME NEW H \in SUBSET Chunks, NEW j \in Heap, NEW k \in Heap, NEW e \in Entries,
         MergedAddress(j, e) = MergedAddress(k, e)
  PROVE  Touched(H, j, e) <=> Touched(H, k, e)
  BY OverlapSame DEF Touched

(* Around a block that nothing touches there is a largest such chunk, and   *)
(* all chunks around the block up to that one are untouched.                *)
LEMMA LargestAround ==
  ASSUME NEW H \in SUBSET Chunks, NEW k \in Heap, NEW t \in Entries, ~Touched(H, k, t)
  PROVE  \E f \in t..NSizesMax : MergedAddress(k, f) \in MaxFree(H, f)
<1> DEFINE Tops == {f \in t..NSizesMax : f = NSizesMax \/ Touched(H, k, f + 1)}
           f == Min(Tops)
<1>1. t \in Nat /\ NSizesMax \in Nat /\ NSizesMax \in Tops
  BY BuddyAssumption DEF BuddyAssumption, Entries
<1>2. Tops \in SUBSET Nat
  BY <1>1
<1>3. f \in Tops /\ \A g \in Tops : f <= g
  BY <1>1, <1>2, MinOfNats
<1> HIDE DEF f
<1>4. f \in t..NSizesMax /\ (f = NSizesMax \/ Touched(H, k, f + 1)) /\ f \in Nat /\ f \in Entries
  BY <1>1, <1>3 DEF Entries
<1>5. ~Touched(H, k, f)
  <2>1. CASE f = t
    BY <2>1
  <2>2. CASE f # t
    <3>1. f - 1 \in t..NSizesMax /\ ~(f <= f - 1) /\ f - 1 # NSizesMax /\ (f - 1) + 1 = f
      BY <1>1, <1>4, <2>2
    <3>2. f - 1 \notin Tops
      BY <1>3, <3>1
    <3> QED
      BY <3>1, <3>2
  <2> QED
    BY <2>1, <2>2
<1>6. MergedAddress(k, f) \in Heap /\ MergedAddress(MergedAddress(k, f), f) = MergedAddress(k, f)
  BY <1>4, ChunkBounds, Start
<1>7. ~Touched(H, MergedAddress(k, f), f)
  BY <1>4, <1>5, <1>6, TouchedSame
<1>8. f = NSizesMax \/ Touched(H, MergedAddress(k, f), f + 1)
  <2>1. ASSUME f # NSizesMax PROVE Touched(H, MergedAddress(k, f), f + 1)
    <3>1. f + 1 \in f..NSizesMax /\ f + 1 \in Entries
      BY <1>1, <1>4, <2>1 DEF Entries
    <3>2. MergedAddress(MergedAddress(k, f), f + 1) = MergedAddress(k, f + 1)
      BY <1>4, <3>1, Coarser
    <3> QED
      BY <1>4, <1>6, <2>1, <3>1, <3>2, TouchedSame
  <2> QED
    BY <2>1
<1>9. MergedAddress(k, f) \in MaxFree(H, f)
  BY <1>6, <1>7, <1>8 DEF MaxFree
<1> QED
  BY <1>4, <1>9

-------------------------------------------------------------------------------
(* The chunk of entry t at x is not touched by H, and the largest untouched *)
(* chunk around it is of entry f.                                           *)
Room(H, x, t, f) ==
  /\ H \in SUBSET Chunks /\ x \in Heap /\ t \in Entries /\ MergedAddress(x, t) = x
  /\ f \in t..NSizesMax /\ MergedAddress(x, f) \in MaxFree(H, f)

(* Up to f the chunks around x are untouched, above it they are in use. *)
LEMMA AroundRoom ==
  ASSUME NEW H, NEW x, NEW t, NEW f, Room(H, x, t, f), NEW e \in Entries
  PROVE  /\ e <= f => ~Touched(H, x, e)
         /\ e > f => UsedIn(H, x, e) /\ Touched(H, x, e)
<1>1. /\ H \in SUBSET Chunks /\ x \in Heap /\ t \in Entries
      /\ f \in t..NSizesMax /\ MergedAddress(x, f) \in MaxFree(H, f)
  BY DEF Room
<1>2. /\ f \in Entries /\ f \in Nat /\ e \in Nat /\ e <= NSizesMax /\ NSizesMax \in Nat
      /\ f <= NSizesMax
  BY <1>1, BuddyAssumption DEF BuddyAssumption, Entries
<1>3. MergedAddress(x, f) \in Heap /\ MergedAddress(MergedAddress(x, f), f) = MergedAddress(x, f)
  BY <1>1, <1>2, ChunkBounds, Start
<1>4. ~Touched(H, x, f)
  BY <1>1, <1>2, <1>3, TouchedSame DEF MaxFree
<1>5. ASSUME e <= f PROVE ~Touched(H, x, e)
  <2>1. f \in e..NSizesMax
    BY <1>2, <1>5
  <2> QED
    BY <1>1, <1>4, <2>1, TouchedUp
<1>6. ASSUME e > f PROVE UsedIn(H, x, e) /\ Touched(H, x, e)
  <2>1. /\ f \in 0..(NSizesMax - 1) /\ f + 1 \in f..NSizesMax /\ f + 1 \in Entries
        /\ e \in (f + 1)..NSizesMax /\ f # NSizesMax
    BY <1>2, <1>6 DEF Entries
  <2>2. Touched(H, MergedAddress(x, f), f + 1)
    BY <1>1, <2>1 DEF MaxFree
  <2>3. MergedAddress(MergedAddress(x, f), f + 1) = MergedAddress(x, f + 1)
    BY <1>1, <1>2, <2>1, Coarser
  <2>4. Touched(H, x, f + 1)
    BY <1>1, <1>3, <2>1, <2>2, <2>3, TouchedSame
  <2>5. PICK d \in H : Overlaps(d, x, f + 1)
    BY <2>4 DEF Touched
  <2>6. ~Overlaps(d, x, f)
    BY <1>4 DEF Touched
  <2>7. d \in Chunks /\ d[1] \in Heap /\ d[2] \in Entries
    BY <1>1 DEF Chunks
  <2>8. d[2] <= f /\ MergedAddress(d[1], f) = BuddyOf(x, f)
    BY <1>1, <2>1, <2>5, <2>6, <2>7, OverlapSplit
  <2>9. d[2] \in Nat /\ d[2] <= e
    BY <1>2, <1>6, <2>7, <2>8 DEF Entries
  <2>10. /\ BuddyOf(x, f) \in Heap /\ MergedAddress(BuddyOf(x, f), f) = BuddyOf(x, f)
         /\ MergedAddress(BuddyOf(x, f), f + 1) = MergedAddress(x, f + 1)
    BY <1>1, <2>1, Halves
  <2>11. MergedAddress(d[1], f + 1) = MergedAddress(x, f + 1)
    <3>1. MergedAddress(d[1], f + 1) = MergedAddress(BuddyOf(x, f), f + 1)
      BY <1>2, <2>1, <2>7, <2>8, <2>10, Together
    <3> QED
      BY <2>10, <3>1
  <2>12. MergedAddress(d[1], e) = MergedAddress(x, e)
    BY <1>1, <2>1, <2>7, <2>11, Together
  <2>13. UsedIn(H, x, e)
    BY <2>9, <2>12 DEF UsedIn
  <2>14. Touched(H, x, e)
    BY <2>9, <2>12 DEF Touched, Overlaps
  <2> QED
    BY <2>13, <2>14
<1> QED
  BY <1>5, <1>6

(* What the chunk in the room overlaps. *)
LEMMA RoomOverlaps ==
  ASSUME NEW H, NEW x, NEW t, NEW f, Room(H, x, t, f), NEW k \in Heap, NEW e \in Entries
  PROVE  /\ t <= e => (Overlaps(<<x, t>>, k, e) <=> MergedAddress(x, e) = MergedAddress(k, e))
         /\ e <= t => (Overlaps(<<x, t>>, k, e) <=> MergedAddress(k, t) = x)
         /\ e > t => (Overlaps(<<x, t>>, k, e) <=> MergedAddress(x, e) = MergedAddress(k, e))
<1>1. t \in Nat /\ e \in Nat /\ MergedAddress(x, t) = x
  BY DEF Room, Entries
<1>2. Overlaps(<<x, t>>, k, e) <=> \/ t <= e /\ MergedAddress(x, e) = MergedAddress(k, e)
                                   \/ e <= t /\ MergedAddress(k, t) = x
  BY DEF Overlaps
<1>3. CASE t = e
  BY <1>1, <1>2, <1>3
<1>4. CASE t < e
  BY <1>1, <1>2, <1>4
<1>5. CASE e < t
  BY <1>1, <1>2, <1>5
<1> QED
  BY <1>1, <1>3, <1>4, <1>5

(* Touching with the chunk in the room. *)
LEMMA RoomTouched ==
  ASSUME NEW H, NEW x, NEW t, NEW k, NEW e
  PROVE  Touched(H \cup {<<x, t>>}, k, e) <=> Touched(H, k, e) \/ Overlaps(<<x, t>>, k, e)
  BY DEF Touched

(* Taking the chunk in the room leaves the largest chunks of larger and of  *)
(* smaller entries as they are.                                             *)
LEMMA RoomElsewhere ==
  ASSUME NEW H, NEW x, NEW t, NEW f, Room(H, x, t, f), NEW e \in Entries, e > f \/ e < t
  PROVE  MaxFree(H \cup {<<x, t>>}, e) = MaxFree(H, e)
<1> DEFINE H1 == H \cup {<<x, t>>}
<1>1. /\ H \in SUBSET Chunks /\ x \in Heap /\ t \in Entries /\ MergedAddress(x, t) = x
      /\ f \in t..NSizesMax
  BY DEF Room
<1>2. /\ t \in Nat /\ e \in Nat /\ f \in Nat /\ e <= NSizesMax /\ NSizesMax \in Nat
      /\ t <= f /\ t <= NSizesMax /\ (e # NSizesMax => e + 1 \in Entries /\ e + 1 <= NSizesMax)
  BY <1>1, BuddyAssumption DEF BuddyAssumption, Entries
<1>3. ASSUME NEW a \in Heap, MergedAddress(a, e) = a, a \in MaxFree(H, e)
      PROVE  a \in MaxFree(H1, e)
  <2>1. ~Touched(H, a, e) /\ (e = NSizesMax \/ Touched(H, a, e + 1))
    BY <1>3 DEF MaxFree
  <2>2. ~Overlaps(<<x, t>>, a, e)
    <3>1. CASE e > f
      <4>1. Touched(H, x, e)
        BY <3>1, AroundRoom
      <4>2. MergedAddress(x, e) # MergedAddress(a, e)
        BY <1>1, <2>1, <4>1, TouchedSame
      <4> QED
        BY <1>2, <3>1, <4>2, RoomOverlaps
    <3>2. CASE e < t
      <4>1. SUFFICES ASSUME MergedAddress(a, t) = x PROVE FALSE
        BY <1>2, <3>2, RoomOverlaps
      <4>2. e # NSizesMax /\ e + 1 \in Entries /\ t \in (e + 1)..NSizesMax
        BY <1>2, <3>2
      <4>3. Touched(H, a, t)
        BY <1>1, <2>1, <4>2, TouchedUp
      <4>4. Touched(H, x, t)
        BY <1>1, <4>1, <4>3, TouchedSame
      <4> QED
        BY <1>1, <1>2, <4>4, AroundRoom
    <3> QED
      BY <3>1, <3>2
  <2>3. ~Touched(H1, a, e)
    BY <2>1, <2>2, RoomTouched
  <2>4. e = NSizesMax \/ Touched(H1, a, e + 1)
    BY <2>1, RoomTouched
  <2> QED
    BY <1>3, <2>3, <2>4 DEF MaxFree
<1>4. ASSUME NEW a \in Heap, MergedAddress(a, e) = a, a \in MaxFree(H1, e)
      PROVE  a \in MaxFree(H, e)
  <2>1. ~Touched(H1, a, e) /\ (e = NSizesMax \/ Touched(H1, a, e + 1))
    BY <1>4 DEF MaxFree
  <2>2. ~Touched(H, a, e) /\ ~Overlaps(<<x, t>>, a, e)
    BY <2>1, RoomTouched
  <2>3. ASSUME e # NSizesMax PROVE Touched(H, a, e + 1)
    <3>1. Touched(H, a, e + 1) \/ Overlaps(<<x, t>>, a, e + 1)
      BY <1>2, <2>1, <2>3, RoomTouched
    <3>2. CASE e > f /\ Overlaps(<<x, t>>, a, e + 1)
      <4>1. e + 1 \in Entries /\ e + 1 > f /\ t <= e + 1
        BY <1>2, <2>3, <3>2
      <4>2. MergedAddress(x, e + 1) = MergedAddress(a, e + 1)
        BY <3>2, <4>1, RoomOverlaps
      <4>3. Touched(H, x, e + 1)
        BY <4>1, AroundRoom
      <4> QED
        BY <1>1, <4>1, <4>2, <4>3, TouchedSame
    <3>3. CASE e < t /\ Overlaps(<<x, t>>, a, e + 1)
      <4>1. e + 1 \in Entries /\ e + 1 <= t /\ e <= t
        BY <1>2, <2>3, <3>3
      <4>2. MergedAddress(a, t) = x
        BY <3>3, <4>1, RoomOverlaps
      <4>3. Overlaps(<<x, t>>, a, e)
        BY <4>1, <4>2, RoomOverlaps
      <4> QED
        BY <2>2, <4>3
    <3> QED
      BY <3>1, <3>2, <3>3
  <2> QED
    BY <1>4, <2>2, <2>3 DEF MaxFree
<1>5. \A G : MaxFree(G, e) \subseteq {a \in Heap : MergedAddress(a, e) = a}
  BY DEF MaxFree
<1> HIDE DEF H1
<1>6. MaxFree(H1, e) = MaxFree(H, e)
  BY <1>3, <1>4, <1>5
<1> QED
  BY <1>6 DEF H1

(* It takes the largest chunk around it out of those of its entry. *)
LEMMA RoomTaken ==
  ASSUME NEW H, NEW x, NEW t, NEW f, Room(H, x, t, f)
  PROVE  MaxFree(H \cup {<<x, t>>}, f) = MaxFree(H, f) \ {MergedAddress(x, f)}
<1> DEFINE H1 == H \cup {<<x, t>>}
           top == MergedAddress(x, f)
<1>1. /\ H \in SUBSET Chunks /\ x \in Heap /\ t \in Entries /\ MergedAddress(x, t) = x
      /\ f \in t..NSizesMax
  BY DEF Room
<1>2. /\ t \in Nat /\ f \in Nat /\ f \in Entries /\ NSizesMax \in Nat
      /\ t <= f /\ (f # NSizesMax => f + 1 \in Entries /\ f + 1 > f /\ t <= f + 1)
  BY <1>1, BuddyAssumption DEF BuddyAssumption, Entries
<1>3. \A a \in Heap : MergedAddress(a, f) = a => (Overlaps(<<x, t>>, a, f) <=> a = top)
  BY <1>2, RoomOverlaps
<1> HIDE DEF top
<1>4. ASSUME NEW a \in Heap, MergedAddress(a, f) = a, a \in MaxFree(H, f), a # top
      PROVE  a \in MaxFree(H1, f)
  <2>1. ~Touched(H, a, f) /\ (f = NSizesMax \/ Touched(H, a, f + 1))
    BY <1>4 DEF MaxFree
  <2>2. ~Touched(H1, a, f) /\ (f = NSizesMax \/ Touched(H1, a, f + 1))
    BY <1>3, <1>4, <2>1, RoomTouched
  <2> QED
    BY <1>4, <2>2 DEF MaxFree
<1>5. ASSUME NEW a \in Heap, MergedAddress(a, f) = a, a \in MaxFree(H1, f)
      PROVE  a \in MaxFree(H, f) /\ a # top
  <2>1. ~Touched(H1, a, f) /\ (f = NSizesMax \/ Touched(H1, a, f + 1))
    BY <1>5 DEF MaxFree
  <2>2. ~Touched(H, a, f) /\ a # top
    BY <1>3, <1>5, <2>1, RoomTouched
  <2>3. ASSUME f # NSizesMax PROVE Touched(H, a, f + 1)
    <3>1. Touched(H, a, f + 1) \/ Overlaps(<<x, t>>, a, f + 1)
      BY <2>1, <2>3, RoomTouched
    <3>2. CASE Overlaps(<<x, t>>, a, f + 1)
      <4>1. MergedAddress(x, f + 1) = MergedAddress(a, f + 1)
        BY <1>2, <2>3, <3>2, RoomOverlaps
      <4>2. Touched(H, x, f + 1)
        BY <1>2, <2>3, AroundRoom
      <4> QED
        BY <1>1, <1>2, <2>3, <4>1, <4>2, TouchedSame
    <3> QED
      BY <3>1, <3>2
  <2> QED
    BY <1>5, <2>2, <2>3 DEF MaxFree
<1>6. \A G : MaxFree(G, f) \subseteq {a \in Heap : MergedAddress(a, f) = a}
  BY DEF MaxFree
<1> HIDE DEF H1
<1>7. MaxFree(H1, f) = MaxFree(H, f) \ {top}
  BY <1>4, <1>5, <1>6
<1> QED
  BY <1>7 DEF H1, top

(* And between t and f it leaves one new largest chunk of each entry: the   *)
(* buddy of the one around x.                                               *)
LEMMA RoomSplit ==
  ASSUME NEW H, NEW x, NEW t, NEW f, Room(H, x, t, f), NEW e \in t..(f - 1)
  PROVE  /\ MaxFree(H \cup {<<x, t>>}, e) = MaxFree(H, e) \cup {BuddyOf(x, e)}
         /\ BuddyOf(x, e) \notin MaxFree(H, e)
<1> DEFINE H1 == H \cup {<<x, t>>}
           b == BuddyOf(x, e)
<1>1. /\ H \in SUBSET Chunks /\ x \in Heap /\ t \in Entries /\ MergedAddress(x, t) = x
      /\ f \in t..NSizesMax
  BY DEF Room
<1>2. /\ t \in Nat /\ f \in Nat /\ NSizesMax \in Nat /\ e \in Entries /\ e \in 0..(NSizesMax - 1)
      /\ t <= e /\ e + 1 <= f /\ e <= f /\ e + 1 \in Entries /\ t <= e + 1 /\ e # NSizesMax
      /\ e + 1 \in e..NSizesMax
  BY <1>1, BuddyAssumption DEF BuddyAssumption, Entries
<1>3. ~Touched(H, x, e) /\ ~Touched(H, x, e + 1)
  BY <1>2, AroundRoom
<1>4. /\ b \in Heap /\ MergedAddress(b, e) = b /\ b # MergedAddress(x, e)
      /\ MergedAddress(b, e + 1) = MergedAddress(x, e + 1)
      /\ \A j \in Heap : MergedAddress(j, e + 1) = MergedAddress(x, e + 1)
           => MergedAddress(j, e) \in {MergedAddress(x, e), b}
  BY <1>1, <1>2, Halves
<1> HIDE DEF b
<1>5. ~Touched(H, b, e + 1) /\ ~Touched(H, b, e)
  <2>1. ~Touched(H, b, e + 1)
    BY <1>1, <1>2, <1>3, <1>4, TouchedSame
  <2> QED
    BY <1>1, <1>2, <1>4, <2>1, TouchedUp
<1>6. b \notin MaxFree(H, e)
  BY <1>2, <1>5 DEF MaxFree
<1>7. b \in MaxFree(H1, e)
  <2>1. ~Overlaps(<<x, t>>, b, e) /\ Overlaps(<<x, t>>, b, e + 1)
    BY <1>2, <1>4, RoomOverlaps
  <2>2. ~Touched(H1, b, e) /\ Touched(H1, b, e + 1)
    BY <1>5, <2>1, RoomTouched
  <2> QED
    BY <1>4, <2>2 DEF MaxFree
<1>8. ASSUME NEW a \in Heap, MergedAddress(a, e) = a, a \in MaxFree(H, e)
      PROVE  a \in MaxFree(H1, e)
  <2>1. ~Touched(H, a, e) /\ Touched(H, a, e + 1)
    BY <1>2, <1>8 DEF MaxFree
  <2>2. MergedAddress(a, e + 1) # MergedAddress(x, e + 1)
    BY <1>1, <1>2, <1>3, <2>1, TouchedSame
  <2>3. MergedAddress(a, e) # MergedAddress(x, e)
    BY <1>1, <1>2, <2>2, Together
  <2>4. ~Overlaps(<<x, t>>, a, e)
    BY <1>2, <2>3, RoomOverlaps
  <2>5. ~Touched(H1, a, e) /\ Touched(H1, a, e + 1)
    BY <2>1, <2>4, RoomTouched
  <2> QED
    BY <1>8, <2>5 DEF MaxFree
<1>9. ASSUME NEW a \in Heap, MergedAddress(a, e) = a, a \in MaxFree(H1, e)
      PROVE  a \in MaxFree(H, e) \cup {b}
  <2>1. ~Touched(H1, a, e) /\ Touched(H1, a, e + 1)
    BY <1>2, <1>9 DEF MaxFree
  <2>2. ~Touched(H, a, e) /\ ~Overlaps(<<x, t>>, a, e)
    BY <2>1, RoomTouched
  <2>3. CASE Touched(H, a, e + 1)
    BY <1>9, <2>2, <2>3 DEF MaxFree
  <2>4. CASE ~Touched(H, a, e + 1)
    <3>1. Overlaps(<<x, t>>, a, e + 1)
      BY <2>1, <2>4, RoomTouched
    <3>2. MergedAddress(a, e + 1) = MergedAddress(x, e + 1)
      BY <1>2, <3>1, RoomOverlaps
    <3>3. a \in {MergedAddress(x, e), b}
      BY <1>4, <1>9, <3>2
    <3>4. a # MergedAddress(x, e)
      BY <1>2, <1>9, <2>2, RoomOverlaps
    <3> QED
      BY <3>3, <3>4
  <2> QED
    BY <2>3, <2>4
<1>10. \A G : MaxFree(G, e) \subseteq {a \in Heap : MergedAddress(a, e) = a}
  BY DEF MaxFree
<1> HIDE DEF H1
<1>11. MaxFree(H1, e) = MaxFree(H, e) \cup {b}
  BY <1>7, <1>8, <1>9, <1>10
<1> QED
  BY <1>6, <1>11 DEF H1, b

(* An address that is aligned for a chunk is aligned for smaller ones. *)
LEMMA AlignedDown ==
  ASSUME NEW a \in Heap, NEW e \in Entries, NEW f \in e..NSizesMax, MergedAddress(a, f) = a
  PROVE  MergedAddress(a, e) = a
<1> DEFINE q == a \div Size[f]
           C == Size[e]
<1>1. f \in Entries
  BY BuddyAssumption DEF BuddyAssumption, Entries
<1>2. q \in Int /\ a = q * Size[f] /\ a \in Nat
  BY <1>1, ChunkBounds DEF MergedAddress, Heap
<1>3. PICK r \in Nat \ {0} : Size[f] = r * C
  BY SizeMultiple
<1>4. C \in Nat \ {0}
  BY SizePositive
<1> HIDE DEF q, C
<1> DEFINE n == q * r
<1>5. n \in Int /\ a = n * C
  BY <1>2, <1>3, <1>4
<1> HIDE DEF n
<1>6. n * C <= a /\ a < n * C + C
  BY <1>2, <1>4, <1>5
<1>7. MergedAddress(a, e) = n * C
  BY <1>5, <1>6, ChunkUnique DEF C
<1> QED
  BY <1>5, <1>7

(* The bits of the chunks around x, from entry t to entry f. *)
LEMMA BitsAround ==
  ASSUME NEW x \in Heap, NEW t \in Entries, NEW f \in t..NSizesMax,
         NEW k \in Heap, NEW e \in Entries
  PROVE  BitIndex(k, e) \in {BitIndex(x, g) : g \in t..f}
           <=> e \in t..f /\ MergedAddress(x, e) = MergedAddress(k, e)
<1>1. \A g \in t..f : g \in Entries
  BY BuddyAssumption DEF BuddyAssumption, Entries
<1>2. ASSUME NEW g \in t..f, BitIndex(k, e) = BitIndex(x, g)
      PROVE  e \in t..f /\ MergedAddress(x, e) = MergedAddress(k, e)
  BY <1>1, <1>2, BitsApart
<1>3. ASSUME e \in t..f, MergedAddress(x, e) = MergedAddress(k, e)
      PROVE  BitIndex(k, e) = BitIndex(x, e)
  <2>1. BitIndex(MergedAddress(x, e), e) = BitIndex(x, e)
    BY BitOfStart
  <2>2. BitIndex(MergedAddress(k, e), e) = BitIndex(k, e)
    BY BitOfStart
  <2> QED
    BY <1>3, <2>1, <2>2
<1> QED
  BY <1>2, <1>3

(* Taking the chunk in the room puts it to use, and what is around it up to *)
(* f; larger chunks around it were used before.                             *)
LEMMA RoomUsed ==
  ASSUME NEW H, NEW x, NEW t, NEW f, Room(H, x, t, f), NEW k \in Heap, NEW e \in Entries
  PROVE  LET around == e \in t..f /\ MergedAddress(x, e) = MergedAddress(k, e)
         IN  /\ UsedIn(H \cup {<<x, t>>}, k, e) <=> UsedIn(H, k, e) \/ around
             /\ around => ~UsedIn(H, k, e)
<1> DEFINE around == e \in t..f /\ MergedAddress(x, e) = MergedAddress(k, e)
<1>1. /\ H \in SUBSET Chunks /\ x \in Heap /\ t \in Nat /\ f \in Nat /\ e \in Nat
  BY BuddyAssumption DEF Room, Entries
<1>2. UsedIn(H \cup {<<x, t>>}, k, e)
        <=> UsedIn(H, k, e) \/ (t <= e /\ MergedAddress(x, e) = MergedAddress(k, e))
  <2> DEFINE c == <<x, t>>
  <2>1. c[1] = x /\ c[2] = t
    OBVIOUS
  <2> HIDE DEF c
  <2>2. UsedIn(H \cup {c}, k, e)
          <=> UsedIn(H, k, e) \/ (c[2] <= e /\ MergedAddress(c[1], e) = MergedAddress(k, e))
    BY DEF UsedIn
  <2> QED
    BY <2>1, <2>2 DEF c
<1>3. ASSUME e > f, MergedAddress(x, e) = MergedAddress(k, e)
      PROVE  UsedIn(H, k, e)
  BY <1>3, AroundRoom DEF UsedIn
<1>4. ASSUME around PROVE ~UsedIn(H, k, e)
  <2>1. ~Touched(H, x, e)
    BY <1>1, <1>4, AroundRoom
  <2> QED
    BY <1>4, <2>1 DEF UsedIn, Touched, Overlaps
<1>5. t <= e /\ ~(e > f) => e \in t..f
  BY <1>1
<1>6. e \in t..f => t <= e
  BY <1>1
<1> QED
  BY <1>2, <1>3, <1>4, <1>5, <1>6

-------------------------------------------------------------------------------
(* The callers hold aligned chunks that do not overlap. *)
HeldPart ==
  /\ held \in SUBSET Chunks
  /\ \A c, d \in held : Overlaps(c, d[1], d[2]) => c = d

(* The free lists hold the largest untouched chunks of each entry, once. *)
ListPart ==
  /\ free_list \in [Entries -> Seq(Heap)]
  /\ \A e \in Entries : IsInjective(free_list[e]) /\ ToSet(free_list[e]) = MaxFree(held, e)

(* The bits tell the chunks that are used, and the one of the heap is set. *)
BitPart ==
  /\ bitmap \in [0 .. (2 * HeapSize - 1) -> {0, 1}]
  /\ bitmap[0] = 1
  /\ BitsTellUse

AnswerPart == answer \in Heap \cup {NoMemory}

IInv == HeldPart /\ ListPart /\ BitPart /\ AnswerPart

(* The bits, in terms of UsedIn. *)
LEMMA BitsUsed ==
  BitsTellUse <=> \A e \in Entries, k \in Heap :
                    e # NSizesMax => (bitmap[BitIndex(k, e)] = 1 <=> UsedIn(held, k, e))
  BY DEF BitsTellUse, UsedIn, Heap

(* buddyInit and bitmapInit establish the invariant. *)
LEMMA InitInv == Init => IInv
<1> SUFFICES ASSUME Init PROVE IInv
  OBVIOUS
<1>1. HeapSize \in Nat \ {0} /\ NSizesMax \in Entries /\ 0 \in Heap
  <2>1. NSizesMax \in Entries
    BY BuddyAssumption DEF BuddyAssumption, Entries
  <2>2. HeapSize \in Nat \ {0}
    BY <2>1, SizePositive DEF HeapSize
  <2> QED
    BY <2>1, <2>2 DEF Heap
<1>2. HeldPart
  BY DEF Init, HeldPart
<1>3. ListPart
  <2>1. ASSUME NEW e \in Entries
        PROVE  /\ free_list[e] \in Seq(Heap) /\ IsInjective(free_list[e])
               /\ ToSet(free_list[e]) = MaxFree(held, e)
    <3>1. MaxFree(held, e) = IF e = NSizesMax THEN {0} ELSE {}
      <4>1. \A a \in Heap, g \in Entries : ~Touched(held, a, g) /\ ~Touched(held, a, e + 1)
        BY DEF Init, Touched
      <4>2. \A a \in Heap : MergedAddress(a, NSizesMax) = 0
        BY Extremes
      <4> QED
        BY <1>1, <4>1, <4>2 DEF MaxFree
    <3>2. CASE e = NSizesMax
      <4>1. free_list[e] = <<0>>
        BY <3>2 DEF Init
      <4> QED
        BY <1>1, <3>1, <3>2, <4>1, OneList
    <3>3. CASE e # NSizesMax
      <4>1. free_list[e] = <<>>
        BY <3>3 DEF Init
      <4> QED
        BY <3>1, <3>3, <4>1, EmptyList, EmptySeq
    <3> QED
      BY <3>2, <3>3
  <2>2. free_list = [e \in Entries |-> free_list[e]]
    BY DEF Init
  <2> QED
    BY <2>1, <2>2 DEF ListPart
<1>4. BitPart
  <2>1. bitmap \in [0 .. (2 * HeapSize - 1) -> {0, 1}] /\ bitmap[0] = 1
    BY <1>1 DEF Init
  <2>2. ASSUME NEW e \in Entries, NEW k \in Heap, e # NSizesMax
        PROVE  bitmap[BitIndex(k, e)] # 1 /\ ~UsedIn(held, k, e)
    <3>1. BitIndex(k, e) # 0 /\ BitIndex(k, e) \in 0 .. (2 * HeapSize - 1)
      BY <2>2, FirstBit, BitInRow
    <3> QED
      BY <3>1 DEF Init, UsedIn
  <2>3. BitsTellUse
    BY <2>2, BitsUsed
  <2> QED
    BY <2>1, <2>3 DEF BitPart
<1>5. AnswerPart
  BY DEF Init, AnswerPart
<1> QED
  BY <1>2, <1>3, <1>4, <1>5 DEF IInv

-------------------------------------------------------------------------------
(* The entry buddy_alloc starts at is the smallest with room. *)
LEMMA EntryForBlocks ==
  ASSUME NEW n \in 1..HeapSize
  PROVE  /\ FindPowerOfTwo(n) \in Entries /\ Size[FindPowerOfTwo(n)] >= n
         /\ \A e \in Entries : Size[e] >= n => FindPowerOfTwo(n) <= e
<1> DEFINE Fit == {e \in Entries : Size[e] >= n}
<1>1. NSizesMax \in Entries
  BY BuddyAssumption DEF BuddyAssumption, Entries
<1>2. HeapSize \in Nat /\ HeapSize = Size[NSizesMax]
  BY <1>1, SizePositive DEF HeapSize
<1>3. NSizesMax \in Fit
  BY <1>1, <1>2
<1>4. Fit \in SUBSET Nat
  BY DEF Entries
<1>5. Min(Fit) \in Fit /\ \A e \in Fit : Min(Fit) <= e
  BY <1>3, <1>4, MinOfNats
<1>6. FindPowerOfTwo(n) = Min(Fit)
  BY DEF FindPowerOfTwo
<1> QED
  BY <1>5, <1>6

(* What overlaps is overlapped. *)
LEMMA OverlapSymmetric ==
  ASSUME NEW c \in Chunks, NEW d \in Chunks
  PROVE  Overlaps(c, d[1], d[2]) <=> Overlaps(d, c[1], c[2])
<1>1. MergedAddress(c[1], c[2]) = c[1] /\ MergedAddress(d[1], d[2]) = d[1]
  BY DEF Chunks
<1> QED
  BY <1>1 DEF Overlaps

(* The first chunk of the smallest entry that has one is room for a smaller *)
(* one, and the buddies of what it is split into are the right halves.      *)
LEMMA AllocRoom ==
  ASSUME IInv, NEW to \in Entries, NEW from \in to..NSizesMax, free_list[from] # <<>>
  PROVE  LET chunk == Head(free_list[from])
         IN  /\ Room(held, chunk, to, from)
             /\ chunk \in Heap /\ MergedAddress(chunk, from) = chunk
             /\ \A e \in to..(from - 1) : BuddyOf(chunk, e) = chunk + Size[e]
<1> DEFINE chunk == Head(free_list[from])
<1>1. /\ to \in Nat /\ from \in Nat /\ from \in Entries /\ NSizesMax \in Nat /\ to <= from
  BY BuddyAssumption DEF BuddyAssumption, Entries
<1>2. /\ held \in SUBSET Chunks /\ free_list[from] \in Seq(Heap)
      /\ ToSet(free_list[from]) = MaxFree(held, from)
  BY <1>1 DEF IInv, HeldPart, ListPart
<1>3. chunk \in MaxFree(held, from)
  BY <1>2, HeadList
<1> HIDE DEF chunk
<1>4. chunk \in Heap /\ MergedAddress(chunk, from) = chunk
  BY <1>3 DEF MaxFree
<1>5. \A e \in to..from : MergedAddress(chunk, e) = chunk
  <2> TAKE e \in to..from
  <2>1. e \in Entries /\ from \in e..NSizesMax
    BY <1>1 DEF Entries
  <2> QED
    BY <1>4, <2>1, AlignedDown
<1>6. Room(held, chunk, to, from)
  <2>1. MergedAddress(chunk, to) = chunk
    BY <1>1, <1>5
  <2> QED
    BY <1>2, <1>3, <1>4, <2>1 DEF Room
<1>7. ASSUME NEW e \in to..(from - 1)
      PROVE  BuddyOf(chunk, e) = chunk + Size[e]
  <2>1. e \in 0..(NSizesMax - 1) /\ e \in to..from /\ e + 1 \in to..from
    BY <1>1
  <2>2. MergedAddress(chunk, e) = chunk /\ MergedAddress(chunk, e + 1) = chunk
    BY <1>5, <2>1
  <2> QED
    BY <1>4, <2>1, <2>2, Halves
<1> QED
  BY <1>4, <1>6, <1>7 DEF chunk

(* buddy_alloc that finds a chunk. *)
AllocFound(to, from) ==
  LET chunk == Head(free_list[from])
  IN  /\ free_list[from] # <<>>
      /\ \A e \in to..(from - 1) : free_list[e] = <<>>
      /\ free_list' = [e \in Entries |->
           IF e = from THEN Tail(free_list[e])
           ELSE IF e \in to..(from - 1) THEN <<chunk + Size[e]>>
           ELSE free_list[e]]
      /\ bitmap' = [bit \in DOMAIN bitmap |->
           IF bit \in AllocMarks(chunk, from, to) THEN 1 ELSE bitmap[bit]]
      /\ held' = held \cup {<<chunk, to>>}
      /\ answer' = chunk

(* It takes the first chunk of the smallest entry that has one, or none. *)
LEMMA AllocSteps ==
  ASSUME IInv, NEW n \in 1..HeapSize, Alloc(n)
  PROVE  LET to == FindPowerOfTwo(n)
         IN  \/ \E from \in to..NSizesMax : AllocFound(to, from)
             \/ /\ \A e \in to..NSizesMax : free_list[e] = <<>>
                /\ answer' = NoMemory
                /\ UNCHANGED <<free_list, bitmap, held>>
<1> DEFINE to == FindPowerOfTwo(n)
           stock == {e \in to..NSizesMax : free_list[e] # <<>>}
<1>1. to \in Entries
  BY EntryForBlocks
<1>2. CASE stock = {}
  <2>1. \A e \in to..NSizesMax : free_list[e] = <<>>
    BY <1>2
  <2> HIDE DEF to
  <2>2. answer' = NoMemory /\ UNCHANGED <<free_list, bitmap, held>>
    BY <1>2 DEF Alloc, to
  <2> QED
    BY <2>1, <2>2 DEF to
<1>3. CASE stock # {}
  <2>1. stock \in SUBSET Nat
    BY <1>1 DEF Entries
  <2> DEFINE from == Min(stock)
  <2>2. from \in stock /\ \A e \in stock : from <= e
    BY <1>3, <2>1, MinOfNats
  <2>3. /\ free_list' = [e \in Entries |->
             IF e = from THEN Tail(free_list[e])
             ELSE IF e \in to..(from - 1) THEN <<Head(free_list[from]) + Size[e]>>
             ELSE free_list[e]]
        /\ bitmap' = [bit \in DOMAIN bitmap |->
             IF bit \in AllocMarks(Head(free_list[from]), from, to) THEN 1 ELSE bitmap[bit]]
        /\ held' = held \cup {<<Head(free_list[from]), to>>}
        /\ answer' = Head(free_list[from])
    BY <1>3 DEF Alloc
  <2> HIDE DEF from
  <2>4. from \in to..NSizesMax /\ free_list[from] # <<>>
    BY <2>2
  <2>5. \A e \in to..(from - 1) : free_list[e] = <<>>
    <3> SUFFICES ASSUME NEW e \in to..(from - 1), free_list[e] # <<>> PROVE FALSE
      OBVIOUS
    <3>1. to \in Nat /\ NSizesMax \in Nat
      BY <1>1, BuddyAssumption DEF BuddyAssumption, Entries
    <3> HIDE DEF to
    <3>2. e \in to..NSizesMax /\ ~(from <= e)
      BY <2>4, <3>1
    <3>3. e \in stock
      BY <3>2
    <3> QED
      BY <2>2, <3>2, <3>3
  <2> HIDE DEF to
  <2>6. AllocFound(to, from)
    BY <2>3, <2>4, <2>5 DEF AllocFound
  <2> QED
    BY <2>4, <2>6 DEF to
<1> QED
  BY <1>2, <1>3

(* buddy_alloc keeps the invariant. *)
LEMMA AllocInv ==
  ASSUME IInv, NEW to \in Entries, NEW from \in to..NSizesMax, AllocFound(to, from)
  PROVE  IInv'
<1> DEFINE chunk == Head(free_list[from])
           c == <<chunk, to>>
<1>1. /\ Room(held, chunk, to, from)
      /\ chunk \in Heap /\ MergedAddress(chunk, from) = chunk
      /\ \A e \in to..(from - 1) : BuddyOf(chunk, e) = chunk + Size[e]
  BY AllocRoom DEF AllocFound
<1>2. /\ to \in Nat /\ from \in Nat /\ from \in Entries /\ NSizesMax \in Nat /\ to <= from
      /\ from <= NSizesMax
  BY BuddyAssumption DEF BuddyAssumption, Entries
<1>3. held' = held \cup {c} /\ answer' = chunk
  BY DEF AllocFound
<1>4. /\ free_list'[from] = Tail(free_list[from])
      /\ \A e \in to..(from - 1) : free_list'[e] = <<chunk + Size[e]>>
      /\ \A e \in Entries : e < to \/ e > from => free_list'[e] = free_list[e]
      /\ free_list' = [e \in Entries |-> free_list'[e]]
  <2>1. free_list' = [e \in Entries |->
             IF e = from THEN Tail(free_list[e])
             ELSE IF e \in to..(from - 1) THEN <<chunk + Size[e]>>
             ELSE free_list[e]]
    BY DEF AllocFound
  <2> HIDE DEF chunk
  <2>2. \A e \in to..(from - 1) : e \in Entries /\ e # from
    BY <1>2 DEF Entries
  <2>3. \A e \in Entries : e < to \/ e > from => e # from /\ e \notin to..(from - 1)
    BY <1>2 DEF Entries
  <2>4. from \notin to..(from - 1)
    BY <1>2
  <2>5. free_list'[from] = Tail(free_list[from])
    BY <1>2, <2>1, <2>4
  <2>6. \A e \in to..(from - 1) : free_list'[e] = <<chunk + Size[e]>>
    BY <2>1, <2>2
  <2>7. \A e \in Entries : e < to \/ e > from => free_list'[e] = free_list[e]
    BY <2>1, <2>3
  <2> QED
    BY <2>1, <2>5, <2>6, <2>7
<1>5. bitmap' = [bit \in DOMAIN bitmap |->
             IF bit \in {BitIndex(chunk, e) : e \in to..from} THEN 1 ELSE bitmap[bit]]
  BY DEF AllocFound, AllocMarks
<1>6. /\ held \in SUBSET Chunks
      /\ \A d, g \in held : Overlaps(d, g[1], g[2]) => d = g
  BY DEF IInv, HeldPart
<1>7. ~Touched(held, chunk, to) /\ MergedAddress(chunk, to) = chunk
  <2>1. MergedAddress(chunk, to) = chunk
    BY <1>1 DEF Room
  <2> QED
    BY <1>1, <1>2, <2>1, AroundRoom
<1>8. c \in Chunks
  BY <1>1, <1>7 DEF Chunks
<1>9. \A e \in Entries : free_list[e] \in Seq(Heap) /\ IsInjective(free_list[e])
                         /\ ToSet(free_list[e]) = MaxFree(held, e)
  BY DEF IInv, ListPart
<1>10. free_list[from] # <<>> /\ \A e \in to..(from - 1) : free_list[e] = <<>>
  BY DEF AllocFound
<1>11. HeldPart'
  <2>1. held' \in SUBSET Chunks
    BY <1>3, <1>6, <1>8
  <2>2. \A d \in held : ~Overlaps(d, c[1], c[2])
    BY <1>7 DEF Touched
  <2>3. \A d \in held : ~Overlaps(c, d[1], d[2])
    BY <1>6, <1>8, <2>2, OverlapSymmetric
  <2> HIDE DEF c
  <2>4. \A d, g \in held' : Overlaps(d, g[1], g[2]) => d = g
    BY <1>3, <1>6, <2>2, <2>3
  <2> QED
    BY <2>1, <2>4 DEF HeldPart
<1> HIDE DEF chunk
<1>12. ASSUME NEW e \in Entries
       PROVE  /\ free_list'[e] \in Seq(Heap) /\ IsInjective(free_list'[e])
              /\ ToSet(free_list'[e]) = MaxFree(held', e)
  <2>1. CASE e < to \/ e > from
    <3>1. MaxFree(held', e) = MaxFree(held, e)
      BY <1>1, <1>3, <2>1, RoomElsewhere
    <3> QED
      BY <1>4, <1>9, <2>1, <3>1
  <2>2. CASE e = from
    <3>1. MaxFree(held', from) = MaxFree(held, from) \ {chunk}
      BY <1>1, <1>3, RoomTaken
    <3>2. /\ Tail(free_list[from]) \in Seq(Heap) /\ IsInjective(Tail(free_list[from]))
          /\ ToSet(free_list[from]) = {chunk} \cup ToSet(Tail(free_list[from]))
          /\ chunk \notin ToSet(Tail(free_list[from]))
      BY <1>2, <1>9, <1>10, HeadList DEF chunk
    <3> QED
      BY <1>2, <1>4, <1>9, <2>2, <3>1, <3>2
  <2>3. CASE e \in to..(from - 1)
    <3>1. MaxFree(held', e) = MaxFree(held, e) \cup {BuddyOf(chunk, e)}
      BY <1>1, <1>3, <2>3, RoomSplit
    <3>2. MaxFree(held, e) = {}
      BY <1>9, <1>10, <2>3, EmptyList
    <3>3. BuddyOf(chunk, e) \in Heap
      <4>1. e \in 0..(NSizesMax - 1)
        BY <1>2, <2>3
      <4> QED
        BY <1>1, <4>1, Halves
    <3>4. free_list'[e] = <<BuddyOf(chunk, e)>>
      BY <1>1, <1>4, <2>3
    <3> QED
      BY <3>1, <3>2, <3>3, <3>4, OneList
  <2> QED
    BY <1>2, <2>1, <2>2, <2>3 DEF Entries
<1>13. ListPart'
  BY <1>4, <1>12 DEF ListPart
<1>14. BitPart'
  <2>1. bitmap \in [0 .. (2 * HeapSize - 1) -> {0, 1}] /\ bitmap[0] = 1
    BY DEF IInv, BitPart
  <2>2. bitmap' \in [0 .. (2 * HeapSize - 1) -> {0, 1}]
    BY <1>5, <2>1
  <2>3. bitmap'[0] = 1
    <3>1. 0 \in DOMAIN bitmap
      <4>1. HeapSize \in Nat \ {0}
        <5>1. NSizesMax \in Entries
          BY <1>2 DEF Entries
        <5> QED
          BY <5>1, SizePositive DEF HeapSize
      <4> QED
        BY <2>1, <4>1
    <3> QED
      BY <1>5, <2>1, <3>1
  <2>4. ASSUME NEW e \in Entries, NEW k \in Heap, e # NSizesMax
        PROVE  bitmap'[BitIndex(k, e)] = 1 <=> UsedIn(held', k, e)
    <3> DEFINE around == e \in to..from /\ MergedAddress(chunk, e) = MergedAddress(k, e)
    <3>1. bitmap[BitIndex(k, e)] = 1 <=> UsedIn(held, k, e)
      BY <2>4, BitsUsed DEF IInv, BitPart
    <3>2. UsedIn(held', k, e) <=> UsedIn(held, k, e) \/ around
      BY <1>1, <1>3, RoomUsed
    <3>3. BitIndex(k, e) \in {BitIndex(chunk, g) : g \in to..from} <=> around
      BY <1>1, BitsAround
    <3>4. BitIndex(k, e) \in DOMAIN bitmap
      BY <2>1, BitInRow
    <3> HIDE DEF around
    <3>5. bitmap'[BitIndex(k, e)] = IF around THEN 1 ELSE bitmap[BitIndex(k, e)]
      BY <1>5, <3>3, <3>4
    <3> QED
      BY <3>1, <3>2, <3>5
  <2>5. BitsTellUse'
    BY <2>4 DEF BitsTellUse, UsedIn, Heap
  <2> QED
    BY <2>2, <2>3, <2>5 DEF BitPart
<1>15. AnswerPart'
  BY <1>1, <1>3 DEF AnswerPart
<1> QED
  BY <1>11, <1>13, <1>14, <1>15 DEF IInv

-------------------------------------------------------------------------------
(* What a chunk and the rest of the held ones are to each other. *)
LEMMA HeldApart ==
  ASSUME IInv, NEW c \in held
  PROVE  /\ c[1] \in Heap /\ c[2] \in Entries /\ c = <<c[1], c[2]>>
         /\ MergedAddress(c[1], c[2]) = c[1]
         /\ held \ {c} \in SUBSET Chunks /\ held = (held \ {c}) \cup {c}
         /\ ~Touched(held \ {c}, c[1], c[2])
<1>1. held \in SUBSET Chunks /\ \A d, g \in held : Overlaps(d, g[1], g[2]) => d = g
  BY DEF IInv, HeldPart
<1>2. c \in Chunks
  BY <1>1
<1>3. \A d \in held \ {c} : ~Overlaps(d, c[1], c[2])
  BY <1>1
<1> QED
  BY <1>1, <1>2, <1>3 DEF Chunks, Touched

(* buddy_free finds the entry of what it is given from the bits. *)
LEMMA EntryFound ==
  ASSUME IInv, NEW c \in held
  PROVE  EntryOf(c[1]) = c[2]
<1> DEFINE x == c[1]
           t == c[2]
           Set == {e \in Entries : bitmap[BitIndex(x, e)] = 1}
<1>1. /\ x \in Heap /\ t \in Entries /\ c = <<x, t>> /\ MergedAddress(x, t) = x
      /\ held \in SUBSET Chunks /\ ~Touched(held \ {c}, x, t)
  BY HeldApart DEF IInv, HeldPart
<1> HIDE DEF x, t
<1>2. \A e \in Entries : e # NSizesMax => (bitmap[BitIndex(x, e)] = 1 <=> UsedIn(held, x, e))
  BY <1>1, BitsUsed DEF IInv, BitPart
<1>3. t \in Set
  <2>1. CASE t = NSizesMax
    <3>1. BitIndex(x, t) = 0
      BY <1>1, <2>1, FirstBit
    <3> QED
      BY <1>1, <3>1 DEF IInv, BitPart
  <2>2. CASE t # NSizesMax
    <3>1. c[2] <= t /\ MergedAddress(c[1], t) = MergedAddress(x, t)
      BY <1>1 DEF x, t, Entries
    <3>2. UsedIn(held, x, t)
      BY <3>1 DEF UsedIn
    <3> QED
      BY <1>1, <1>2, <2>2, <3>2
  <2> QED
    BY <2>1, <2>2
<1>4. ASSUME NEW e \in Set PROVE t <= e
  <2>1. SUFFICES ASSUME ~(t <= e) PROVE FALSE
    OBVIOUS
  <2>2. /\ e \in Entries /\ e < t /\ e # NSizesMax /\ t \in e..NSizesMax
        /\ bitmap[BitIndex(x, e)] = 1
    BY <1>1, <2>1, BuddyAssumption DEF BuddyAssumption, Entries
  <2>3. PICK d \in held : d[2] <= e /\ MergedAddress(d[1], e) = MergedAddress(x, e)
    BY <1>2, <2>2 DEF UsedIn
  <2>4. d \in Chunks /\ Overlaps(d, x, e)
    BY <1>1, <2>3 DEF Overlaps
  <2>5. Overlaps(d, x, t)
    BY <1>1, <2>2, <2>4, OverlapUp
  <2>6. d = c
    BY <1>1, <2>5 DEF Touched
  <2>7. t <= e
    BY <2>3, <2>6 DEF t
  <2> QED
    BY <2>1, <2>7
<1>5. Set \in SUBSET Nat /\ t \in Nat
  BY <1>1 DEF Entries
<1>6. Min(Set) \in Set /\ \A e \in Set : Min(Set) <= e
  BY <1>3, <1>5, MinOfNats
<1>7. EntryOf(x) = Min(Set)
  BY DEF EntryOf
<1> DEFINE m == Min(Set)
<1>8. m \in Nat /\ m <= t /\ t <= m
  BY <1>3, <1>4, <1>5, <1>6
<1> HIDE DEF m
<1>9. m = t
  BY <1>5, <1>8
<1> QED
  BY <1>7, <1>9 DEF m, x, t

(* Merging stops at the largest chunk that nobody else touches. *)
LEMMA MergeFound ==
  ASSUME IInv, NEW c \in held
  PROVE  Room(held \ {c}, c[1], c[2], MergeEnd(c[1], c[2]))
<1> DEFINE x == c[1]
           t == c[2]
           H == held \ {c}
           Stop == {e \in t..NSizesMax :
                      e = NSizesMax \/ bitmap[FindBuddyIndex(BitIndex(x, e))] = 1}
           f == Min(Stop)
<1>1. /\ x \in Heap /\ t \in Entries /\ c = <<x, t>> /\ MergedAddress(x, t) = x
      /\ held \in SUBSET Chunks /\ ~Touched(H, x, t) /\ H \in SUBSET Chunks
      /\ t \in Nat /\ NSizesMax \in Nat /\ t <= NSizesMax
  <2>1. /\ x \in Heap /\ t \in Entries /\ c = <<x, t>> /\ MergedAddress(x, t) = x
        /\ ~Touched(H, x, t) /\ H \in SUBSET Chunks
    BY HeldApart, Zenon
  <2>2. held \in SUBSET Chunks
    BY DEF IInv, HeldPart
  <2>3. NSizesMax \in Nat
    BY BuddyAssumption DEF BuddyAssumption
  <2> HIDE DEF x, t, H
  <2>4. t \in Nat /\ t <= NSizesMax
    BY <2>1, <2>3 DEF Entries
  <2> QED
    BY <2>1, <2>2, <2>3, <2>4
<1>2. f = MergeEnd(x, t)
  BY DEF MergeEnd
<1>3. Stop \in SUBSET Nat /\ NSizesMax \in Stop
  BY <1>1
<1>4. f \in Stop /\ \A e \in Stop : f <= e
  BY <1>3, MinOfNats
<1> HIDE DEF f
<1>5. f \in t..NSizesMax
  BY <1>4
<1> HIDE DEF x, t, H
<1>6. PICK g \in t..NSizesMax : MergedAddress(x, g) \in MaxFree(H, g)
  BY <1>1, LargestAround
<1>7. Room(H, x, t, g)
  BY <1>1, <1>6 DEF Room
(* A buddy's bit, in terms of the chunks that are held. *)
<1>8. ASSUME NEW e \in t..NSizesMax, e # NSizesMax
      PROVE  /\ e \in 0..(NSizesMax - 1) /\ e \in Entries /\ e + 1 \in t..NSizesMax
             /\ e + 1 \in Entries
             /\ bitmap[FindBuddyIndex(BitIndex(x, e))] = 1
                  <=> \E d \in H : d[2] <= e /\ MergedAddress(d[1], e) = BuddyOf(x, e)
  <2>1. e \in 0..(NSizesMax - 1) /\ e \in Entries /\ e + 1 \in t..NSizesMax /\ e + 1 \in Entries
    BY <1>1, <1>8 DEF Entries
  <2> DEFINE b == BuddyOf(x, e)
  <2>2. /\ b \in Heap /\ MergedAddress(b, e) = b /\ b # MergedAddress(x, e)
        /\ FindBuddyIndex(BitIndex(x, e)) = BitIndex(b, e)
    BY <1>1, <2>1, Halves
  <2> HIDE DEF b
  <2>3. bitmap[BitIndex(b, e)] = 1 <=> UsedIn(held, b, e)
    BY <1>8, <2>1, <2>2, BitsUsed DEF IInv, BitPart
  <2>4. \A d \in held : MergedAddress(d[1], e) = MergedAddress(b, e) => d \in H
    BY <2>2 DEF H, x
  <2>5. UsedIn(held, b, e)
          <=> \E d \in H : d[2] <= e /\ MergedAddress(d[1], e) = b
    BY <2>2, <2>4 DEF UsedIn, H
  <2> QED
    BY <2>1, <2>2, <2>3, <2>5 DEF b
<1>9. ~(g < f)
  <2> SUFFICES ASSUME g < f PROVE FALSE
    OBVIOUS
  <2>1. g # NSizesMax /\ g \notin Stop
    BY <1>1, <1>4, <1>5
  <2>2. ~Touched(H, x, g) /\ Touched(H, x, g + 1)
    <3>1. g \in Entries /\ g + 1 \in Entries /\ g <= g /\ g + 1 > g
      BY <1>1, <1>8, <2>1
    <3> QED
      BY <1>7, <3>1, AroundRoom
  <2>3. PICK d \in H : Overlaps(d, x, g + 1) /\ ~Overlaps(d, x, g)
    BY <2>2 DEF Touched
  <2>4. d[2] <= g /\ MergedAddress(d[1], g) = BuddyOf(x, g)
    BY <1>1, <1>8, <2>1, <2>3, OverlapSplit
  <2>5. bitmap[FindBuddyIndex(BitIndex(x, g))] = 1
    BY <1>8, <2>1, <2>4
  <2> QED
    BY <2>1, <2>5
<1>10. ~(g > f)
  <2> SUFFICES ASSUME g > f PROVE FALSE
    OBVIOUS
  <2>1. f # NSizesMax /\ bitmap[FindBuddyIndex(BitIndex(x, f))] = 1
    BY <1>1, <1>4, <1>5
  <2>2. PICK d \in H : d[2] <= f /\ MergedAddress(d[1], f) = BuddyOf(x, f)
    BY <1>5, <1>8, <2>1
  <2>3. Overlaps(d, x, f + 1)
    BY <1>1, <1>5, <1>8, <2>1, <2>2, OverlapSplit
  <2>4. Touched(H, x, f + 1)
    BY <2>3 DEF Touched
  <2>5. f + 1 \in Entries /\ g \in (f + 1)..NSizesMax /\ g \in Entries /\ g <= g
    BY <1>1, <1>5 DEF Entries
  <2>6. Touched(H, x, g)
    BY <1>1, <2>4, <2>5, TouchedUp
  <2> QED
    BY <1>7, <2>5, <2>6, AroundRoom
<1>11. g = f
  BY <1>1, <1>5, <1>9, <1>10
<1> QED
  BY <1>2, <1>7, <1>11 DEF x, t, H

(* buddy_free of the chunk c that merges up to entry f. *)
FreeFound(c, f) ==
  /\ free_list' = [e \in Entries |->
       IF e = f THEN Cons(MergedAddress(c[1], e), free_list[e])
       ELSE IF e \in c[2]..(f - 1) THEN RemoveFirst(free_list[e], BuddyOf(c[1], e))
       ELSE free_list[e]]
  /\ bitmap' = [bit \in DOMAIN bitmap |->
       IF bit # 0 /\ bit \in {BitIndex(c[1], e) : e \in c[2]..f} THEN 0 ELSE bitmap[bit]]
  /\ held' = held \ {c}
  /\ answer' = answer

(* That is how buddy_free goes on: the bits give it the entry, and the end. *)
LEMMA FreeSteps ==
  ASSUME IInv, NEW c \in held, Free(c[1]), held' = held \ {c}
  PROVE  FreeFound(c, MergeEnd(c[1], c[2]))
<1>1. EntryOf(c[1]) = c[2]
  BY EntryFound
<1>2. /\ free_list' = [e \in Entries |->
           IF e = MergeEnd(c[1], c[2]) THEN Cons(MergedAddress(c[1], e), free_list[e])
           ELSE IF e \in c[2]..(MergeEnd(c[1], c[2]) - 1)
             THEN RemoveFirst(free_list[e], BuddyAddress(MergedAddress(c[1], e), e))
           ELSE free_list[e]]
      /\ bitmap' = [bit \in DOMAIN bitmap |->
           IF bit # 0 /\ bit \in {BitIndex(c[1], e) : e \in c[2]..MergeEnd(c[1], c[2])}
           THEN 0 ELSE bitmap[bit]]
      /\ answer' = answer
  BY <1>1, Zenon DEF Free
<1> QED
  BY <1>2, Zenon DEF FreeFound, BuddyOf

(* buddy_free keeps the invariant. *)
LEMMA FreeInv ==
  ASSUME IInv, NEW c \in held, NEW f, FreeFound(c, f), Room(held \ {c}, c[1], c[2], f)
  PROVE  IInv'
<1> DEFINE x == c[1]
           t == c[2]
           H == held \ {c}
           a == MergedAddress(x, f)
<1>1. /\ x \in Heap /\ t \in Entries /\ c = <<x, t>> /\ H \in SUBSET Chunks
      /\ held = H \cup {<<x, t>>} /\ held' = H
  BY HeldApart DEF FreeFound
<1>2. /\ t \in Nat /\ f \in Nat /\ f \in Entries /\ NSizesMax \in Nat /\ t <= f
      /\ f <= NSizesMax /\ f \in t..NSizesMax
  BY BuddyAssumption DEF BuddyAssumption, Entries, Room
<1>3. Room(H, x, t, f)
  OBVIOUS
<1>4. /\ free_list' = [e \in Entries |->
           IF e = f THEN Cons(MergedAddress(x, e), free_list[e])
           ELSE IF e \in t..(f - 1) THEN RemoveFirst(free_list[e], BuddyOf(x, e))
           ELSE free_list[e]]
      /\ bitmap' = [bit \in DOMAIN bitmap |->
           IF bit # 0 /\ bit \in {BitIndex(x, e) : e \in t..f} THEN 0 ELSE bitmap[bit]]
      /\ answer' = answer
  BY DEF FreeFound
<1>5. /\ \A e \in Entries : /\ free_list[e] \in Seq(Heap) /\ IsInjective(free_list[e])
                            /\ ToSet(free_list[e]) = MaxFree(held, e)
      /\ bitmap \in [0 .. (2 * HeapSize - 1) -> {0, 1}] /\ bitmap[0] = 1
      /\ \A e \in Entries, k \in Heap :
           e # NSizesMax => (bitmap[BitIndex(k, e)] = 1 <=> UsedIn(held, k, e))
      /\ answer \in Heap \cup {NoMemory}
  BY BitsUsed DEF IInv, ListPart, BitPart, AnswerPart
<1>6. HeldPart'
  <2>1. \A d, g \in held : Overlaps(d, g[1], g[2]) => d = g
    BY DEF IInv, HeldPart
  <2>2. held' \subseteq held
    BY <1>1
  <2> QED
    BY <1>1, <2>1, <2>2 DEF HeldPart
<1> HIDE DEF x, t, H
<1>7. ASSUME NEW e \in Entries
      PROVE  /\ free_list'[e] \in Seq(Heap) /\ IsInjective(free_list'[e])
             /\ ToSet(free_list'[e]) = MaxFree(held', e)
  <2>1. CASE e < t \/ e > f
    <3>1. MaxFree(held, e) = MaxFree(held', e)
      BY <1>1, <1>3, <2>1, RoomElsewhere
    <3>2. e # f /\ e \notin t..(f - 1)
      BY <1>2, <2>1 DEF Entries
    <3>3. free_list'[e] = free_list[e]
      BY <1>4, <3>2
    <3> QED
      BY <1>5, <3>1, <3>3
  <2>2. CASE e = f
    <3>1. MaxFree(held, f) = MaxFree(H, f) \ {a}
      BY <1>1, <1>3, RoomTaken
    <3>2. a \in MaxFree(H, f) /\ a \in Heap
      BY <1>3 DEF Room, MaxFree
    <3> DEFINE l == free_list[f]
               one == <<a>>
    <3>3. free_list'[f] = one \o l
      BY <1>2, <1>4 DEF Cons
    <3>4. one \in Seq(Heap) /\ ToSet(one) = {a} /\ IsInjective(one)
      BY <3>2, OneList
    <3>5. l \in Seq(Heap) /\ IsInjective(l) /\ ToSet(l) = MaxFree(H, f) \ {a}
      BY <1>2, <1>5, <3>1
    <3> HIDE DEF a, l, one
    <3>6. ToSet(one) \cap ToSet(l) = {}
      BY <3>4, <3>5
    <3>7. one \o l \in Seq(Heap) /\ ToSet(one \o l) = ToSet(one) \cup ToSet(l)
      BY <3>4, <3>5, ConcatList
    <3>8. IsInjective(one \o l)
      BY <3>4, <3>5, <3>6, ConcatList
    <3>9. ToSet(one) \cup ToSet(l) = MaxFree(H, f)
      BY <3>2, <3>4, <3>5
    <3> QED
      BY <1>1, <2>2, <3>3, <3>7, <3>8, <3>9
  <2>3. CASE e \in t..(f - 1)
    <3> DEFINE b == BuddyOf(x, e)
    <3>1. MaxFree(held, e) = MaxFree(H, e) \cup {b} /\ b \notin MaxFree(H, e)
      BY <1>1, <1>3, <2>3, RoomSplit
    <3>2. e # f
      BY <1>2, <2>3
    <3>3. free_list'[e] = RemoveFirst(free_list[e], b)
      BY <1>4, <2>3, <3>2
    <3> HIDE DEF b
    <3>4. /\ RemoveFirst(free_list[e], b) \in Seq(Heap)
          /\ ToSet(RemoveFirst(free_list[e], b)) = ToSet(free_list[e]) \ {b}
          /\ IsInjective(RemoveFirst(free_list[e], b))
      BY <1>5, RemoveList
    <3>5. free_list[e] \in Seq(Heap) /\ ToSet(free_list[e]) = MaxFree(held, e)
      BY <1>5
    <3>6. ToSet(free_list[e]) \ {b} = MaxFree(H, e)
      BY <3>1, <3>5
    <3> QED
      BY <1>1, <3>3, <3>4, <3>6
  <2> QED
    BY <1>2, <2>1, <2>2, <2>3 DEF Entries
<1>8. ListPart'
  <2>1. free_list' = [e \in Entries |-> free_list'[e]]
    BY <1>4
  <2> QED
    BY <1>7, <2>1 DEF ListPart
<1>9. BitPart'
  <2>1. bitmap' \in [0 .. (2 * HeapSize - 1) -> {0, 1}]
    BY <1>4, <1>5
  <2>2. bitmap'[0] = 1
    <3>1. NSizesMax \in Entries
      BY <1>2 DEF Entries
    <3>2. HeapSize \in Nat \ {0}
      BY <3>1, SizePositive DEF HeapSize
    <3>3. 0 \in DOMAIN bitmap
      BY <1>5, <3>2
    <3> QED
      BY <1>4, <1>5, <3>3
  <2>3. ASSUME NEW e \in Entries, NEW k \in Heap, e # NSizesMax
        PROVE  bitmap'[BitIndex(k, e)] = 1 <=> UsedIn(held', k, e)
    <3> DEFINE around == e \in t..f /\ MergedAddress(x, e) = MergedAddress(k, e)
               bit == BitIndex(k, e)
    <3>1. bitmap[bit] = 1 <=> UsedIn(held, k, e)
      BY <1>5, <2>3
    <3>2. /\ UsedIn(held, k, e) <=> UsedIn(H, k, e) \/ around
          /\ around => ~UsedIn(H, k, e)
      BY <1>1, <1>3, RoomUsed
    <3>3. bit \in {BitIndex(x, g) : g \in t..f} <=> around
      BY <1>1, <1>2, BitsAround
    <3>4. bit \in DOMAIN bitmap /\ bit # 0
      BY <1>5, <2>3, BitInRow, FirstBit
    <3> HIDE DEF around, bit
    <3>5. bitmap'[bit] = IF around THEN 0 ELSE bitmap[bit]
      BY <1>4, <3>3, <3>4
    <3>6. bitmap'[bit] = 1 <=> UsedIn(H, k, e)
      BY <3>1, <3>2, <3>5
    <3> QED
      BY <1>1, <3>6 DEF bit
  <2>4. BitsTellUse'
    BY <2>3 DEF BitsTellUse, UsedIn, Heap
  <2> QED
    BY <2>1, <2>2, <2>4 DEF BitPart
<1>10. AnswerPart'
  BY <1>4, <1>5 DEF AnswerPart
<1> QED
  BY <1>6, <1>8, <1>9, <1>10 DEF IInv

(* Every step keeps the invariant. *)
LEMMA StepInv == IInv /\ [Next]_vars => IInv'
<1> SUFFICES ASSUME IInv, [Next]_vars PROVE IInv'
  OBVIOUS
<1>1. ASSUME NEW n \in 1..HeapSize, Alloc(n) PROVE IInv'
  <2> DEFINE to == FindPowerOfTwo(n)
  <2>1. to \in Entries
    BY EntryForBlocks
  <2>2. \/ \E from \in to..NSizesMax : AllocFound(to, from)
        \/ answer' = NoMemory /\ UNCHANGED <<free_list, bitmap, held>>
    BY <1>1, AllocSteps
  <2>3. CASE \E from \in to..NSizesMax : AllocFound(to, from)
    BY <2>1, <2>3, AllocInv
  <2>4. CASE answer' = NoMemory /\ UNCHANGED <<free_list, bitmap, held>>
    BY <2>4 DEF IInv, HeldPart, ListPart, BitPart, AnswerPart, BitsTellUse, MaxFree, Touched
  <2> QED
    BY <2>2, <2>3, <2>4
<1>2. ASSUME NEW c \in held, Free(c[1]), held' = held \ {c} PROVE IInv'
  BY <1>2, FreeSteps, MergeFound, FreeInv
<1>3. CASE UNCHANGED vars
  BY <1>3 DEF vars, IInv, HeldPart, ListPart, BitPart, AnswerPart, BitsTellUse, MaxFree, Touched
<1> QED
  BY <1>1, <1>2, <1>3 DEF Next

(* The invariant holds in every reachable state. *)
THEOREM SpecInv == Spec => []IInv
<1>1. Init => IInv
  BY InitInv
<1>2. IInv /\ [Next]_vars => IInv'
  BY StepInv
<1> QED
  BY <1>1, <1>2, PTL DEF Spec

-------------------------------------------------------------------------------
(* The lists, the bits, what is held and the answer have their types. *)
THEOREM TypeCorrect == Spec => []TypeOK
<1>1. IInv => TypeOK
  <2> SUFFICES ASSUME IInv PROVE TypeOK
    OBVIOUS
  <2>1. free_list \in [Entries -> Seq(0 .. (HeapSize - 1))]
    BY DEF IInv, ListPart, Heap
  <2>2. bitmap \in [0 .. (2 * HeapSize - 1) -> {0, 1}]
    BY DEF IInv, BitPart
  <2>3. held \subseteq (0 .. (HeapSize - 1)) \X Entries
    BY DEF IInv, HeldPart, Chunks, Heap
  <2>4. answer \in 0 .. (HeapSize - 1) \cup {NoMemory}
    BY DEF IInv, AnswerPart, Heap
  <2> QED
    BY <2>1, <2>2, <2>3, <2>4 DEF TypeOK
<1> QED
  BY <1>1, SpecInv, PTL

(* The bits tell which chunks are used. *)
THEOREM BitsAlwaysTellUse == Spec => []BitsTellUse
<1>1. IInv => BitsTellUse
  BY DEF IInv, BitPart
<1> QED
  BY <1>1, SpecInv, PTL

(* What the free lists hold, in terms of MaxFree. *)
LEMMA FreeChunksAre ==
  ASSUME IInv
  PROVE  \A c : c \in FreeChunks <=>
           c = <<c[1], c[2]>> /\ c[2] \in Entries /\ c[1] \in MaxFree(held, c[2])
<1>1. \A e \in Entries : ToSet(free_list[e]) = MaxFree(held, e)
  BY DEF IInv, ListPart
<1>2. \A c : c \in FreeChunks <=> \E e \in Entries : \E a \in MaxFree(held, e) : c = <<a, e>>
  BY <1>1 DEF FreeChunks
<1>3. \A a, e : <<a, e>>[1] = a /\ <<a, e>>[2] = e
  OBVIOUS
<1> QED
  BY <1>2, <1>3

(* Two chunks have a block in common exactly when they overlap. *)
LEMMA BlocksApart ==
  ASSUME NEW c \in Chunks, NEW d \in Chunks, Blocks(c) \cap Blocks(d) # {}
  PROVE  Overlaps(c, d[1], d[2])
<1> DEFINE a == c[1]
           e == c[2]
           b == d[1]
           f == d[2]
<1>1. /\ a \in Heap /\ e \in Entries /\ MergedAddress(a, e) = a /\ c = <<a, e>>
      /\ b \in Heap /\ f \in Entries /\ MergedAddress(b, f) = b /\ d = <<b, f>>
  BY DEF Chunks
<1> HIDE DEF a, b, e, f
<1>2. Blocks(c) = {k \in Heap : MergedAddress(k, e) = a}
  BY <1>1, BlocksOf
<1>3. Blocks(d) = {k \in Heap : MergedAddress(k, f) = b}
  BY <1>1, BlocksOf
<1>4. PICK k \in Heap : MergedAddress(k, e) = a /\ MergedAddress(k, f) = b
  BY <1>2, <1>3
<1>5. CASE e <= f
  <2>1. f \in e..NSizesMax
    BY <1>1, <1>5 DEF Entries
  <2>2. MergedAddress(a, f) = MergedAddress(b, f)
    BY <1>1, <1>4, <2>1, Coarser
  <2> QED
    BY <1>5, <2>2 DEF Overlaps, a, b, e, f
<1>6. CASE f <= e
  <2>1. e \in f..NSizesMax
    BY <1>1, <1>6 DEF Entries
  <2>2. MergedAddress(b, e) = a
    BY <1>1, <1>4, <2>1, Coarser
  <2> QED
    BY <1>6, <2>2 DEF Overlaps, a, b, e, f
<1>7. e <= f \/ f <= e
  BY <1>1 DEF Entries
<1> QED
  BY <1>5, <1>6, <1>7

(* Largest untouched chunks overlap only themselves. *)
LEMMA LargestApart ==
  ASSUME NEW H \in SUBSET Chunks, NEW e \in Entries, NEW f \in Entries,
         NEW a \in MaxFree(H, e), NEW b \in MaxFree(H, f), Overlaps(<<a, e>>, b, f)
  PROVE  a = b /\ e = f
<1>1. /\ a \in Heap /\ MergedAddress(a, e) = a /\ ~Touched(H, a, e)
      /\ e = NSizesMax \/ Touched(H, a, e + 1)
      /\ b \in Heap /\ MergedAddress(b, f) = b /\ ~Touched(H, b, f)
      /\ f = NSizesMax \/ Touched(H, b, f + 1)
  BY DEF MaxFree
<1>2. \/ e <= f /\ MergedAddress(a, f) = MergedAddress(b, f)
      \/ f <= e /\ MergedAddress(b, e) = MergedAddress(a, e)
  <2>1. <<a, e>>[1] = a /\ <<a, e>>[2] = e
    OBVIOUS
  <2> QED
    BY <1>1, <2>1 DEF Overlaps
<1>3. ~(e < f)
  <2> SUFFICES ASSUME e < f PROVE FALSE
    OBVIOUS
  <2>1. e # NSizesMax /\ e + 1 \in Entries /\ f \in (e + 1)..NSizesMax /\ ~(f <= e)
    BY BuddyAssumption DEF BuddyAssumption, Entries
  <2>2. Touched(H, a, f)
    BY <1>1, <2>1, TouchedUp
  <2>3. Touched(H, b, f)
    BY <1>1, <1>2, <2>1, <2>2, TouchedSame
  <2> QED
    BY <1>1, <2>3
<1>4. ~(f < e)
  <2> SUFFICES ASSUME f < e PROVE FALSE
    OBVIOUS
  <2>1. f # NSizesMax /\ f + 1 \in Entries /\ e \in (f + 1)..NSizesMax /\ ~(e <= f)
    BY BuddyAssumption DEF BuddyAssumption, Entries
  <2>2. Touched(H, b, e)
    BY <1>1, <2>1, TouchedUp
  <2>3. Touched(H, a, e)
    BY <1>1, <1>2, <2>1, <2>2, TouchedSame
  <2> QED
    BY <1>1, <2>3
<1>5. e = f
  BY <1>3, <1>4 DEF Entries
<1> QED
  BY <1>1, <1>2, <1>5

(* Every block is held or free, and never both or twice. *)
THEOREM HeapPartitioned == Spec => []Partition
<1>1. IInv => Partition
  <2> SUFFICES ASSUME IInv PROVE Partition
    OBVIOUS
  <2>1. /\ held \in SUBSET Chunks
        /\ \A c, d \in held : Overlaps(c, d[1], d[2]) => c = d
        /\ \A e \in Entries : IsInjective(free_list[e])
    BY DEF IInv, HeldPart, ListPart
  <2>2. \A c \in FreeChunks : /\ c = <<c[1], c[2]>> /\ c[2] \in Entries
                              /\ c[1] \in MaxFree(held, c[2]) /\ c \in Chunks
    BY FreeChunksAre DEF MaxFree, Chunks
  <2>3. ASSUME NEW c \in held, NEW d \in FreeChunks
        PROVE  ~Overlaps(c, d[1], d[2]) /\ ~Overlaps(d, c[1], c[2]) /\ c # d
    <3>1. ~Overlaps(c, d[1], d[2])
      BY <2>2 DEF MaxFree, Touched
    <3>2. ~Overlaps(d, c[1], c[2])
      BY <2>1, <2>2, <3>1, OverlapSymmetric
    <3>3. c = d => Overlaps(c, d[1], d[2])
      <4>1. c[2] <= c[2]
        BY <2>1 DEF Chunks, Entries
      <4> QED
        BY <4>1 DEF Overlaps
    <3> QED
      BY <3>1, <3>2, <3>3
  <2>4. ASSUME NEW c \in FreeChunks, NEW d \in FreeChunks, Overlaps(c, d[1], d[2])
        PROVE  c = d
    BY <2>1, <2>2, <2>4, LargestApart
  <2>5. \A c, d \in held \cup FreeChunks : Overlaps(c, d[1], d[2]) => c = d
    BY <2>1, <2>3, <2>4
  <2>6. \A c, d \in held \cup FreeChunks : c # d => Blocks(c) \cap Blocks(d) = {}
    BY <2>1, <2>2, <2>5, BlocksApart
  <2>7. \A c \in Chunks : Blocks(c) = {k \in Heap : MergedAddress(k, c[2]) = c[1]}
    <3> TAKE c \in Chunks
    <3>1. c = <<c[1], c[2]>> /\ c[1] \in Heap /\ c[2] \in Entries
          /\ MergedAddress(c[1], c[2]) = c[1]
      BY DEF Chunks
    <3>2. Blocks(<<c[1], c[2]>>) = {k \in Heap : MergedAddress(k, c[2]) = c[1]}
      BY <3>1, BlocksOf
    <3> QED
      BY <3>1, <3>2
  <2>8. ASSUME NEW k \in Heap
        PROVE  \E c \in held \cup FreeChunks : k \in Blocks(c)
    <3>1. 0 \in Entries /\ \A e \in 0..NSizesMax : e \in Entries
      BY BuddyAssumption DEF BuddyAssumption, Entries
    <3>2. MergedAddress(k, 0) = k
      BY Extremes
    <3>3. CASE Touched(held, k, 0)
      <4>1. PICK c \in held : Overlaps(c, k, 0)
        BY <3>3 DEF Touched
      <4>2. c \in Chunks /\ c[2] \in Entries /\ MergedAddress(c[1], c[2]) = c[1] /\ c[1] \in Heap
        BY <2>1 DEF Chunks
      <4>3. MergedAddress(k, c[2]) = c[1]
        <5>1. CASE 0 <= c[2] /\ MergedAddress(k, c[2]) = c[1]
          BY <5>1
        <5>2. CASE c[2] <= 0 /\ MergedAddress(c[1], 0) = MergedAddress(k, 0)
          <6>1. c[2] = 0
            BY <4>2, <5>2 DEF Entries
          <6> QED
            BY <4>2, <5>2, <6>1
        <5> QED
          BY <4>1, <5>1, <5>2 DEF Overlaps
      <4> QED
        BY <2>7, <4>2, <4>3
    <3>4. CASE ~Touched(held, k, 0)
      <4>1. PICK f \in 0..NSizesMax : MergedAddress(k, f) \in MaxFree(held, f)
        BY <2>1, <3>1, <3>4, LargestAround
      <4> DEFINE a == MergedAddress(k, f)
                 c == <<a, f>>
      <4>2. c[1] = a /\ c[2] = f /\ f \in Entries
        BY <3>1
      <4> HIDE DEF a
      <4>3. a = MergedAddress(k, f)
        BY DEF a
      <4>4. c \in FreeChunks
        BY <4>1, <4>2, <4>3, FreeChunksAre
      <4>5. k \in Blocks(c)
        BY <2>2, <2>7, <4>2, <4>3, <4>4
      <4> QED
        BY <4>4, <4>5
    <3> QED
      BY <3>3, <3>4
  <2>9. \A c \in held \cup FreeChunks : Blocks(c) \subseteq Heap
    BY <2>1, <2>2, <2>7
  <2>10. UNION {Blocks(c) : c \in held \cup FreeChunks} = Heap
    BY <2>8, <2>9
  <2>11. held \cap FreeChunks = {}
    BY <2>3
  <2> QED
    BY <2>1, <2>6, <2>10, <2>11 DEF Partition, Heap
<1> QED
  BY <1>1, SpecInv, PTL

(* Buddies are not free side by side: they are one larger chunk. *)
THEOREM AlwaysCoalesced == Spec => []Coalesced
<1>1. IInv => Coalesced
  <2> SUFFICES ASSUME IInv, NEW c \in FreeChunks, c[2] # NSizesMax,
                      <<BuddyAddress(c[1], c[2]), c[2]>> \in FreeChunks
               PROVE  FALSE
    BY DEF Coalesced
  <2> DEFINE a == c[1]
             e == c[2]
             b == BuddyOf(a, e)
  <2>1. e \in Entries /\ a \in MaxFree(held, e) /\ held \in SUBSET Chunks
    BY FreeChunksAre DEF IInv, HeldPart
  <2>2. /\ a \in Heap /\ MergedAddress(a, e) = a /\ ~Touched(held, a, e)
        /\ Touched(held, a, e + 1)
    BY <2>1 DEF MaxFree
  <2>3. b = BuddyAddress(a, e)
    BY <2>2 DEF BuddyOf
  <2>4. <<b, e>> \in FreeChunks
    BY <2>3
  <2> HIDE DEF b
  <2>5. b \in MaxFree(held, e)
    <3>1. <<b, e>>[1] = b /\ <<b, e>>[2] = e
      OBVIOUS
    <3> QED
      BY <2>4, <3>1, FreeChunksAre
  <2>6. e # NSizesMax
    OBVIOUS
  <2> HIDE DEF a, e
  <2>7. e \in 0..(NSizesMax - 1)
    BY <2>1, <2>6, BuddyAssumption DEF BuddyAssumption, Entries
  <2>8. PICK d \in held : Overlaps(d, a, e + 1) /\ ~Overlaps(d, a, e)
    BY <2>2 DEF Touched
  <2>9. d[2] <= e /\ MergedAddress(d[1], e) = b
    BY <2>1, <2>2, <2>7, <2>8, OverlapSplit DEF b
  <2>10. MergedAddress(b, e) = b /\ ~Touched(held, b, e)
    BY <2>5 DEF MaxFree
  <2>11. Overlaps(d, b, e)
    BY <2>9, <2>10 DEF Overlaps
  <2> QED
    BY <2>10, <2>11 DEF Touched
<1> QED
  BY <1>1, SpecInv, PTL

-------------------------------------------------------------------------------
(* Chunks that overlap have a block in common. *)
LEMMA BlocksMeet ==
  ASSUME NEW c \in Chunks, NEW d \in Chunks, Overlaps(c, d[1], d[2])
  PROVE  Blocks(c) \cap Blocks(d) # {}
<1> DEFINE a == c[1]
           e == c[2]
           b == d[1]
           f == d[2]
<1>1. /\ a \in Heap /\ e \in Entries /\ MergedAddress(a, e) = a /\ c = <<a, e>>
      /\ b \in Heap /\ f \in Entries /\ MergedAddress(b, f) = b /\ d = <<b, f>>
  BY DEF Chunks
<1>2. \/ e <= f /\ MergedAddress(a, f) = MergedAddress(b, f)
      \/ f <= e /\ MergedAddress(b, e) = a
  BY DEF Overlaps
<1> HIDE DEF a, b, e, f
<1>3. Blocks(c) = {k \in Heap : MergedAddress(k, e) = a}
  BY <1>1, BlocksOf
<1>4. Blocks(d) = {k \in Heap : MergedAddress(k, f) = b}
  BY <1>1, BlocksOf
<1>5. a \in Blocks(c) \cap Blocks(d) \/ b \in Blocks(c) \cap Blocks(d)
  BY <1>1, <1>2, <1>3, <1>4
<1> QED
  BY <1>5

(* The entry a request is for, in the terms of the page allocator. *)
LEMMA NeededIs ==
  ASSUME NEW n \in 1..HeapSize
  PROVE  Pages!Needed(n) = FindPowerOfTwo(n)
<1> DEFINE m == FindPowerOfTwo(n)
           Fits(e) == Size[e] >= n /\ \A f \in 0..(e - 1) : Size[f] < n
           p == CHOOSE e \in Entries : Fits(e)
<1>1. m \in Entries /\ Size[m] >= n /\ \A e \in Entries : Size[e] >= n => m <= e
  BY EntryForBlocks
<1> HIDE DEF m
<1>2. \A e \in Entries : Size[e] \in Nat
  BY SizePositive
<1>3. HeapSize \in Nat /\ n \in Nat
  <2>1. NSizesMax \in Entries
    BY BuddyAssumption DEF BuddyAssumption, Entries
  <2> QED
    BY <1>2, <2>1 DEF HeapSize
<1>4. Fits(m)
  <2> SUFFICES ASSUME NEW f \in 0..(m - 1) PROVE Size[f] < n
    BY <1>1
  <2>1. f \in Entries /\ ~(m <= f)
    BY <1>1, BuddyAssumption DEF BuddyAssumption, Entries
  <2> QED
    BY <1>1, <1>2, <1>3, <2>1
<1>5. ASSUME NEW e \in Entries, Fits(e) PROVE e = m
  <2>1. m <= e
    BY <1>1, <1>5
  <2>2. ~(m < e)
    <3> SUFFICES ASSUME m < e PROVE FALSE
      OBVIOUS
    <3>1. m \in 0..(e - 1)
      BY <1>1 DEF Entries
    <3>2. Size[m] < n /\ Size[m] \in Nat
      BY <1>1, <1>2, <1>5, <3>1
    <3> QED
      BY <1>1, <1>3, <3>2
  <2> QED
    BY <1>1, <2>1, <2>2 DEF Entries
<1>6. p \in Entries /\ Fits(p)
  BY <1>1, <1>4
<1>7. Pages!Needed(n) = p
  BY DEF Pages!Needed, Pages!Entries, Entries
<1> HIDE DEF p, Fits
<1> QED
  BY <1>5, <1>6, <1>7 DEF m

(* The aligned chunks of the page allocator. *)
LEMMA AlignedIs ==
  ASSUME NEW e \in Entries
  PROVE  Pages!Aligned(e) = {c \in Chunks : c[2] = e}
<1> DEFINE C == Size[e]
           D == Size[NSizesMax - e]
<1>1. NSizesMax - e \in Entries
  BY BuddyAssumption DEF BuddyAssumption, Entries
<1>2. C \in Nat \ {0} /\ D \in Nat \ {0} /\ D * C = HeapSize
  BY <1>1, SizePositive, SizeProduct
<1>3. Pages!Aligned(e) = {<<C * k, e>> : k \in 0..(D - 1)}
  BY DEF Pages!Aligned
<1>4. ASSUME NEW k \in 0..(D - 1)
      PROVE  C * k \in Heap /\ MergedAddress(C * k, e) = C * k
  <2>1. k \in Int /\ k < D /\ 0 <= k
    BY <1>2, <1>4
  <2>2. /\ C * k = k * C /\ C * D = D * C /\ C * 0 = 0 /\ 0 * C = 0
        /\ k * C \in Int /\ D * C \in Int
    BY <1>2, <2>1
  <2> HIDE DEF C, D
  <2>3. k * C + C <= D * C
    BY <1>2, <2>1, <2>2, Multiples
  <2>4. k * C >= 0
    BY <1>2, <2>1
  <2>5. k * C \in Heap
    BY <1>2, <2>2, <2>3, <2>4 DEF Heap
  <2>6. k * C <= k * C /\ k * C < k * C + C
    BY <1>2, <2>2
  <2>7. MergedAddress(k * C, e) = k * C
    BY <2>1, <2>5, <2>6, ChunkUnique DEF C
  <2> QED
    BY <2>2, <2>5, <2>7
<1>5. ASSUME NEW c \in Chunks, c[2] = e
      PROVE  \E k \in 0..(D - 1) : c = <<C * k, e>>
  <2> DEFINE k == c[1] \div C
  <2>1. c = <<c[1], e>> /\ c[1] \in Heap /\ MergedAddress(c[1], e) = c[1]
    BY <1>5 DEF Chunks
  <2>2. k \in 0..(D - 1) /\ c[1] = k * C
    BY <2>1, ChunkBounds DEF MergedAddress
  <2> HIDE DEF k, D, C
  <2>3. C * k = k * C
    BY <1>2, <2>2
  <2> QED
    BY <2>1, <2>2, <2>3
<1> HIDE DEF C, D
<1>6. \A k \in 0..(D - 1) : <<C * k, e>> \in Chunks /\ <<C * k, e>>[2] = e
  BY <1>4 DEF Chunks
<1> QED
  BY <1>3, <1>5, <1>6

(* Unused chunks are the untouched ones. *)
LEMMA UnusedIs ==
  ASSUME held \in SUBSET Chunks, NEW c \in Chunks
  PROVE  Pages!Unused(c) <=> ~Touched(held, c[1], c[2])
<1>1. Pages!Unused(c) <=> \A d \in held : Blocks(c) \cap Blocks(d) = {}
  BY DEF Pages!Unused, Pages!Blocks, Blocks
<1>2. \A d \in held : Blocks(c) \cap Blocks(d) # {} <=> Overlaps(d, c[1], c[2])
  <2> TAKE d \in held
  <2>1. d \in Chunks /\ Blocks(c) \cap Blocks(d) = Blocks(d) \cap Blocks(c)
    OBVIOUS
  <2> QED
    BY <2>1, BlocksApart, BlocksMeet
<1> QED
  BY <1>1, <1>2 DEF Touched

(* buddy_alloc hands out an unused chunk of the entry the request needs, or *)
(* there is none.                                                           *)
LEMMA AllocAllocates ==
  ASSUME IInv, NEW n \in 1..HeapSize, Alloc(n)
  PROVE  Pages!Allocate(n)
<1> DEFINE to == FindPowerOfTwo(n)
<1>1. to \in Entries /\ Pages!Needed(n) = to
  BY EntryForBlocks, NeededIs
<1>2. /\ held \in SUBSET Chunks
      /\ \A e \in Entries : ToSet(free_list[e]) = MaxFree(held, e)
  BY DEF IInv, HeldPart, ListPart
<1>3. \/ \E from \in to..NSizesMax : AllocFound(to, from)
      \/ /\ \A e \in to..NSizesMax : free_list[e] = <<>>
         /\ answer' = NoMemory
         /\ UNCHANGED <<free_list, bitmap, held>>
  BY AllocSteps
<1> HIDE DEF to
<1>4. ASSUME NEW from \in to..NSizesMax, AllocFound(to, from)
      PROVE  Pages!Allocate(n)
  <2> DEFINE chunk == Head(free_list[from])
             c == <<chunk, to>>
  <2>1. Room(held, chunk, to, from) /\ chunk \in Heap
    BY <1>1, <1>4, AllocRoom DEF AllocFound
  <2>2. held' = held \cup {c} /\ answer' = chunk
    BY <1>4 DEF AllocFound
  <2> HIDE DEF chunk
  <2>3. MergedAddress(chunk, to) = chunk /\ c[1] = chunk /\ c[2] = to
    BY <2>1 DEF Room
  <2>4. to <= from
    BY <1>1, BuddyAssumption DEF BuddyAssumption, Entries
  <2>5. ~Touched(held, chunk, to)
    BY <1>1, <2>1, <2>4, AroundRoom
  <2>6. c \in Chunks
    BY <1>1, <2>1, <2>3 DEF Chunks
  <2> HIDE DEF c
  <2>7. c \in Pages!Aligned(to) /\ Pages!Unused(c)
    BY <1>1, <1>2, <2>3, <2>5, <2>6, AlignedIs, UnusedIs
  <2> QED
    BY <1>1, <2>2, <2>3, <2>7 DEF Pages!Allocate
<1>5. ASSUME \A e \in to..NSizesMax : free_list[e] = <<>>,
             answer' = NoMemory, UNCHANGED held
      PROVE  Pages!Allocate(n)
  <2>1. ASSUME NEW c \in Pages!Aligned(to) PROVE ~Pages!Unused(c)
    <3>1. c \in Chunks /\ c[2] = to /\ c[1] \in Heap
      BY <1>1, AlignedIs DEF Chunks
    <3>2. Touched(held, c[1], to)
      <4> SUFFICES ASSUME ~Touched(held, c[1], to) PROVE FALSE
        OBVIOUS
      <4>1. PICK f \in to..NSizesMax : MergedAddress(c[1], f) \in MaxFree(held, f)
        BY <1>1, <1>2, <3>1, LargestAround
      <4>2. f \in Entries
        BY <1>1, BuddyAssumption DEF BuddyAssumption, Entries
      <4>3. MaxFree(held, f) = {}
        BY <1>2, <1>5, <4>2, EmptyList
      <4> QED
        BY <4>1, <4>3
    <3> QED
      BY <1>2, <3>1, <3>2, UnusedIs
  <2>2. answer' = Pages!NoMemory
    BY <1>5 DEF NoMemory, Pages!NoMemory
  <2> QED
    BY <1>1, <1>5, <2>1, <2>2 DEF Pages!Allocate
<1> QED
  BY <1>3, <1>4, <1>5

(* The buddy allocator implements the page allocator. *)
THEOREM BuddyImplementsPageAllocator == Spec => ImplementsPageAllocator
<1>1. Init => Pages!Init
  BY DEF Init, Pages!Init, NoMemory, Pages!NoMemory
<1>2. IInv /\ [Next]_vars => [Pages!Next]_(Pages!vars)
  <2> SUFFICES ASSUME IInv, [Next]_vars PROVE Pages!Next \/ UNCHANGED Pages!vars
    OBVIOUS
  <2>1. ASSUME NEW n \in 1..HeapSize, Alloc(n) PROVE Pages!Next
    <3>1. Pages!Allocate(n)
      BY <2>1, AllocAllocates
    <3> QED
      BY <3>1 DEF Pages!Next, HeapSize
  <2>2. ASSUME NEW c \in held, Free(c[1]), held' = held \ {c} PROVE Pages!Next
    <3>1. answer' = answer
      BY <2>2 DEF Free
    <3> QED
      BY <2>2, <3>1 DEF Pages!Next, Pages!Release
  <2>3. CASE UNCHANGED vars
    BY <2>3 DEF vars, Pages!vars
  <2> QED
    BY <2>1, <2>2, <2>3 DEF Next
<1> QED
  BY <1>1, <1>2, SpecInv, PTL DEF Spec, ImplementsPageAllocator, Pages!Spec
===============================================================================
