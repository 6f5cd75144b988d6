------------------------------- MODULE SlabProofs -------------------------------
(***************************************************************************)
(* Proofs about the slab allocator, for any number of chunks, sizes,       *)
(* requests and buffers.  IInv is Sound, which holds of the state a call   *)
(* passes through as well as of those between calls, and Tabled.  At the   *)
(* end: what kmem_cache_info prints.                                       *)
(***************************************************************************)
EXTENDS Slab, Lemmas

(* The doublings up to n, as a table. *)
PowersTo(n) == {g \in [0..n -> Nat] : g[0] = 1 /\ \A k \in 1..n : g[k] = 2 * g[k - 1]}

(* There is such a table for every n. *)
LEMMA TableExists == \A n \in Nat : PowersTo(n) # {}
<1> DEFINE Bad == {n \in Nat : PowersTo(n) = {}}
<1>1. SUFFICES ASSUME Bad # {} PROVE FALSE
  OBVIOUS
<1>2. Bad \in SUBSET Nat
  OBVIOUS
<1>3. Min(Bad) \in Bad /\ \A n \in Bad : Min(Bad) <= n
  BY <1>1, <1>2, MinOfNats
<1> DEFINE m == Min(Bad)
<1>4. m \in Nat /\ PowersTo(m) = {}
  BY <1>3
<1>5. \A n \in Nat : n \in Bad => m <= n
  BY <1>3
<1> HIDE DEF m
<1>6. \A n \in Nat : n < m => PowersTo(n) # {}
  BY <1>4, <1>5
<1> HIDE DEF Bad
<1>7. CASE m = 0
  <2> DEFINE g == [k \in 0..0 |-> 1]
  <2>1. g \in PowersTo(0)
    BY DEF PowersTo
  <2> QED
    BY <1>4, <1>7, <2>1
<1>8. CASE m # 0
  <2>1. m - 1 \in Nat /\ m - 1 < m
    BY <1>4, <1>8
  <2>2. PICK g \in PowersTo(m - 1) : TRUE
    BY <1>6, <2>1
  <2>3. g \in [0..(m - 1) -> Nat] /\ g[0] = 1 /\ \A k \in 1..(m - 1) : g[k] = 2 * g[k - 1]
    BY <2>2 DEF PowersTo
  <2> DEFINE h == [k \in 0..m |-> IF k = m THEN 2 * g[m - 1] ELSE g[k]]
  <2>4. h \in [0..m -> Nat]
    <3>1. \A k \in 0..m : k # m => k \in 0..(m - 1)
      BY <1>4
    <3>2. m - 1 \in 0..(m - 1) /\ g[m - 1] \in Nat
      BY <2>1, <2>3
    <3> QED
      BY <2>3, <3>1, <3>2
  <2>5. h[0] = 1
    BY <1>4, <1>8, <2>3
  <2>6. ASSUME NEW k \in 1..m PROVE h[k] = 2 * h[k - 1]
    <3>1. k \in 0..m /\ k - 1 \in 0..m /\ k - 1 # m
      BY <1>4
    <3>2. h[k - 1] = g[k - 1]
      BY <3>1
    <3>3. CASE k = m
      BY <3>1, <3>2, <3>3
    <3>4. CASE k # m
      <4>1. k \in 1..(m - 1)
        BY <1>4, <3>4
      <4> QED
        BY <2>3, <3>1, <3>2, <3>4, <4>1
    <3> QED
      BY <3>3, <3>4
  <2> HIDE DEF h
  <2>7. h \in PowersTo(m)
    BY <2>4, <2>5, <2>6 DEF PowersTo
  <2> QED
    BY <1>4, <2>7
<1> QED
  BY <1>7, <1>8

(* A table and a longer one agree. *)
LEMMA TablesAgree ==
  ASSUME NEW n \in Nat, NEW g \in PowersTo(n), NEW h \in PowersTo(n + 1)
  PROVE  \A k \in 0..n : g[k] = h[k]
<1> DEFINE Bad == {k \in 0..n : g[k] # h[k]}
<1>1. SUFFICES ASSUME Bad # {} PROVE FALSE
  OBVIOUS
<1>2. Bad \in SUBSET Nat
  OBVIOUS
<1>3. Min(Bad) \in Bad /\ \A k \in Bad : Min(Bad) <= k
  BY <1>1, <1>2, MinOfNats
<1> DEFINE m == Min(Bad)
<1>4. m \in 0..n /\ g[m] # h[m]
  BY <1>3
<1>5. \A k \in 0..n : k \in Bad => m <= k
  BY <1>3
<1> HIDE DEF m
<1>6. \A k \in 0..n : k < m => g[k] = h[k]
  BY <1>4, <1>5
<1> HIDE DEF Bad
<1>7. /\ g[0] = 1 /\ \A k \in 1..n : g[k] = 2 * g[k - 1]
      /\ h[0] = 1 /\ \A k \in 1..(n + 1) : h[k] = 2 * h[k - 1]
  BY DEF PowersTo
<1>8. m # 0
  BY <1>4, <1>7
<1>9. m \in 1..n /\ m \in 1..(n + 1) /\ m - 1 \in 0..n /\ m - 1 < m
  BY <1>4, <1>8
<1> QED
  BY <1>4, <1>6, <1>7, <1>9

(* The doublings are those of the tables. *)
LEMMA PowerIs ==
  /\ Power[0] = 1
  /\ \A k \in Nat : Power[k] \in Nat /\ Power[k + 1] = 2 * Power[k]
<1> DEFINE table(n) == CHOOSE g \in PowersTo(n) : TRUE
           f == [n \in Nat |-> table(n)[n]]
<1>1. \A n \in Nat : table(n) \in PowersTo(n)
  BY TableExists
<1> HIDE DEF table
<1>2. ASSUME NEW n \in Nat
      PROVE  /\ table(n)[0] = 1 /\ table(n)[n] \in Nat
             /\ n # 0 => table(n)[n] = 2 * table(n - 1)[n - 1]
  <2>1. /\ table(n) \in [0..n -> Nat] /\ table(n)[0] = 1
        /\ \A k \in 1..n : table(n)[k] = 2 * table(n)[k - 1]
    BY <1>1 DEF PowersTo
  <2>2. ASSUME n # 0 PROVE table(n)[n] = 2 * table(n - 1)[n - 1]
    <3>1. n - 1 \in Nat /\ (n - 1) + 1 = n /\ n \in 1..n /\ n - 1 \in 0..(n - 1)
      BY <2>2
    <3>2. table(n - 1) \in PowersTo(n - 1) /\ table(n) \in PowersTo((n - 1) + 1)
      BY <1>1, <3>1
    <3>3. \A k \in 0..(n - 1) : table(n - 1)[k] = table(n)[k]
      BY <3>1, <3>2, TablesAgree
    <3> QED
      BY <2>1, <3>1, <3>3
  <2>3. n \in 0..n
    OBVIOUS
  <2> QED
    BY <2>1, <2>2, <2>3
<1>3. f = [k \in Nat |-> IF k = 0 THEN 1 ELSE 2 * f[k - 1]]
  <2>1. \A k \in Nat : f[k] = IF k = 0 THEN 1 ELSE 2 * f[k - 1]
    <3> TAKE k \in Nat
    <3>1. f[k] = table(k)[k]
      OBVIOUS
    <3>2. CASE k = 0
      BY <1>2, <3>1, <3>2
    <3>3. CASE k # 0
      <4>1. k - 1 \in Nat
        BY <3>3
      <4>2. f[k - 1] = table(k - 1)[k - 1]
        BY <4>1
      <4> QED
        BY <1>2, <3>1, <3>3, <4>2
    <3> QED
      BY <3>2, <3>3
  <2> QED
    BY <2>1
<1>4. \A k \in Nat : f[k] \in Nat
  BY <1>2
<1> HIDE DEF f
<1>5. Power = [k \in Nat |-> IF k = 0 THEN 1 ELSE 2 * Power[k - 1]]
  BY <1>3 DEF Power
<1>6. Power[0] = 1
  BY <1>5
<1>7. \A k \in Nat : Power[k + 1] = 2 * Power[k]
  <2> TAKE k \in Nat
  <2>1. k + 1 \in Nat /\ k + 1 # 0 /\ (k + 1) - 1 = k
    OBVIOUS
  <2> QED
    BY <1>5, <2>1
<1> DEFINE Bad == {k \in Nat : Power[k] \notin Nat}
<1>8. Bad = {}
  <2> SUFFICES ASSUME Bad # {} PROVE FALSE
    OBVIOUS
  <2>1. Bad \in SUBSET Nat
    OBVIOUS
  <2>2. Min(Bad) \in Bad /\ \A k \in Bad : Min(Bad) <= k
    BY <2>1, MinOfNats
  <2> DEFINE m == Min(Bad)
  <2>3. m \in Nat /\ Power[m] \notin Nat
    BY <2>2
  <2>4. \A k \in Nat : k \in Bad => m <= k
    BY <2>2
  <2> HIDE DEF m
  <2>5. m # 0
    BY <1>6, <2>3
  <2>6. m - 1 \in Nat /\ m - 1 < m /\ (m - 1) + 1 = m
    BY <2>3, <2>5
  <2>7. Power[m - 1] \in Nat
    BY <2>3, <2>4, <2>6
  <2> QED
    BY <1>7, <2>3, <2>6, <2>7
<1> QED
  BY <1>6, <1>7, <1>8

(* And they grow. *)
LEMMA PowerLarge == \A k \in Nat : Power[k] \in Nat /\ Power[k] > k
<1> DEFINE Bad == {k \in Nat : ~(Power[k] > k)}
<1>1. SUFFICES ASSUME Bad # {} PROVE FALSE
  BY PowerIs
<1>2. Bad \in SUBSET Nat
  OBVIOUS
<1>3. Min(Bad) \in Bad /\ \A k \in Bad : Min(Bad) <= k
  BY <1>1, <1>2, MinOfNats
<1> DEFINE m == Min(Bad)
<1>4. m \in Nat /\ ~(Power[m] > m)
  BY <1>3
<1>5. \A k \in Nat : k \in Bad => m <= k
  BY <1>3
<1> HIDE DEF m
<1>6. m # 0
  BY <1>4, PowerIs
<1>7. m - 1 \in Nat /\ m - 1 < m /\ (m - 1) + 1 = m
  BY <1>4, <1>6
<1>8. Power[m - 1] > m - 1 /\ Power[m - 1] \in Nat
  BY <1>4, <1>5, <1>7, PowerIs
<1>9. Power[m] = 2 * Power[m - 1]
  BY <1>7, PowerIs
<1> QED
  BY <1>4, <1>6, <1>8, <1>9

-------------------------------------------------------------------------------
(* An object has room for the links that chain it. *)
LEMMA ObjSizeIs ==
  ASSUME NEW size \in Nat
  PROVE  ObjSize(size) \in Nat \ {0}
<1>1. ListSize \in Nat \ {0}
  BY SlabAssumption DEF SlabAssumption
<1>2. CASE size >= ListSize
  <2>1. size \in {size, ListSize} /\ \A y \in {size, ListSize} : size >= y
    BY <1>1, <1>2
  <2>2. ObjSize(size) \in {size, ListSize} /\ \A y \in {size, ListSize} : ObjSize(size) >= y
    BY <2>1 DEF ObjSize, Max
  <2> QED
    BY <1>1, <1>2, <2>2
<1>3. CASE ~(size >= ListSize)
  <2>1. ListSize \in {size, ListSize} /\ \A y \in {size, ListSize} : ListSize >= y
    BY <1>1, <1>3
  <2>2. ObjSize(size) \in {size, ListSize} /\ \A y \in {size, ListSize} : ObjSize(size) >= y
    BY <2>1 DEF ObjSize, Max
  <2> QED
    BY <1>1, <1>3, <2>2
<1> QED
  BY <1>2, <1>3

(* The loop of kmem_cache_create ends: a slab has room for an object, and   *)
(* for as many as there have to be.                                         *)
LEMMA RoomInSlab ==
  ASSUME NEW size \in Nat
  PROVE  /\ SlabSize(size) \in Nat
         /\ MaximumObjects(size) \in Nat \ {0} /\ MaximumObjects(size) >= MinObjects
<1> DEFINE o == ObjSize(size)
           Sized == {b \in {PageSize * Power[k] : k \in 0..o} : b \div o >= MinObjects}
           b1 == PageSize * Power[o]
<1>1. o \in Nat \ {0}
  BY ObjSizeIs
<1> HIDE DEF o
<1>2. MinObjects \in Nat \ {0} /\ PageSize \in Nat /\ MinObjects <= PageSize
  BY SlabAssumption DEF SlabAssumption
<1>3. \A k \in 0..o : Power[k] \in Nat
  BY <1>1, PowerIs
<1>4. Sized \in SUBSET Nat
  BY <1>2, <1>3
<1>5. b1 \in Sized
  <2>1. Power[o] \in Nat /\ Power[o] > o /\ o \in 0..o
    BY <1>1, PowerLarge
  <2> DEFINE p == Power[o]
             q == b1 \div o
  <2>2. b1 \in Nat
    BY <1>2, <2>1
  <2>3. q \in Nat /\ q * o <= b1 /\ b1 < q * o + o
    BY <1>1, <2>2, DivBounds
  <2>4. MinObjects * o <= b1
    <3> HIDE DEF p
    <3>1. p \in Nat /\ p > o /\ b1 = PageSize * p
      BY <2>1 DEF p
    <3>2. \E d \in Nat : p = o + d
      <4>1. p - o \in Nat /\ p = o + (p - o)
        BY <1>1, <3>1
      <4> QED
        BY <4>1
    <3>3. PICK d \in Nat : p = o + d
      BY <3>2
    <3>4. PageSize * p = PageSize * o + PageSize * d /\ PageSize * d \in Nat
      BY <1>1, <1>2, <3>3
    <3>5. \E g \in Nat : PageSize = MinObjects + g
      <4>1. PageSize - MinObjects \in Nat /\ PageSize = MinObjects + (PageSize - MinObjects)
        BY <1>2
      <4> QED
        BY <4>1
    <3>6. PICK g \in Nat : PageSize = MinObjects + g
      BY <3>5
    <3>7. PageSize * o = MinObjects * o + g * o /\ g * o \in Nat /\ MinObjects * o \in Nat
      BY <1>1, <1>2, <3>6
    <3> QED
      BY <3>1, <3>4, <3>7
  <2>5. q >= MinObjects
    <3> HIDE DEF q, b1
    <3> SUFFICES ASSUME MinObjects > q PROVE FALSE
      BY <1>2, <2>3
    <3>1. o * MinObjects >= o * q + o
      BY <1>1, <1>2, <2>3, Multiples
    <3>2. o * MinObjects = MinObjects * o /\ o * q = q * o /\ o * q \in Nat /\ MinObjects * o \in Nat
      BY <1>1, <1>2, <2>3
    <3> QED
      BY <1>1, <2>2, <2>3, <2>4, <3>1, <3>2
  <2> QED
    BY <2>1, <2>5
<1>6. Min(Sized) \in Sized
  BY <1>4, <1>5, MinOfNats
<1>7. SlabSize(size) = Min(Sized)
  BY DEF SlabSize, o
<1> DEFINE b == SlabSize(size)
<1>8. b \in Nat /\ b \div o >= MinObjects
  BY <1>4, <1>6, <1>7
<1> HIDE DEF b
<1>9. b \div o \in Nat
  BY <1>1, <1>8, DivBounds
<1>10. MaximumObjects(size) = b \div o
  BY DEF MaximumObjects, b, o
<1> QED
  BY <1>2, <1>8, <1>9, <1>10 DEF b

-------------------------------------------------------------------------------
(* The three lists of a cache. *)
Kinds == {"empty", "partial", "full"}
ListRecords == [empty : Seq(Chunks), partial : Seq(Chunks), full : Seq(Chunks)]

(* No slab is linked twice. *)
Once(l) ==
  /\ \A k \in Kinds : IsInjective(l[k])
  /\ \A j, k \in Kinds : j # k => ToSet(l[j]) \cap ToSet(l[k]) = {}

(* Slabs are where their counters say. *)
ByCounter(l, oc, max) ==
  /\ l \in ListRecords /\ Once(l)
  /\ \A s \in ToSet(l["empty"]) : oc[s] = 0
  /\ \A s \in ToSet(l["partial"]) : oc[s] \in 1..(max - 1)
  /\ \A s \in ToSet(l["full"]) : oc[s] = max

(* A record of lists by its fields. *)
LEMMA RecordFields ==
  ASSUME NEW l \in ListRecords
  PROVE  /\ DOMAIN l = Kinds /\ \A k \in Kinds : l[k] \in Seq(Chunks)
         /\ l = [k \in Kinds |-> l[k]]
         /\ Slabs(l) = ToSet(l["empty"]) \cup ToSet(l["partial"]) \cup ToSet(l["full"])
         /\ Slabs(l) \subseteq Chunks
<1>1. l["empty"] \in Seq(Chunks) /\ l["partial"] \in Seq(Chunks) /\ l["full"] \in Seq(Chunks)
  BY DEF ListRecords
<1>2. DOMAIN l = Kinds
  BY DEF ListRecords, Kinds
<1>3. l = [k \in Kinds |-> l[k]]
  BY DEF ListRecords, Kinds
<1>4. Slabs(l) = ToSet(l["empty"]) \cup ToSet(l["partial"]) \cup ToSet(l["full"])
  BY DEF ListRecords, Slabs
<1>5. ToSet(l["empty"]) \subseteq Chunks /\ ToSet(l["partial"]) \subseteq Chunks
      /\ ToSet(l["full"]) \subseteq Chunks
  BY <1>1, ListElements
<1> QED
  BY <1>1, <1>2, <1>3, <1>4, <1>5 DEF Kinds

(* A record of lists is one if it is a function of the kinds. *)
LEMMA RecordIs ==
  ASSUME NEW l, l = [k \in Kinds |-> l[k]], \A k \in Kinds : l[k] \in Seq(Chunks)
  PROVE  l \in ListRecords
<1> DEFINE r == [empty |-> l["empty"], partial |-> l["partial"], full |-> l["full"]]
<1>1. r \in ListRecords
  BY DEF ListRecords, Kinds
<1>2. r = [k \in Kinds |-> r[k]]
  BY <1>1, RecordFields
<1>3. \A k \in Kinds : r[k] = l[k]
  BY DEF Kinds
<1> HIDE DEF r
<1>4. l = r
  BY <1>2, <1>3
<1> QED
  BY <1>1, <1>4

(* list_push of something that is not in the list. *)
LEMMA PushList ==
  ASSUME NEW S, NEW q \in Seq(S), NEW s \in S
  PROVE  /\ <<s>> \o q \in Seq(S) /\ ToSet(<<s>> \o q) = ToSet(q) \cup {s}
         /\ IsInjective(q) /\ s \notin ToSet(q) => IsInjective(<<s>> \o q)
<1> DEFINE one == <<s>>
<1>1. one \in Seq(S) /\ ToSet(one) = {s} /\ IsInjective(one)
  BY OneList
<1> HIDE DEF one
<1>2. one \o q \in Seq(S) /\ ToSet(one \o q) = ToSet(one) \cup ToSet(q)
  BY <1>1, ConcatList
<1>3. ASSUME IsInjective(q), s \notin ToSet(q) PROVE IsInjective(one \o q)
  <2>1. ToSet(one) \cap ToSet(q) = {}
    BY <1>1, <1>3
  <2> QED
    BY <1>1, <1>3, <2>1, ConcatList
<1> QED
  BY <1>1, <1>2, <1>3 DEF one

(* Moving a slab from one list to another loses and repeats nobody. *)
LEMMA MoveLists ==
  ASSUME NEW l \in ListRecords, Once(l), NEW from \in Kinds, NEW to \in Kinds, from # to,
         NEW s \in ToSet(l[from])
  PROVE  LET m == Move(l, s, from, to)
         IN  /\ m \in ListRecords /\ Once(m) /\ Slabs(m) = Slabs(l)
             /\ ToSet(m[from]) = ToSet(l[from]) \ {s} /\ s \in ToSet(m[to])
             /\ ToSet(m[to]) = ToSet(l[to]) \cup {s}
             /\ \A k \in Kinds \ {from, to} : m[k] = l[k]
<1> DEFINE m == Move(l, s, from, to)
<1>1. /\ DOMAIN l = Kinds /\ \A k \in Kinds : l[k] \in Seq(Chunks)
      /\ l = [k \in Kinds |-> l[k]]
      /\ Slabs(l) = ToSet(l["empty"]) \cup ToSet(l["partial"]) \cup ToSet(l["full"])
      /\ s \in Chunks
  BY RecordFields, ListElements
<1>2. m = [k \in Kinds |-> IF k = to THEN <<s>> \o l[to]
                          ELSE IF k = from THEN RemoveFirst(l[from], s) ELSE l[k]]
  BY <1>1 DEF Move
<1>3. /\ m[to] = <<s>> \o l[to] /\ m[from] = RemoveFirst(l[from], s)
      /\ \A k \in Kinds \ {from, to} : m[k] = l[k]
  BY <1>2
<1> HIDE DEF m
<1>4. \A k \in Kinds : IsInjective(l[k])
  BY DEF Once
<1>5. \A j, k \in Kinds : j # k => ToSet(l[j]) \cap ToSet(l[k]) = {}
  BY DEF Once
<1>6. /\ m[to] \in Seq(Chunks) /\ ToSet(m[to]) = ToSet(l[to]) \cup {s} /\ IsInjective(m[to])
  <2>1. s \notin ToSet(l[to])
    BY <1>5
  <2> DEFINE q == l[to]
  <2>2. q \in Seq(Chunks) /\ IsInjective(q) /\ s \notin ToSet(q)
    BY <1>1, <1>4, <2>1
  <2> HIDE DEF q
  <2>3. <<s>> \o q \in Seq(Chunks) /\ ToSet(<<s>> \o q) = ToSet(q) \cup {s}
        /\ IsInjective(<<s>> \o q)
    BY <1>1, <2>2, PushList
  <2> QED
    BY <1>3, <2>3 DEF q
<1>7. /\ m[from] \in Seq(Chunks) /\ ToSet(m[from]) = ToSet(l[from]) \ {s}
      /\ IsInjective(m[from])
  <2> DEFINE q == l[from]
  <2>1. q \in Seq(Chunks) /\ IsInjective(q)
    BY <1>1, <1>4
  <2> HIDE DEF q
  <2>2. /\ RemoveFirst(q, s) \in Seq(Chunks) /\ ToSet(RemoveFirst(q, s)) = ToSet(q) \ {s}
        /\ IsInjective(RemoveFirst(q, s))
    BY <2>1, RemoveList
  <2> QED
    BY <1>3, <2>2 DEF q
<1>8. \A k \in Kinds : m[k] \in Seq(Chunks) /\ IsInjective(m[k])
  BY <1>1, <1>3, <1>4, <1>6, <1>7
<1>9. m \in ListRecords
  <2>1. m = [k \in Kinds |-> m[k]]
    BY <1>2
  <2> QED
    BY <1>8, <2>1, RecordIs
<1>10. \A j, k \in Kinds : j # k => ToSet(m[j]) \cap ToSet(m[k]) = {}
  <2>1. \A k \in Kinds \ {from, to} : ToSet(m[k]) = ToSet(l[k]) /\ s \notin ToSet(l[k])
    BY <1>3, <1>5
  <2>2. ToSet(l[from]) \cap ToSet(l[to]) = {}
    BY <1>5
  <2> TAKE j, k \in Kinds
  <2> SUFFICES ASSUME j # k, NEW r \in ToSet(m[j]), r \in ToSet(m[k]) PROVE FALSE
    OBVIOUS
  <2>3. \A i \in Kinds : r \in ToSet(m[i]) => r \in ToSet(l[i]) \/ (i = to /\ r = s)
    BY <1>6, <1>7, <2>1
  <2>4. r # s => r \in ToSet(l[j]) /\ r \in ToSet(l[k])
    BY <2>3
  <2>5. r = s => j = to /\ k = to
    BY <1>7, <2>1
  <2> QED
    BY <1>5, <2>4, <2>5
<1>11. Slabs(m) = Slabs(l)
  <2>1. Slabs(m) = ToSet(m["empty"]) \cup ToSet(m["partial"]) \cup ToSet(m["full"])
    BY <1>9, RecordFields
  <2>2. \A r : r \in Slabs(m) <=> \E k \in Kinds : r \in ToSet(m[k])
    BY <2>1 DEF Kinds
  <2>3. \A r : r \in Slabs(l) <=> \E k \in Kinds : r \in ToSet(l[k])
    BY <1>1 DEF Kinds
  <2>4. \A k \in Kinds \ {from, to} : ToSet(m[k]) = ToSet(l[k])
    BY <1>3
  <2>5. \A r : r \in Slabs(m) <=> r \in Slabs(l)
    BY <1>6, <1>7, <2>2, <2>3, <2>4
  <2> QED
    BY <2>5
<1>12. Once(m)
  BY <1>8, <1>10 DEF Once
<1> QED
  BY <1>3, <1>6, <1>7, <1>9, <1>11, <1>12 DEF m

(* choose_slab moves the slab where its counter belongs. *)
LEMMA TakeLists ==
  ASSUME NEW l, NEW oc, NEW oc2, NEW max \in Nat \ {0}, ByCounter(l, oc, max),
         NEW s \in ToSet(l["empty"]) \cup ToSet(l["partial"]),
         \A r \in Slabs(l) : oc2[r] = IF r = s THEN oc[s] + 1 ELSE oc[r]
  PROVE  LET m == ListsAfterTake(l, s, oc[s], max)
         IN  m \in ListRecords /\ ByCounter(m, oc2, max) /\ Slabs(m) = Slabs(l)
<1> DEFINE m == ListsAfterTake(l, s, oc[s], max)
           l1 == IF oc[s] = 0 THEN Move(l, s, "empty", "partial") ELSE l
<1>1. /\ l \in ListRecords /\ Once(l)
      /\ \A r \in ToSet(l["empty"]) : oc[r] = 0
      /\ \A r \in ToSet(l["partial"]) : oc[r] \in 1..(max - 1)
      /\ \A r \in ToSet(l["full"]) : oc[r] = max
  BY DEF ByCounter
<1>2. {"empty", "partial", "full"} = Kinds
  BY DEF Kinds
<1>3. /\ l1 \in ListRecords /\ Once(l1) /\ Slabs(l1) = Slabs(l) /\ s \in ToSet(l1["partial"])
      /\ \A r \in ToSet(l1["empty"]) : r # s /\ oc[r] = 0
      /\ \A r \in ToSet(l1["partial"]) : r = s \/ oc[r] \in 1..(max - 1)
      /\ \A r \in ToSet(l1["full"]) : oc[r] = max /\ r # s
      /\ oc[s] \in 0..(max - 1)
  <2>1. CASE s \in ToSet(l["empty"])
    <3>1. oc[s] = 0 /\ l1 = Move(l, s, "empty", "partial")
      BY <1>1, <2>1
    <3>2. /\ l1 \in ListRecords /\ Once(l1) /\ Slabs(l1) = Slabs(l)
          /\ ToSet(l1["empty"]) = ToSet(l["empty"]) \ {s} /\ s \in ToSet(l1["partial"])
          /\ ToSet(l1["partial"]) = ToSet(l["partial"]) \cup {s}
          /\ l1["full"] = l["full"]
      BY <1>1, <1>2, <2>1, <3>1, MoveLists
    <3>3. s \notin ToSet(l["full"])
      BY <1>1, <1>2, <2>1 DEF Once
    <3> QED
      BY <1>1, <3>1, <3>2, <3>3
  <2>2. CASE s \in ToSet(l["partial"])
    <3>1. oc[s] \in 1..(max - 1)
      BY <1>1, <2>2
    <3>2. oc[s] # 0 /\ l1 = l
      BY <3>1
    <3>3. s \notin ToSet(l["full"]) /\ s \notin ToSet(l["empty"])
      BY <1>1, <1>2, <2>2 DEF Once
    <3> QED
      BY <1>1, <2>2, <3>1, <3>2, <3>3
  <2> QED
    BY <2>1, <2>2
<1>4. m = IF oc[s] = max - 1 THEN Move(l1, s, "partial", "full") ELSE l1
  BY DEF ListsAfterTake
<1> HIDE DEF m, l1
<1>5. CASE oc[s] = max - 1
  <2>1. /\ m \in ListRecords /\ Once(m) /\ Slabs(m) = Slabs(l1)
        /\ ToSet(m["partial"]) = ToSet(l1["partial"]) \ {s}
        /\ ToSet(m["full"]) = ToSet(l1["full"]) \cup {s}
        /\ m["empty"] = l1["empty"]
    BY <1>2, <1>3, <1>4, <1>5, MoveLists
  <2>2. \A r \in ToSet(m["empty"]) \cup ToSet(m["partial"]) \cup ToSet(m["full"]) :
          oc2[r] = IF r = s THEN oc[s] + 1 ELSE oc[r]
    BY <1>3, <2>1, RecordFields
  <2>3. \A r \in ToSet(m["empty"]) : oc2[r] = 0
    BY <1>3, <2>1, <2>2
  <2>4. \A r \in ToSet(m["partial"]) : oc2[r] \in 1..(max - 1)
    BY <1>3, <2>1, <2>2
  <2>5. \A r \in ToSet(m["full"]) : oc2[r] = max
    BY <1>3, <1>5, <2>1, <2>2
  <2> QED
    BY <1>3, <2>1, <2>3, <2>4, <2>5 DEF ByCounter, m
<1>6. CASE oc[s] # max - 1
  <2>1. m = l1
    BY <1>4, <1>6
  <2>2. \A r \in ToSet(m["empty"]) \cup ToSet(m["partial"]) \cup ToSet(m["full"]) :
          oc2[r] = IF r = s THEN oc[s] + 1 ELSE oc[r]
    BY <1>3, <2>1, RecordFields
  <2>3. \A r \in ToSet(m["empty"]) : oc2[r] = 0
    BY <1>3, <2>1, <2>2
  <2>4. oc[s] + 1 \in 1..(max - 1)
    BY <1>3, <1>6
  <2>5. \A r \in ToSet(m["partial"]) : oc2[r] \in 1..(max - 1)
    BY <1>3, <2>1, <2>2, <2>4
  <2>6. \A r \in ToSet(m["full"]) : oc2[r] = max
    BY <1>3, <2>1, <2>2
  <2> QED
    BY <1>3, <2>1, <2>3, <2>5, <2>6 DEF ByCounter, m
<1> QED
  BY <1>5, <1>6

(* And kmem_cache_free moves it back. *)
LEMMA GiveLists ==
  ASSUME NEW l, NEW oc, NEW oc2, NEW max \in Nat \ {0}, ByCounter(l, oc, max),
         NEW s \in ToSet(l["partial"]) \cup ToSet(l["full"]),
         \A r \in Slabs(l) : oc2[r] = IF r = s THEN oc[s] - 1 ELSE oc[r]
  PROVE  LET m == ListsAfterGive(l, s, oc[s], max)
         IN  m \in ListRecords /\ ByCounter(m, oc2, max) /\ Slabs(m) = Slabs(l)
<1> DEFINE m == ListsAfterGive(l, s, oc[s], max)
           l1 == IF oc[s] = max THEN Move(l, s, "full", "partial") ELSE l
<1>1. /\ l \in ListRecords /\ Once(l)
      /\ \A r \in ToSet(l["empty"]) : oc[r] = 0
      /\ \A r \in ToSet(l["partial"]) : oc[r] \in 1..(max - 1)
      /\ \A r \in ToSet(l["full"]) : oc[r] = max
  BY DEF ByCounter
<1>2. {"empty", "partial", "full"} = Kinds
  BY DEF Kinds
<1>3. /\ l1 \in ListRecords /\ Once(l1) /\ Slabs(l1) = Slabs(l) /\ s \in ToSet(l1["partial"])
      /\ \A r \in ToSet(l1["empty"]) : r # s /\ oc[r] = 0
      /\ \A r \in ToSet(l1["partial"]) : r = s \/ oc[r] \in 1..(max - 1)
      /\ \A r \in ToSet(l1["full"]) : oc[r] = max /\ r # s
      /\ oc[s] \in 1..max
  <2>1. CASE s \in ToSet(l["full"])
    <3>1. oc[s] = max /\ l1 = Move(l, s, "full", "partial")
      BY <1>1, <2>1
    <3>2. /\ l1 \in ListRecords /\ Once(l1) /\ Slabs(l1) = Slabs(l)
          /\ ToSet(l1["full"]) = ToSet(l["full"]) \ {s} /\ s \in ToSet(l1["partial"])
          /\ ToSet(l1["partial"]) = ToSet(l["partial"]) \cup {s}
          /\ l1["empty"] = l["empty"]
      BY <1>1, <1>2, <2>1, <3>1, MoveLists
    <3>3. s \notin ToSet(l["empty"])
      BY <1>1, <1>2, <2>1 DEF Once
    <3> QED
      BY <1>1, <3>1, <3>2, <3>3
  <2>2. CASE s \in ToSet(l["partial"])
    <3>1. oc[s] \in 1..(max - 1)
      BY <1>1, <2>2
    <3>2. oc[s] # max /\ l1 = l
      BY <3>1
    <3>3. s \notin ToSet(l["full"]) /\ s \notin ToSet(l["empty"])
      BY <1>1, <1>2, <2>2 DEF Once
    <3> QED
      BY <1>1, <2>2, <3>1, <3>2, <3>3
  <2> QED
    BY <2>1, <2>2
<1>4. m = IF oc[s] = 1 THEN Move(l1, s, "partial", "empty") ELSE l1
  BY DEF ListsAfterGive
<1> HIDE DEF m, l1
<1>5. CASE oc[s] = 1
  <2>1. /\ m \in ListRecords /\ Once(m) /\ Slabs(m) = Slabs(l1)
        /\ ToSet(m["partial"]) = ToSet(l1["partial"]) \ {s}
        /\ ToSet(m["empty"]) = ToSet(l1["empty"]) \cup {s}
        /\ m["full"] = l1["full"]
    <3>1. /\ "partial" \in Kinds /\ "empty" \in Kinds /\ "partial" # "empty"
          /\ "full" \in Kinds \ {"partial", "empty"}
      BY <1>2
    <3>2. m = Move(l1, s, "partial", "empty")
      BY <1>4, <1>5
    <3> QED
      BY <1>3, <3>1, <3>2, MoveLists
  <2>2. \A r \in ToSet(m["empty"]) \cup ToSet(m["partial"]) \cup ToSet(m["full"]) :
          oc2[r] = IF r = s THEN oc[s] - 1 ELSE oc[r]
    BY <1>3, <2>1, RecordFields
  <2>3. \A r \in ToSet(m["empty"]) : oc2[r] = 0
    BY <1>3, <1>5, <2>1, <2>2
  <2>4. \A r \in ToSet(m["partial"]) : oc2[r] \in 1..(max - 1)
    BY <1>3, <2>1, <2>2
  <2>5. \A r \in ToSet(m["full"]) : oc2[r] = max
    BY <1>3, <2>1, <2>2
  <2> QED
    BY <1>3, <2>1, <2>3, <2>4, <2>5 DEF ByCounter, m
<1>6. CASE oc[s] # 1
  <2>1. m = l1
    BY <1>4, <1>6
  <2>2. \A r \in ToSet(m["empty"]) \cup ToSet(m["partial"]) \cup ToSet(m["full"]) :
          oc2[r] = IF r = s THEN oc[s] - 1 ELSE oc[r]
    BY <1>3, <2>1, RecordFields
  <2>3. \A r \in ToSet(m["empty"]) : oc2[r] = 0
    BY <1>3, <2>1, <2>2
  <2>4. oc[s] - 1 \in 1..(max - 1)
    BY <1>3, <1>6
  <2>5. \A r \in ToSet(m["partial"]) : oc2[r] \in 1..(max - 1)
    BY <1>3, <2>1, <2>2, <2>4
  <2>6. \A r \in ToSet(m["full"]) : oc2[r] = max
    BY <1>3, <2>1, <2>2
  <2> QED
    BY <1>3, <2>1, <2>3, <2>5, <2>6 DEF ByCounter, m
<1> QED
  BY <1>5, <1>6

(* choose_slab finds a slab with a free object if there is one. *)
LEMMA ChosenIs ==
  ASSUME NEW l, NEW max \in Nat \ {0}, ByCounter(l, obj_counter, max), Chosen(l) # None
  PROVE  Chosen(l) \in ToSet(l["empty"]) \cup ToSet(l["partial"])
<1>1. /\ l \in ListRecords /\ l["empty"] \in Seq(Chunks) /\ l["partial"] \in Seq(Chunks)
      /\ l.partial = l["partial"] /\ l.empty = l["empty"]
  BY DEF ByCounter, ListRecords
<1> DEFINE q == l["partial"]
           counts == {obj_counter[q[k]] : k \in DOMAIN q}
           top == Max(counts)
           places == {k \in DOMAIN q : obj_counter[q[k]] = top}
<1>2. CASE q # <<>>
  <2>1. q \in Seq(Chunks) /\ DOMAIN q = 1..Len(q) /\ Len(q) \in Nat /\ 1 \in DOMAIN q
    BY <1>1, <1>2, LenProperties, EmptySeq
  <2>2. \A k \in DOMAIN q : q[k] \in ToSet(q)
    BY <2>1 DEF ToSet
  <2>3. counts \in SUBSET (1..(max - 1)) /\ counts # {}
    BY <2>1, <2>2 DEF ByCounter
  <2> HIDE DEF counts
  <2>4. top \in counts
    <3>1. max - 1 \in Int
      OBVIOUS
    <3> QED
      BY <2>3, <3>1, MaxOfNats
  <2>5. places # {} /\ places \in SUBSET (1..Len(q)) /\ Len(q) \in Int
    <3>1. PICK k \in DOMAIN q : top = obj_counter[q[k]]
      BY <2>4 DEF counts
    <3> HIDE DEF top
    <3>2. k \in places
      BY <3>1
    <3>3. places \in SUBSET DOMAIN q
      OBVIOUS
    <3> QED
      BY <2>1, <3>2, <3>3
  <2>6. Max(places) \in DOMAIN q
    <3> HIDE DEF places
    <3>1. Max(places) \in places
      BY <2>5, MaxOfNats
    <3> QED
      BY <2>1, <2>5, <3>1
  <2>7. Chosen(l) = q[Max(places)]
    BY <1>1, <1>2 DEF Chosen, counts
  <2> QED
    BY <2>2, <2>6, <2>7
<1>3. CASE q = <<>>
  <2>1. l["empty"] # <<>> /\ Chosen(l) = Head(l["empty"])
    BY <1>1, <1>3 DEF Chosen
  <2>2. Head(l["empty"]) \in ToSet(l["empty"])
    BY <1>1, <2>1, HeadList
  <2> QED
    BY <2>1, <2>2
<1> QED
  BY <1>2, <1>3

-------------------------------------------------------------------------------
(* What is held of a slab's memory. *)
HeldOf(m, hd) == {h \in hd : h[1] = m}
ObjectsOf(m, hd) == {h[2] : h \in HeldOf(m, hd)}

(* The objects of a slab are held or in its free list, and counted. *)
Objects(m, f, n, max, hd) ==
  /\ f \in Seq(1..max) /\ IsInjective(f) /\ n \in Nat /\ n + Len(f) = max
  /\ ObjectsOf(m, hd) \cap ToSet(f) = {}
  /\ ObjectsOf(m, hd) \cup ToSet(f) = 1..max
  /\ n = Cardinality(HeldOf(m, hd))

(* What is held once. *)
HeldOnce(hd) == IsFiniteSet(hd) /\ \A h, g \in hd : h[1] = g[1] /\ h[2] = g[2] => h = g

(* kmem_cache_alloc hands out the first free object. *)
LEMMA ObjectsTake ==
  ASSUME NEW m, NEW f, NEW n, NEW max \in Nat, NEW hd, NEW x,
         Objects(m, f, n, max, hd), n < max, HeldOnce(hd)
  PROVE  LET h == <<m, Head(f), x>>
         IN  /\ HeldOnce(hd \cup {h}) /\ Tail(f) \in Seq(Nat)
             /\ Objects(m, Tail(f), n + 1, max, hd \cup {h})
<1> DEFINE o == Head(f)
           h == <<m, o, x>>
           hd2 == hd \cup {h}
<1>1. /\ f \in Seq(1..max) /\ IsInjective(f) /\ n \in Nat /\ n + Len(f) = max
      /\ ObjectsOf(m, hd) \cap ToSet(f) = {} /\ ObjectsOf(m, hd) \cup ToSet(f) = 1..max
      /\ n = Cardinality(HeldOf(m, hd))
  BY DEF Objects
<1>2. f # <<>>
  <2>1. Len(<<>>) = 0
    OBVIOUS
  <2> QED
    BY <1>1, <2>1
<1>3. /\ o \in 1..max /\ Tail(f) \in Seq(1..max) /\ Len(Tail(f)) = Len(f) - 1
      /\ ToSet(f) = {o} \cup ToSet(Tail(f)) /\ IsInjective(Tail(f)) /\ o \notin ToSet(Tail(f))
      /\ Len(f) \in Nat
  BY <1>1, <1>2, HeadList
<1>4. h[1] = m /\ h[2] = o
  OBVIOUS
<1>5. o \notin ObjectsOf(m, hd)
  BY <1>1, <1>3
<1>6. h \notin HeldOf(m, hd) /\ \A g \in hd : ~(g[1] = m /\ g[2] = o)
  BY <1>4, <1>5 DEF ObjectsOf, HeldOf
<1>7. HeldOf(m, hd2) = HeldOf(m, hd) \cup {h}
  BY <1>4 DEF HeldOf
<1>8. ObjectsOf(m, hd2) = ObjectsOf(m, hd) \cup {o}
  BY <1>4, <1>7 DEF ObjectsOf
<1>9. HeldOnce(hd2)
  <2>1. IsFiniteSet(hd2)
    BY FS_AddElement DEF HeldOnce
  <2> QED
    BY <1>4, <1>6, <2>1 DEF HeldOnce
<1>10. Cardinality(HeldOf(m, hd2)) = n + 1
  <2>1. IsFiniteSet(HeldOf(m, hd))
    <3>1. IsFiniteSet(hd) /\ HeldOf(m, hd) \in SUBSET hd
      BY DEF HeldOnce, HeldOf
    <3> QED
      BY <3>1, FS_Subset
  <2> QED
    BY <1>1, <1>6, <1>7, <2>1, FS_AddElement
<1> HIDE DEF h, o, hd2
<1>11. Objects(m, Tail(f), n + 1, max, hd2)
  <2>1. (n + 1) + Len(Tail(f)) = max /\ n + 1 \in Nat
    <3> DEFINE a == Len(f)
               b == Len(Tail(f))
    <3>1. n \in Nat /\ a \in Nat /\ n + a = max /\ b = a - 1
      BY <1>1, <1>3
    <3> HIDE DEF a, b
    <3>2. (n + 1) + b = max /\ n + 1 \in Nat
      BY <3>1
    <3> QED
      BY <3>2 DEF b
  <2>2. ObjectsOf(m, hd2) \cap ToSet(Tail(f)) = {}
    BY <1>1, <1>3, <1>8
  <2>3. ObjectsOf(m, hd2) \cup ToSet(Tail(f)) = 1..max
    BY <1>1, <1>3, <1>8
  <2> QED
    BY <1>3, <1>10, <2>1, <2>2, <2>3 DEF Objects
<1>12. Tail(f) \in Seq(Nat)
  <2>1. 1..max \subseteq Nat
    OBVIOUS
  <2> QED
    BY <1>3, <2>1, SeqMonotonic
<1> QED
  BY <1>9, <1>11, <1>12 DEF h, o, hd2

(* kmem_cache_free puts an object in front of the free ones. *)
LEMMA ObjectsGive ==
  ASSUME NEW m, NEW f, NEW n, NEW max \in Nat, NEW hd, NEW h \in hd, h[1] = m,
         Objects(m, f, n, max, hd), HeldOnce(hd)
  PROVE  /\ HeldOnce(hd \ {h}) /\ <<h[2]>> \o f \in Seq(Nat)
         /\ n - 1 \in Nat /\ Objects(m, <<h[2]>> \o f, n - 1, max, hd \ {h})
<1> DEFINE o == h[2]
           hd2 == hd \ {h}
           f2 == <<o>> \o f
<1>1. /\ f \in Seq(1..max) /\ IsInjective(f) /\ n \in Nat /\ n + Len(f) = max
      /\ ObjectsOf(m, hd) \cap ToSet(f) = {} /\ ObjectsOf(m, hd) \cup ToSet(f) = 1..max
      /\ n = Cardinality(HeldOf(m, hd)) /\ IsFiniteSet(hd)
      /\ \A e, g \in hd : e[1] = g[1] /\ e[2] = g[2] => e = g
  BY DEF Objects, HeldOnce
<1>2. h \in HeldOf(m, hd) /\ HeldOf(m, hd2) = HeldOf(m, hd) \ {h}
  BY DEF HeldOf
<1>3. o \in ObjectsOf(m, hd)
  BY <1>2 DEF ObjectsOf
<1>4. ObjectsOf(m, hd2) = ObjectsOf(m, hd) \ {o}
  BY <1>1, <1>2 DEF ObjectsOf, HeldOf
<1>5. o \in 1..max /\ o \notin ToSet(f)
  BY <1>1, <1>3
<1>6. /\ f2 \in Seq(1..max) /\ ToSet(f2) = ToSet(f) \cup {o} /\ IsInjective(f2)
      /\ Len(f2) = Len(f) + 1 /\ Len(f) \in Nat
  <2> HIDE DEF o
  <2>1. /\ <<o>> \o f \in Seq(1..max) /\ ToSet(<<o>> \o f) = ToSet(f) \cup {o}
        /\ IsInjective(<<o>> \o f)
    BY <1>1, <1>5, PushList
  <2>2. <<o>> \in Seq(1..max) /\ Len(<<o>>) = 1 /\ Len(f) \in Nat
    BY <1>1, <1>5, LenProperties
  <2>3. Len(<<o>> \o f) = Len(f) + 1
    BY <1>1, <2>2, ConcatProperties
  <2> QED
    BY <2>1, <2>2, <2>3
<1>7. Cardinality(HeldOf(m, hd2)) = n - 1 /\ n - 1 \in Nat
  <2>1. IsFiniteSet(HeldOf(m, hd))
    <3>1. HeldOf(m, hd) \in SUBSET hd
      BY DEF HeldOf
    <3> QED
      BY <1>1, <3>1, FS_Subset
  <2>2. Cardinality(HeldOf(m, hd) \ {h}) = n - 1 /\ IsFiniteSet(HeldOf(m, hd) \ {h})
    BY <1>1, <1>2, <2>1, FS_RemoveElement
  <2>3. n - 1 \in Nat
    BY <2>2, FS_CardinalityType
  <2> QED
    BY <1>2, <2>2, <2>3
<1>8. HeldOnce(hd2)
  <2>1. IsFiniteSet(hd2)
    BY <1>1, FS_RemoveElement
  <2> QED
    BY <1>1, <2>1 DEF HeldOnce
<1> HIDE DEF o, hd2, f2
<1>9. Objects(m, f2, n - 1, max, hd2)
  <2>1. (n - 1) + Len(f2) = max
    BY <1>1, <1>6
  <2>2. ObjectsOf(m, hd2) \cap ToSet(f2) = {}
    BY <1>1, <1>4, <1>6
  <2>3. ObjectsOf(m, hd2) \cup ToSet(f2) = 1..max
    BY <1>1, <1>4, <1>5, <1>6
  <2> QED
    BY <1>6, <1>7, <2>1, <2>2, <2>3 DEF Objects
<1>10. f2 \in Seq(Nat)
  <2>1. 1..max \subseteq Nat
    OBVIOUS
  <2> QED
    BY <1>6, <2>1, SeqMonotonic
<1> QED
  BY <1>7, <1>8, <1>9, <1>10 DEF o, hd2, f2

(* Other slabs have what they had. *)
LEMMA ObjectsOther ==
  ASSUME NEW m, NEW f, NEW n, NEW max, NEW hd, NEW hd2,
         \A h : h[1] = m => (h \in hd <=> h \in hd2), Objects(m, f, n, max, hd)
  PROVE  Objects(m, f, n, max, hd2)
<1>1. HeldOf(m, hd2) = HeldOf(m, hd)
  BY DEF HeldOf
<1> QED
  BY <1>1 DEF Objects, ObjectsOf

-------------------------------------------------------------------------------
(* The parts of the invariant, for caches L of sizes R with the lists ls.   *)
Typed(L, R, ls, mem, fl, oc) ==
  /\ L \subseteq Chunks /\ R \in [Chunks -> Nat] /\ ls \in [Chunks -> ListRecords]
  /\ mem \in [Chunks -> Chunks \cup {None}]
  /\ fl \in [Chunks -> Seq(Nat)] /\ oc \in [Chunks -> Nat]

(* Slabs are in the list their counter says. *)
Listed(L, R, ls, oc) == \A c \in L : ByCounter(ls[c], oc, MaximumObjects(R[c]))

(* Caches, slabs and memories are different chunks, those of pg. *)
Paged(L, ls, mem, pg) ==
  /\ \A c \in L : \A s \in Slabs(ls[c]) : s \in Chunks \ L /\ mem[s] \in Chunks \ L
  /\ \A c, d \in L : \A s \in Slabs(ls[c]), r \in Slabs(ls[d]) :
       mem[s] # r /\ (s = r => c = d) /\ (mem[s] = mem[r] => s = r)
  /\ \A x : x \in pg <=> \/ x \in L
                         \/ \E c \in L : \E s \in Slabs(ls[c]) : x = s \/ x = mem[s]

(* Every slab has its objects. *)
Stocked(L, R, ls, mem, fl, oc, hd) ==
  \A c \in L : \A s \in Slabs(ls[c]) :
    Objects(mem[s], fl[s], oc[s], MaximumObjects(R[c]), hd)

(* What is held is of a slab of its holder's cache. *)
Holders(L) == ({"cache"} \X L) \cup ({"entry"} \X Buffers \X Requests)
CacheOf(x, B) == IF x[1] = "cache" THEN x[2] ELSE B[x[2]]

Owned(L, B, ls, mem, hd) ==
  /\ HeldOnce(hd)
  /\ \A h \in hd : /\ h[3] \in Holders(L) /\ CacheOf(h[3], B) \in L
                   /\ \E s \in Slabs(ls[CacheOf(h[3], B)]) : mem[s] = h[1]

Sound(L, R, B, ls, mem, fl, oc, pg, hd) ==
  /\ Typed(L, R, ls, mem, fl, oc) /\ Listed(L, R, ls, oc) /\ Paged(L, ls, mem, pg)
  /\ Stocked(L, R, ls, mem, fl, oc, hd) /\ Owned(L, B, ls, mem, hd)

-------------------------------------------------------------------------------
(* buddy_alloc hands out a chunk nobody has. *)
LEMMA BuddyAllocIs == \A used : \A c \in BuddyAlloc(used) : c \in Chunks /\ c \notin used
<1> TAKE used
<1> TAKE c \in BuddyAlloc(used)
<1> DEFINE S == Chunks \ used
<1>1. ~(Chunks \subseteq used) /\ c = Min(S)
  BY DEF BuddyAlloc
<1>2. S \in SUBSET Nat /\ S # {}
  BY <1>1, SlabAssumption DEF SlabAssumption, Chunks
<1>3. Min(S) \in S
  BY <1>2, MinOfNats
<1> QED
  BY <1>1, <1>3

(* The lists of a new cache are empty. *)
LEMMA NoSlabsIs ==
  /\ NoSlabs \in ListRecords /\ Slabs(NoSlabs) = {}
  /\ \A oc, max : ByCounter(NoSlabs, oc, max)
<1>1. /\ NoSlabs \in ListRecords
      /\ NoSlabs["empty"] = <<>> /\ NoSlabs["partial"] = <<>> /\ NoSlabs["full"] = <<>>
  BY DEF NoSlabs, ListRecords
<1>2. ToSet(<<>>) = {} /\ IsInjective(<<>>)
  BY EmptyList
<1> HIDE DEF NoSlabs
<1>3. Slabs(NoSlabs) = {}
  BY <1>1, <1>2, RecordFields
<1>4. \A k \in Kinds : NoSlabs[k] = <<>>
  BY <1>1 DEF Kinds
<1>5. Once(NoSlabs)
  BY <1>2, <1>4 DEF Once
<1> QED
  BY <1>1, <1>2, <1>3, <1>5 DEF ByCounter

(* The lists stay right when the counters of other slabs change. *)
LEMMA CounterOther ==
  ASSUME NEW l, NEW oc, NEW oc2, NEW max, ByCounter(l, oc, max),
         \A s \in Slabs(l) : oc2[s] = oc[s]
  PROVE  ByCounter(l, oc2, max)
<1>1. Slabs(l) = ToSet(l["empty"]) \cup ToSet(l["partial"]) \cup ToSet(l["full"])
  BY RecordFields DEF ByCounter
<1> QED
  BY <1>1 DEF ByCounter

(* Null is no chunk. *)
LEMMA NoneIsNoChunk == None \notin Chunks
  BY DEF None, Chunks

(* What is held stays with its cache when there are more caches. *)
LEMMA OwnedMore ==
  ASSUME NEW L \in SUBSET Chunks, NEW L2, L \subseteq L2, NEW B, NEW B2, NEW x \in Holders(L),
         CacheOf(x, B) \in L, \A e \in Buffers : B[e] # None => B2[e] = B[e]
  PROVE  x \in Holders(L2) /\ CacheOf(x, B2) = CacheOf(x, B)
<1>1. CASE x \in {"cache"} \X L
  <2>1. x[1] = "cache" /\ x \in {"cache"} \X L2
    BY <1>1
  <2> QED
    BY <2>1 DEF Holders, CacheOf
<1>2. CASE x \in {"entry"} \X Buffers \X Requests
  <2>1. x[1] = "entry" /\ x[2] \in Buffers
    BY <1>2
  <2>2. CacheOf(x, B) = B[x[2]] /\ CacheOf(x, B2) = B2[x[2]]
    BY <2>1 DEF CacheOf
  <2>3. B[x[2]] # None
    BY <2>2, NoneIsNoChunk
  <2> QED
    BY <1>2, <2>1, <2>2, <2>3 DEF Holders
<1> QED
  BY <1>1, <1>2 DEF Holders

(* A new cache is a chunk nobody had, without slabs. *)
LEMMA NewCache ==
  ASSUME NEW L, NEW R, NEW B, NEW B2, NEW ls, NEW mem, NEW fl, NEW oc, NEW pg, NEW hd,
         Sound(L, R, B, ls, mem, fl, oc, pg, hd),
         NEW c \in Chunks, c \notin pg, NEW size \in Nat,
         \A e \in Buffers : B[e] # None => B2[e] = B[e]
  PROVE  Sound(L \cup {c}, [R EXCEPT ![c] = size], B2, [ls EXCEPT ![c] = NoSlabs],
               mem, fl, oc, pg \cup {c}, hd)
<1> DEFINE L2 == L \cup {c}
           R2 == [R EXCEPT ![c] = size]
           ls2 == [ls EXCEPT ![c] = NoSlabs]
           pg2 == pg \cup {c}
<1>1. Typed(L, R, ls, mem, fl, oc)
  BY DEF Sound
<1>2. /\ \A d \in L : \A s \in Slabs(ls[d]) : s \in Chunks \ L /\ mem[s] \in Chunks \ L
      /\ \A d, e \in L : \A s \in Slabs(ls[d]), r \in Slabs(ls[e]) :
           mem[s] # r /\ (s = r => d = e) /\ (mem[s] = mem[r] => s = r)
      /\ \A x : x \in pg <=> \/ x \in L
                             \/ \E d \in L : \E s \in Slabs(ls[d]) : x = s \/ x = mem[s]
  BY DEF Sound, Paged
<1>3. c \notin L
  BY <1>2
<1>4. \A d \in L : R2[d] = R[d] /\ ls2[d] = ls[d]
  BY <1>1, <1>3 DEF Typed
<1>5. R2[c] = size /\ ls2[c] = NoSlabs /\ Slabs(ls2[c]) = {}
  BY <1>1, NoSlabsIs DEF Typed
<1>6. Typed(L2, R2, ls2, mem, fl, oc)
  BY <1>1, NoSlabsIs DEF Typed
<1> HIDE DEF R2, ls2
<1>7. Listed(L2, R2, ls2, oc)
  BY <1>4, <1>5, NoSlabsIs DEF Sound, Listed
<1>8. Paged(L2, ls2, mem, pg2)
  <2>1. \A d \in L : \A s \in Slabs(ls[d]) : s # c /\ mem[s] # c
    BY <1>2
  <2>2. \A d \in L2 : \A s \in Slabs(ls2[d]) : d \in L /\ s \in Slabs(ls[d])
    BY <1>4, <1>5
  <2>3. \A d \in L2 : \A s \in Slabs(ls2[d]) : s \in Chunks \ L2 /\ mem[s] \in Chunks \ L2
    BY <1>2, <2>1, <2>2
  <2>4. \A d, e \in L2 : \A s \in Slabs(ls2[d]), r \in Slabs(ls2[e]) :
          mem[s] # r /\ (s = r => d = e) /\ (mem[s] = mem[r] => s = r)
    BY <1>2, <2>2
  <2>5. \A x : x \in pg2 <=> \/ x \in L2
                             \/ \E d \in L2 : \E s \in Slabs(ls2[d]) : x = s \/ x = mem[s]
    BY <1>2, <1>4, <2>2
  <2> QED
    BY <2>3, <2>4, <2>5 DEF Paged
<1>9. Stocked(L2, R2, ls2, mem, fl, oc, hd)
  BY <1>4, <1>5 DEF Sound, Stocked
<1>10. Owned(L2, B2, ls2, mem, hd)
  <2>1. HeldOnce(hd)
    BY DEF Sound, Owned
  <2>2. ASSUME NEW h \in hd
        PROVE  /\ h[3] \in Holders(L2) /\ CacheOf(h[3], B2) \in L2
               /\ \E s \in Slabs(ls2[CacheOf(h[3], B2)]) : mem[s] = h[1]
    <3>1. /\ h[3] \in Holders(L) /\ CacheOf(h[3], B) \in L
          /\ \E s \in Slabs(ls[CacheOf(h[3], B)]) : mem[s] = h[1]
      BY DEF Sound, Owned
    <3>2. L \in SUBSET Chunks /\ L \subseteq L2
      BY <1>1 DEF Typed
    <3>3. h[3] \in Holders(L2) /\ CacheOf(h[3], B2) = CacheOf(h[3], B)
      BY <3>1, <3>2, OwnedMore
    <3> QED
      BY <1>4, <3>1, <3>2, <3>3
  <2> QED
    BY <2>1, <2>2 DEF Owned
<1> QED
  BY <1>6, <1>7, <1>8, <1>9, <1>10 DEF Sound, R2, ls2

-------------------------------------------------------------------------------
(* choose_slab pushes the new slab on the empty ones. *)
LEMMA PushEmpty ==
  ASSUME NEW l, NEW oc, NEW oc2, NEW max, ByCounter(l, oc, max),
         NEW s \in Chunks, s \notin Slabs(l), oc2[s] = 0, \A r \in Slabs(l) : oc2[r] = oc[r]
  PROVE  LET m == WithEmpty(l, s)
         IN  /\ m \in ListRecords /\ ByCounter(m, oc2, max) /\ Slabs(m) = Slabs(l) \cup {s}
             /\ s \in ToSet(m["empty"])
<1> DEFINE m == WithEmpty(l, s)
           q == l["empty"]
<1>1. /\ l \in ListRecords /\ DOMAIN l = Kinds /\ \A k \in Kinds : l[k] \in Seq(Chunks)
      /\ l = [k \in Kinds |-> l[k]]
      /\ Slabs(l) = ToSet(q) \cup ToSet(l["partial"]) \cup ToSet(l["full"])
  BY RecordFields DEF ByCounter
<1>2. /\ \A k \in Kinds : IsInjective(l[k])
      /\ \A j, k \in Kinds : j # k => ToSet(l[j]) \cap ToSet(l[k]) = {}
  BY DEF ByCounter, Once
<1>3. "empty" \in Kinds /\ Kinds = {"empty", "partial", "full"}
  BY DEF Kinds
<1>4. m = [k \in Kinds |-> IF k = "empty" THEN <<s>> \o q ELSE l[k]]
  BY <1>1 DEF WithEmpty
<1>5. m["empty"] = <<s>> \o q /\ \A k \in Kinds \ {"empty"} : m[k] = l[k]
  BY <1>3, <1>4
<1> HIDE DEF m
<1>6. q \in Seq(Chunks) /\ IsInjective(q) /\ s \notin ToSet(q)
  BY <1>1, <1>2, <1>3
<1>7. \A k \in Kinds : s \notin ToSet(l[k])
  BY <1>1, <1>3
<1> HIDE DEF q
<1>8. /\ m["empty"] \in Seq(Chunks) /\ ToSet(m["empty"]) = ToSet(q) \cup {s}
      /\ IsInjective(m["empty"])
  BY <1>5, <1>6, PushList
<1>9. \A k \in Kinds : m[k] \in Seq(Chunks) /\ IsInjective(m[k])
  BY <1>1, <1>2, <1>5, <1>8
<1>10. m \in ListRecords
  <2>1. m = [k \in Kinds |-> m[k]]
    BY <1>4
  <2> QED
    BY <1>9, <2>1, RecordIs
<1>11. Once(m)
  <2>1. \A j, k \in Kinds : j # k => ToSet(m[j]) \cap ToSet(m[k]) = {}
    <3> SUFFICES ASSUME NEW j \in Kinds, NEW k \in Kinds, j # k, NEW r \in ToSet(m[j]),
                        r \in ToSet(m[k])
                 PROVE  FALSE
      OBVIOUS
    <3>1. ToSet(m["empty"]) = ToSet(l["empty"]) \cup {s}
      BY <1>8 DEF q
    <3>2. \A i \in Kinds : r \in ToSet(m[i]) => r \in ToSet(l[i]) \/ (i = "empty" /\ r = s)
      BY <1>5, <3>1
    <3>3. r # s => FALSE
      BY <1>2, <3>2
    <3>4. r = s => j = "empty" /\ k = "empty"
      BY <1>7, <3>2
    <3> QED
      BY <3>3, <3>4
  <2> QED
    BY <1>9, <2>1 DEF Once
<1>12. m["partial"] = l["partial"] /\ m["full"] = l["full"]
  BY <1>3, <1>5
<1>13. Slabs(m) = Slabs(l) \cup {s}
  <2>1. Slabs(m) = ToSet(m["empty"]) \cup ToSet(m["partial"]) \cup ToSet(m["full"])
    BY <1>10, RecordFields
  <2> QED
    BY <1>1, <1>8, <1>12, <2>1
<1>14. ByCounter(m, oc2, max)
  <2>1. \A r \in ToSet(m["empty"]) : oc2[r] = 0
    BY <1>1, <1>8 DEF ByCounter, q
  <2>2. \A r \in ToSet(m["partial"]) : oc2[r] \in 1..(max - 1)
    BY <1>1, <1>12 DEF ByCounter
  <2>3. \A r \in ToSet(m["full"]) : oc2[r] = max
    BY <1>1, <1>12 DEF ByCounter
  <2> QED
    BY <1>10, <1>11, <2>1, <2>2, <2>3 DEF ByCounter
<1> QED
  BY <1>8, <1>10, <1>13, <1>14 DEF m

(* slabInit links all objects of the slab. *)
LEMMA NewFreeListIs ==
  ASSUME NEW max \in Nat, NEW m, NEW hd, HeldOf(m, hd) = {}
  PROVE  /\ Objects(m, NewFreeList(max), 0, max, hd)
         /\ NewFreeList(max) \in Seq(Nat)
<1> DEFINE f == NewFreeList(max)
<1>1. DOMAIN f = 1..max /\ \A k \in 1..max : f[k] = k
  BY DEF NewFreeList
<1>2. f \in Seq(1..max) /\ f \in Seq(Nat) /\ Len(f) = max
  BY SMT DEF NewFreeList
<1> HIDE DEF f
<1>3. ToSet(f) = 1..max /\ IsInjective(f)
  BY <1>1 DEF ToSet, IsInjective
<1>4. ObjectsOf(m, hd) = {}
  BY DEF ObjectsOf
<1>5. Cardinality(HeldOf(m, hd)) = 0
  BY FS_EmptySet
<1>6. 0 + Len(f) = max
  BY <1>2
<1> QED
  BY <1>2, <1>3, <1>4, <1>5, <1>6 DEF Objects, f

(* A new slab is two chunks nobody had, its objects all free. *)
LEMMA NewSlab ==
  ASSUME NEW L, NEW R, NEW B, NEW ls, NEW mem, NEW fl, NEW oc, NEW pg, NEW hd,
         Sound(L, R, B, ls, mem, fl, oc, pg, hd),
         NEW c \in L, NEW s \in Chunks, s \notin pg, NEW m \in Chunks, m \notin pg, m # s
  PROVE  LET ls2 == [ls EXCEPT ![c] = WithEmpty(ls[c], s)]
         IN  /\ Sound(L, R, B, ls2, [mem EXCEPT ![s] = m],
                      [fl EXCEPT ![s] = NewFreeList(MaximumObjects(R[c]))],
                      [oc EXCEPT ![s] = 0], pg \cup {s, m}, hd)
             /\ s \in ToSet(ls2[c]["empty"])
<1> DEFINE l2 == WithEmpty(ls[c], s)
           ls2 == [ls EXCEPT ![c] = l2]
           max == MaximumObjects(R[c])
           mem2 == [mem EXCEPT ![s] = m]
           fl2 == [fl EXCEPT ![s] = NewFreeList(max)]
           oc2 == [oc EXCEPT ![s] = 0]
           pg2 == pg \cup {s, m}
<1>1. Typed(L, R, ls, mem, fl, oc)
  BY DEF Sound
<1>2. /\ \A d \in L : \A r \in Slabs(ls[d]) : r \in Chunks \ L /\ mem[r] \in Chunks \ L
      /\ \A d, e \in L : \A t \in Slabs(ls[d]), r \in Slabs(ls[e]) :
           mem[t] # r /\ (t = r => d = e) /\ (mem[t] = mem[r] => t = r)
      /\ \A x : x \in pg <=> \/ x \in L
                             \/ \E d \in L : \E r \in Slabs(ls[d]) : x = r \/ x = mem[r]
  BY DEF Sound, Paged
<1>3. /\ s \notin L /\ m \notin L
      /\ \A d \in L : \A r \in Slabs(ls[d]) : r # s /\ r # m /\ mem[r] # s /\ mem[r] # m
  BY <1>2
<1>4. c \in Chunks /\ R[c] \in Nat /\ max \in Nat \ {0}
  <2>1. c \in Chunks /\ R[c] \in Nat
    BY <1>1 DEF Typed
  <2> QED
    BY <2>1, RoomInSlab
<1>5. \A h \in hd : h[1] # m
  BY <1>3 DEF Sound, Owned
<1>6. Objects(m, NewFreeList(max), 0, max, hd) /\ NewFreeList(max) \in Seq(Nat)
  <2>1. HeldOf(m, hd) = {}
    BY <1>5 DEF HeldOf
  <2> HIDE DEF max
  <2> QED
    BY <1>4, <2>1, NewFreeListIs
<1>7. /\ mem2[s] = m /\ fl2[s] = NewFreeList(max) /\ oc2[s] = 0
      /\ \A r \in Chunks : r # s => mem2[r] = mem[r] /\ fl2[r] = fl[r] /\ oc2[r] = oc[r]
  BY <1>1 DEF Typed
<1>8. mem2 \in [Chunks -> Chunks \cup {None}] /\ fl2 \in [Chunks -> Seq(Nat)]
      /\ oc2 \in [Chunks -> Nat]
  BY <1>1, <1>6 DEF Typed
<1>9. \A d \in L : \A r \in Slabs(ls[d]) : mem2[r] = mem[r] /\ fl2[r] = fl[r] /\ oc2[r] = oc[r]
  BY <1>2, <1>3, <1>7
<1> HIDE DEF mem2, fl2, oc2
<1>10. /\ l2 \in ListRecords /\ ByCounter(l2, oc2, max) /\ Slabs(l2) = Slabs(ls[c]) \cup {s}
       /\ s \in ToSet(l2["empty"])
  <2>1. ByCounter(ls[c], oc, max) /\ s \notin Slabs(ls[c])
    BY <1>3 DEF Sound, Listed
  <2> HIDE DEF max
  <2> QED
    BY <1>7, <1>9, <2>1, PushEmpty
<1> HIDE DEF l2
<1>11. /\ ls2 \in [Chunks -> ListRecords] /\ ls2[c] = l2
       /\ \A d \in L \ {c} : ls2[d] = ls[d]
  BY <1>1, <1>4, <1>10 DEF Typed
<1> HIDE DEF ls2
<1>12. \A d \in L : \A r : r \in Slabs(ls2[d]) <=> r \in Slabs(ls[d]) \/ (d = c /\ r = s)
  BY <1>10, <1>11
<1>13. Typed(L, R, ls2, mem2, fl2, oc2)
  BY <1>1, <1>8, <1>11 DEF Typed
<1>14. Listed(L, R, ls2, oc2)
  <2> SUFFICES ASSUME NEW d \in L PROVE ByCounter(ls2[d], oc2, MaximumObjects(R[d]))
    BY DEF Listed
  <2>1. CASE d = c
    BY <1>10, <1>11, <2>1
  <2>2. CASE d # c
    <3>1. ByCounter(ls[d], oc, MaximumObjects(R[d]))
      BY DEF Sound, Listed
    <3> QED
      BY <1>9, <1>11, <2>2, <3>1, CounterOther
  <2> QED
    BY <2>1, <2>2
<1>15. Paged(L, ls2, mem2, pg2)
  <2>1. \A d \in L : \A r \in Slabs(ls2[d]) :
          \/ r \in Slabs(ls[d]) /\ mem2[r] = mem[r]
          \/ d = c /\ r = s /\ mem2[r] = m
    BY <1>7, <1>9, <1>12
  <2>2. \A d \in L : \A r \in Slabs(ls2[d]) : r \in Chunks \ L /\ mem2[r] \in Chunks \ L
    BY <1>2, <1>3, <2>1
  <2>3. \A d, e \in L : \A t \in Slabs(ls2[d]), r \in Slabs(ls2[e]) :
          mem2[t] # r /\ (t = r => d = e) /\ (mem2[t] = mem2[r] => t = r)
    BY <1>2, <1>3, <2>1
  <2>4. \A x : x \in pg2 <=> \/ x \in L
                             \/ \E d \in L : \E r \in Slabs(ls2[d]) : x = r \/ x = mem2[r]
    <3> TAKE x
    <3>2. pg2 = pg \cup {s, m}
      OBVIOUS
    <3> HIDE DEF pg2
    <3>1. (\E d \in L : \E r \in Slabs(ls2[d]) : x = r \/ x = mem2[r])
            <=> x \in {s, m} \/ \E d \in L : \E r \in Slabs(ls[d]) : x = r \/ x = mem[r]
      BY <1>7, <1>9, <1>12
    <3>3. x \in pg <=> x \in L \/ \E d \in L : \E r \in Slabs(ls[d]) : x = r \/ x = mem[r]
      BY <1>2
    <3> DEFINE before == \E d \in L : \E r \in Slabs(ls[d]) : x = r \/ x = mem[r]
               after == \E d \in L : \E r \in Slabs(ls2[d]) : x = r \/ x = mem2[r]
    <3>4. (after <=> x \in {s, m} \/ before) /\ (x \in pg <=> x \in L \/ before)
      BY <3>1, <3>3
    <3> HIDE DEF before, after
    <3>5. x \in pg2 <=> x \in L \/ after
      BY <3>2, <3>4
    <3> QED
      BY <3>5 DEF after
  <2> QED
    BY <2>2, <2>3, <2>4 DEF Paged
<1>16. Stocked(L, R, ls2, mem2, fl2, oc2, hd)
  <2> SUFFICES ASSUME NEW d \in L, NEW r \in Slabs(ls2[d])
               PROVE  Objects(mem2[r], fl2[r], oc2[r], MaximumObjects(R[d]), hd)
    BY DEF Stocked
  <2>1. CASE r = s
    <3>1. d = c
      BY <1>3, <1>12, <2>1
    <3> QED
      BY <1>6, <1>7, <2>1, <3>1
  <2>2. CASE r # s
    <3>1. r \in Slabs(ls[d])
      BY <1>12, <2>2
    <3> QED
      BY <1>9, <3>1 DEF Sound, Stocked
  <2> QED
    BY <2>1, <2>2
<1>17. Owned(L, B, ls2, mem2, hd)
  <2>1. ASSUME NEW h \in hd
        PROVE  /\ h[3] \in Holders(L) /\ CacheOf(h[3], B) \in L
               /\ \E r \in Slabs(ls2[CacheOf(h[3], B)]) : mem2[r] = h[1]
    <3>1. /\ h[3] \in Holders(L) /\ CacheOf(h[3], B) \in L
          /\ \E r \in Slabs(ls[CacheOf(h[3], B)]) : mem[r] = h[1]
      BY DEF Sound, Owned
    <3> QED
      BY <1>9, <1>12, <3>1
  <2> QED
    BY <2>1 DEF Sound, Owned
<1>18. Sound(L, R, B, ls2, mem2, fl2, oc2, pg2, hd)
  BY <1>13, <1>14, <1>15, <1>16, <1>17 DEF Sound
<1>19. ls2 = [ls EXCEPT ![c] = WithEmpty(ls[c], s)]
  BY DEF ls2, l2
<1> QED
  BY <1>10, <1>11, <1>18, <1>19 DEF mem2, fl2, oc2

-------------------------------------------------------------------------------
(* A cache that hands out or takes back an object of one of its slabs       *)
(* leaves everything else as it was.                                        *)
LEMMA OneSlab ==
  ASSUME NEW L, NEW R, NEW B, NEW ls, NEW mem, NEW fl, NEW oc, NEW pg, NEW hd,
         Sound(L, R, B, ls, mem, fl, oc, pg, hd),
         NEW c \in L, NEW s \in Slabs(ls[c]), NEW n \in Nat, NEW f \in Seq(Nat), NEW hd2,
         NEW l2 \in ListRecords, Slabs(l2) = Slabs(ls[c]),
         ByCounter(l2, [oc EXCEPT ![s] = n], MaximumObjects(R[c])),
         Objects(mem[s], f, n, MaximumObjects(R[c]), hd2), HeldOnce(hd2),
         \A h : h[1] # mem[s] => (h \in hd <=> h \in hd2),
         \A h \in hd2 : \/ h \in hd
                        \/ h[1] = mem[s] /\ h[3] \in Holders(L) /\ CacheOf(h[3], B) = c
  PROVE  Sound(L, R, B, [ls EXCEPT ![c] = l2], mem, [fl EXCEPT ![s] = f],
               [oc EXCEPT ![s] = n], pg, hd2)
<1> DEFINE ls2 == [ls EXCEPT ![c] = l2]
           fl2 == [fl EXCEPT ![s] = f]
           oc2 == [oc EXCEPT ![s] = n]
<1>1. Typed(L, R, ls, mem, fl, oc)
  BY DEF Sound
<1>2. /\ \A d \in L : \A r \in Slabs(ls[d]) : r \in Chunks \ L /\ mem[r] \in Chunks \ L
      /\ \A d, e \in L : \A t \in Slabs(ls[d]), r \in Slabs(ls[e]) :
           mem[t] # r /\ (t = r => d = e) /\ (mem[t] = mem[r] => t = r)
      /\ \A x : x \in pg <=> \/ x \in L
                             \/ \E d \in L : \E r \in Slabs(ls[d]) : x = r \/ x = mem[r]
  BY DEF Sound, Paged
<1>3. s \in Chunks /\ c \in Chunks
  BY <1>1, <1>2 DEF Typed
<1>4. Typed(L, R, ls2, mem, fl2, oc2)
  BY <1>1 DEF Typed
<1>5. /\ fl2[s] = f /\ oc2[s] = n
      /\ \A r \in Chunks : r # s => fl2[r] = fl[r] /\ oc2[r] = oc[r]
  BY <1>1, <1>3 DEF Typed
<1>6. ls2[c] = l2 /\ \A d \in L \ {c} : ls2[d] = ls[d]
  BY <1>1, <1>3 DEF Typed
<1>7. \A d \in L : Slabs(ls2[d]) = Slabs(ls[d])
  BY <1>6
<1>8. ByCounter(l2, oc2, MaximumObjects(R[c]))
  OBVIOUS
<1> HIDE DEF ls2, fl2, oc2
<1>9. Listed(L, R, ls2, oc2)
  <2> SUFFICES ASSUME NEW d \in L PROVE ByCounter(ls2[d], oc2, MaximumObjects(R[d]))
    BY DEF Listed
  <2>1. CASE d = c
    BY <1>6, <1>8, <2>1
  <2>2. CASE d # c
    <3>1. ByCounter(ls[d], oc, MaximumObjects(R[d]))
      BY DEF Sound, Listed
    <3>2. \A r \in Slabs(ls[d]) : r # s /\ r \in Chunks
      BY <1>2, <2>2
    <3>3. \A r \in Slabs(ls[d]) : oc2[r] = oc[r]
      BY <1>5, <3>2
    <3> QED
      BY <1>6, <2>2, <3>1, <3>3, CounterOther
  <2> QED
    BY <2>1, <2>2
<1>10. Paged(L, ls2, mem, pg)
  <2>1. \A d \in L : \A r \in Slabs(ls2[d]) : r \in Chunks \ L /\ mem[r] \in Chunks \ L
    BY <1>2, <1>7
  <2>2. \A d, e \in L : \A t \in Slabs(ls2[d]), r \in Slabs(ls2[e]) :
           mem[t] # r /\ (t = r => d = e) /\ (mem[t] = mem[r] => t = r)
    BY <1>2, <1>7
  <2>3. \A x : x \in pg <=> \/ x \in L
                            \/ \E d \in L : \E r \in Slabs(ls2[d]) : x = r \/ x = mem[r]
    <3> TAKE x
    <3>1. x \in pg <=> x \in L \/ \E d \in L : \E r \in Slabs(ls[d]) : x = r \/ x = mem[r]
      BY <1>2
    <3> QED
      BY <1>7, <3>1
  <2> QED
    BY <2>1, <2>2, <2>3 DEF Paged
<1>11. Stocked(L, R, ls2, mem, fl2, oc2, hd2)
  <2> SUFFICES ASSUME NEW d \in L, NEW r \in Slabs(ls2[d])
               PROVE  Objects(mem[r], fl2[r], oc2[r], MaximumObjects(R[d]), hd2)
    BY DEF Stocked
  <2>1. r \in Slabs(ls[d]) /\ r \in Chunks
    BY <1>2, <1>7
  <2>2. CASE r = s
    <3>1. d = c
      BY <1>2, <2>1, <2>2
    <3> QED
      BY <1>5, <2>2, <3>1
  <2>3. CASE r # s
    <3>1. Objects(mem[r], fl[r], oc[r], MaximumObjects(R[d]), hd)
      BY <2>1 DEF Sound, Stocked
    <3>2. mem[r] # mem[s]
      BY <1>2, <2>1, <2>3
    <3>3. \A h : h[1] = mem[r] => (h \in hd <=> h \in hd2)
      BY <3>2
    <3>4. Objects(mem[r], fl[r], oc[r], MaximumObjects(R[d]), hd2)
      BY <3>1, <3>3, ObjectsOther
    <3> QED
      BY <1>5, <2>1, <2>3, <3>4
  <2> QED
    BY <2>2, <2>3
<1>12. Owned(L, B, ls2, mem, hd2)
  <2>1. ASSUME NEW h \in hd2
        PROVE  /\ h[3] \in Holders(L) /\ CacheOf(h[3], B) \in L
               /\ \E r \in Slabs(ls2[CacheOf(h[3], B)]) : mem[r] = h[1]
    <3>1. CASE h \in hd
      <4>1. /\ h[3] \in Holders(L) /\ CacheOf(h[3], B) \in L
            /\ \E r \in Slabs(ls[CacheOf(h[3], B)]) : mem[r] = h[1]
        BY <3>1 DEF Sound, Owned
      <4> QED
        BY <1>7, <4>1
    <3>2. CASE h[1] = mem[s] /\ h[3] \in Holders(L) /\ CacheOf(h[3], B) = c
      BY <1>7, <3>2
    <3> QED
      BY <3>1, <3>2
  <2> QED
    BY <2>1 DEF Owned
<1> QED
  BY <1>4, <1>9, <1>10, <1>11, <1>12 DEF Sound, ls2, fl2, oc2

(* kmem_cache_alloc from a slab that is not full. *)
LEMMA TakeObject ==
  ASSUME NEW L, NEW R, NEW B, NEW ls, NEW mem, NEW fl, NEW oc, NEW pg, NEW hd,
         Sound(L, R, B, ls, mem, fl, oc, pg, hd),
         NEW c \in L, NEW s \in ToSet(ls[c]["empty"]) \cup ToSet(ls[c]["partial"]),
         NEW x \in Holders(L), CacheOf(x, B) = c
  PROVE  Sound(L, R, B,
               [ls EXCEPT ![c] = ListsAfterTake(ls[c], s, oc[s], MaximumObjects(R[c]))], mem,
               [fl EXCEPT ![s] = Tail(fl[s])], [oc EXCEPT ![s] = oc[s] + 1], pg,
               hd \cup {<<mem[s], Head(fl[s]), x>>})
<1> DEFINE max == MaximumObjects(R[c])
           l2 == ListsAfterTake(ls[c], s, oc[s], max)
           n == oc[s] + 1
           oc2 == [oc EXCEPT ![s] = n]
           f == Tail(fl[s])
           h2 == <<mem[s], Head(fl[s]), x>>
           hd2 == hd \cup {h2}
<1>1. Typed(L, R, ls, mem, fl, oc)
  BY DEF Sound
<1>2. max \in Nat \ {0} /\ c \in Chunks
  <2>1. c \in Chunks /\ R[c] \in Nat
    BY <1>1 DEF Typed
  <2> QED
    BY <2>1, RoomInSlab
<1>3. ByCounter(ls[c], oc, max)
  BY DEF Sound, Listed
<1>4. s \in Slabs(ls[c]) /\ Slabs(ls[c]) \subseteq Chunks
  BY <1>3, RecordFields DEF ByCounter
<1>5. oc[s] \in Nat /\ oc[s] < max
  BY <1>2, <1>3 DEF ByCounter
<1>6. oc2[s] = n /\ \A r \in Slabs(ls[c]) : oc2[r] = IF r = s THEN oc[s] + 1 ELSE oc[r]
  BY <1>1, <1>4 DEF Typed
<1>7. Objects(mem[s], fl[s], oc[s], max, hd)
  BY <1>4 DEF Sound, Stocked
<1>8. HeldOnce(hd)
  BY DEF Sound, Owned
<1> HIDE DEF max, oc2
<1>9. l2 \in ListRecords /\ ByCounter(l2, oc2, max) /\ Slabs(l2) = Slabs(ls[c])
  BY <1>2, <1>3, <1>6, TakeLists
<1>10. HeldOnce(hd2) /\ f \in Seq(Nat) /\ Objects(mem[s], f, n, max, hd2)
  BY <1>2, <1>5, <1>7, <1>8, ObjectsTake
<1>11. h2[1] = mem[s] /\ h2[3] = x
  OBVIOUS
<1> HIDE DEF l2, f, h2
<1>12. /\ \A h : h[1] # mem[s] => (h \in hd <=> h \in hd2)
       /\ \A h \in hd2 : \/ h \in hd
                         \/ h[1] = mem[s] /\ h[3] \in Holders(L) /\ CacheOf(h[3], B) = c
  BY <1>11
<1>13. n \in Nat
  BY <1>5
<1> HIDE DEF hd2, n
<1>14. Sound(L, R, B, [ls EXCEPT ![c] = l2], mem, [fl EXCEPT ![s] = f], [oc EXCEPT ![s] = n],
             pg, hd2)
  <2>1. /\ l2 \in ListRecords /\ Slabs(l2) = Slabs(ls[c])
        /\ ByCounter(l2, [oc EXCEPT ![s] = n], MaximumObjects(R[c]))
    BY <1>9 DEF oc2, max
  <2>2. f \in Seq(Nat) /\ HeldOnce(hd2) /\ Objects(mem[s], f, n, MaximumObjects(R[c]), hd2)
    BY <1>10 DEF max
  <2> QED
    <3>1. \A h : h[1] # mem[s] => (h \in hd <=> h \in hd2)
      BY <1>12
    <3>2. \A h \in hd2 : \/ h \in hd
                         \/ h[1] = mem[s] /\ h[3] \in Holders(L) /\ CacheOf(h[3], B) = c
      BY <1>12
    <3> QED
      BY <1>4, <1>13, <2>1, <2>2, <3>1, <3>2, OneSlab
<1> QED
  BY <1>14 DEF l2, f, h2, hd2, n, max

(* kmem_cache_free to a slab that is not empty. *)
LEMMA GiveObject ==
  ASSUME NEW L, NEW R, NEW B, NEW ls, NEW mem, NEW fl, NEW oc, NEW pg, NEW hd,
         Sound(L, R, B, ls, mem, fl, oc, pg, hd),
         NEW c \in L, NEW s \in ToSet(ls[c]["partial"]) \cup ToSet(ls[c]["full"]),
         NEW h2 \in hd, h2[1] = mem[s]
  PROVE  Sound(L, R, B,
               [ls EXCEPT ![c] = ListsAfterGive(ls[c], s, oc[s], MaximumObjects(R[c]))], mem,
               [fl EXCEPT ![s] = <<h2[2]>> \o fl[s]], [oc EXCEPT ![s] = oc[s] - 1], pg,
               hd \ {h2})
<1> DEFINE max == MaximumObjects(R[c])
           l2 == ListsAfterGive(ls[c], s, oc[s], max)
           n == oc[s] - 1
           oc2 == [oc EXCEPT ![s] = n]
           f == <<h2[2]>> \o fl[s]
           hd2 == hd \ {h2}
<1>1. Typed(L, R, ls, mem, fl, oc)
  BY DEF Sound
<1>2. max \in Nat \ {0} /\ c \in Chunks
  <2>1. c \in Chunks /\ R[c] \in Nat
    BY <1>1 DEF Typed
  <2> QED
    BY <2>1, RoomInSlab
<1>3. ByCounter(ls[c], oc, max)
  BY DEF Sound, Listed
<1>4. s \in Slabs(ls[c]) /\ Slabs(ls[c]) \subseteq Chunks
  BY <1>3, RecordFields DEF ByCounter
<1>6. oc2[s] = n /\ \A r \in Slabs(ls[c]) : oc2[r] = IF r = s THEN oc[s] - 1 ELSE oc[r]
  BY <1>1, <1>4 DEF Typed
<1>7. Objects(mem[s], fl[s], oc[s], max, hd)
  BY <1>4 DEF Sound, Stocked
<1>8. HeldOnce(hd)
  BY DEF Sound, Owned
<1> HIDE DEF max, oc2
<1>9. l2 \in ListRecords /\ ByCounter(l2, oc2, max) /\ Slabs(l2) = Slabs(ls[c])
  BY <1>2, <1>3, <1>6, GiveLists
<1>10. HeldOnce(hd2) /\ f \in Seq(Nat) /\ n \in Nat /\ Objects(mem[s], f, n, max, hd2)
  BY <1>2, <1>7, <1>8, ObjectsGive
<1> HIDE DEF l2, f, n
<1>12. /\ \A h : h[1] # mem[s] => (h \in hd <=> h \in hd2)
       /\ \A h \in hd2 : \/ h \in hd
                         \/ h[1] = mem[s] /\ h[3] \in Holders(L) /\ CacheOf(h[3], B) = c
  OBVIOUS
<1> HIDE DEF hd2
<1>14. Sound(L, R, B, [ls EXCEPT ![c] = l2], mem, [fl EXCEPT ![s] = f], [oc EXCEPT ![s] = n],
             pg, hd2)
  BY <1>4, <1>9, <1>10, <1>12, OneSlab DEF oc2, max
<1> QED
  BY <1>14 DEF l2, f, hd2, n, max

-------------------------------------------------------------------------------
(* A cache without its empty slabs. *)
LEMMA WithoutEmptyIs ==
  ASSUME NEW l, NEW oc, NEW max, ByCounter(l, oc, max)
  PROVE  LET m == WithoutEmpty(l)
         IN  /\ m \in ListRecords /\ ByCounter(m, oc, max)
             /\ Slabs(m) = Slabs(l) \ ToSet(l["empty"]) /\ ToSet(l["empty"]) \subseteq Slabs(l)
<1> DEFINE m == WithoutEmpty(l)
<1>1. /\ l \in ListRecords /\ DOMAIN l = Kinds /\ \A k \in Kinds : l[k] \in Seq(Chunks)
      /\ l = [k \in Kinds |-> l[k]]
      /\ Slabs(l) = ToSet(l["empty"]) \cup ToSet(l["partial"]) \cup ToSet(l["full"])
  BY RecordFields DEF ByCounter
<1>2. /\ \A k \in Kinds : IsInjective(l[k])
      /\ \A j, k \in Kinds : j # k => ToSet(l[j]) \cap ToSet(l[k]) = {}
  BY DEF ByCounter, Once
<1>3. Kinds = {"empty", "partial", "full"}
  BY DEF Kinds
<1>4. m = [k \in Kinds |-> IF k = "empty" THEN <<>> ELSE l[k]]
  BY <1>1 DEF WithoutEmpty
<1>5. m["empty"] = <<>> /\ m["partial"] = l["partial"] /\ m["full"] = l["full"]
  BY <1>3, <1>4
<1>6. ToSet(m["empty"]) = {} /\ IsInjective(m["empty"]) /\ m["empty"] \in Seq(Chunks)
  BY <1>5, EmptyList
<1>7. m \in ListRecords
  <2>1. m = [k \in Kinds |-> m[k]]
    BY <1>4
  <2>2. \A k \in Kinds : m[k] \in Seq(Chunks)
    BY <1>1, <1>3, <1>5, <1>6
  <2> HIDE DEF m
  <2> QED
    BY <2>1, <2>2, RecordIs
<1> HIDE DEF m
<1>8. Once(m)
  <2>1. \A k \in Kinds : IsInjective(m[k])
    BY <1>2, <1>3, <1>5, <1>6
  <2>2. \A k \in Kinds : k = "empty" \/ m[k] = l[k]
    BY <1>3, <1>5
  <2>3. \A j, k \in Kinds : j # k => ToSet(m[j]) \cap ToSet(m[k]) = {}
    BY <1>2, <1>6, <2>2
  <2> QED
    BY <2>1, <2>3 DEF Once
<1>9. Slabs(m) = ToSet(l["partial"]) \cup ToSet(l["full"])
  <2>1. Slabs(m) = ToSet(m["empty"]) \cup ToSet(m["partial"]) \cup ToSet(m["full"])
    BY <1>7, RecordFields
  <2> QED
    BY <1>5, <1>6, <2>1
<1>10. /\ ToSet(l["empty"]) \cap ToSet(l["partial"]) = {}
       /\ ToSet(l["empty"]) \cap ToSet(l["full"]) = {}
  BY <1>2, <1>3
<1>11. ByCounter(m, oc, max)
  BY <1>5, <1>6, <1>7, <1>8 DEF ByCounter
<1> QED
  BY <1>1, <1>7, <1>9, <1>10, <1>11 DEF m

(* Nothing is held of a slab whose counter is 0. *)
LEMMA NothingHeld ==
  ASSUME NEW m, NEW f, NEW max, NEW hd, HeldOnce(hd), Objects(m, f, 0, max, hd)
  PROVE  \A h \in hd : h[1] # m
<1>1. HeldOf(m, hd) \in SUBSET hd /\ IsFiniteSet(hd)
  BY DEF HeldOnce, HeldOf
<1>2. IsFiniteSet(HeldOf(m, hd)) /\ Cardinality(HeldOf(m, hd)) = 0
  BY <1>1, FS_Subset DEF Objects
<1>3. HeldOf(m, hd) = {}
  BY <1>2, FS_EmptySet
<1> QED
  BY <1>3 DEF HeldOf

(* kmem_cache_shrink gives back slabs nothing is held of, with their        *)
(* memory.                                                                  *)
LEMMA ShrinkCache ==
  ASSUME NEW L, NEW R, NEW B, NEW ls, NEW mem, NEW fl, NEW oc, NEW pg, NEW hd,
         Sound(L, R, B, ls, mem, fl, oc, pg, hd), NEW c \in L
  PROVE  Sound(L, R, B, [ls EXCEPT ![c] = WithoutEmpty(ls[c])], mem, fl, oc,
               pg \ UNION {{s, mem[s]} : s \in ToSet(ls[c]["empty"])}, hd)
<1> DEFINE gone == ToSet(ls[c]["empty"])
           l2 == WithoutEmpty(ls[c])
           ls2 == [ls EXCEPT ![c] = l2]
           pg2 == pg \ UNION {{s, mem[s]} : s \in gone}
<1>1. Typed(L, R, ls, mem, fl, oc)
  BY DEF Sound
<1>2. /\ \A d \in L : \A r \in Slabs(ls[d]) : r \in Chunks \ L /\ mem[r] \in Chunks \ L
      /\ \A d, e \in L : \A t \in Slabs(ls[d]), r \in Slabs(ls[e]) :
           mem[t] # r /\ (t = r => d = e) /\ (mem[t] = mem[r] => t = r)
      /\ \A x : x \in pg <=> \/ x \in L
                             \/ \E d \in L : \E r \in Slabs(ls[d]) : x = r \/ x = mem[r]
  BY DEF Sound, Paged
<1>3. /\ l2 \in ListRecords /\ ByCounter(l2, oc, MaximumObjects(R[c]))
      /\ Slabs(l2) = Slabs(ls[c]) \ gone /\ gone \subseteq Slabs(ls[c])
  BY WithoutEmptyIs DEF Sound, Listed
<1>4. \A s \in gone : oc[s] = 0
  BY DEF Sound, Listed, ByCounter
<1> HIDE DEF l2
<1>5. ls2[c] = l2 /\ \A d \in L \ {c} : ls2[d] = ls[d]
  BY <1>1 DEF Typed
<1>6. Typed(L, R, ls2, mem, fl, oc)
  BY <1>1, <1>3 DEF Typed
<1>7. \A x : x \in pg2 <=> x \in pg /\ \A s \in gone : x # s /\ x # mem[s]
  OBVIOUS
<1> HIDE DEF ls2, pg2, gone
<1>8. \A d \in L : \A r : r \in Slabs(ls2[d]) <=> r \in Slabs(ls[d]) /\ r \notin gone
  <2> TAKE d \in L
  <2>1. CASE d = c
    BY <1>3, <1>5, <2>1
  <2>2. CASE d # c
    <3>1. \A r \in Slabs(ls[d]) : r \notin gone
      BY <1>2, <1>3, <2>2
    <3> QED
      BY <1>5, <2>2, <3>1
  <2> QED
    BY <2>1, <2>2
<1>9. Listed(L, R, ls2, oc)
  BY <1>3, <1>5 DEF Sound, Listed
<1>10. Paged(L, ls2, mem, pg2)
  <2>1. \A d \in L : \A r \in Slabs(ls2[d]) : r \in Chunks \ L /\ mem[r] \in Chunks \ L
    BY <1>2, <1>8
  <2>2. \A d, e \in L : \A t \in Slabs(ls2[d]), r \in Slabs(ls2[e]) :
           mem[t] # r /\ (t = r => d = e) /\ (mem[t] = mem[r] => t = r)
    BY <1>2, <1>8
  <2>3. \A x : x \in pg2 <=> \/ x \in L
                             \/ \E d \in L : \E r \in Slabs(ls2[d]) : x = r \/ x = mem[r]
    <3> TAKE x
    <3>1. ASSUME x \in pg2
          PROVE  \/ x \in L
                 \/ \E d \in L : \E r \in Slabs(ls2[d]) : x = r \/ x = mem[r]
      <4>1. x \in pg /\ \A s \in gone : x # s /\ x # mem[s]
        BY <1>7, <3>1
      <4>2. CASE x \in L
        BY <4>2
      <4>3. CASE x \notin L
        <5>1. PICK d \in L : \E r \in Slabs(ls[d]) : x = r \/ x = mem[r]
          BY <1>2, <4>1, <4>3
        <5>2. PICK r \in Slabs(ls[d]) : x = r \/ x = mem[r]
          BY <5>1
        <5>3. r \in Slabs(ls2[d])
          BY <1>8, <4>1, <5>2
        <5> QED
          BY <5>2, <5>3
      <4> QED
        BY <4>2, <4>3
    <3>2. ASSUME x \in L PROVE x \in pg2
      <4>1. x \in pg
        BY <1>2, <3>2
      <4>2. \A s \in gone : x # s /\ x # mem[s]
        BY <1>2, <1>3, <3>2
      <4> QED
        BY <1>7, <4>1, <4>2
    <3>3. ASSUME NEW d \in L, NEW r \in Slabs(ls2[d]), x = r \/ x = mem[r] PROVE x \in pg2
      <4>1. r \in Slabs(ls[d]) /\ r \notin gone
        BY <1>8
      <4>2. x \in pg
        BY <1>2, <3>3, <4>1
      <4>3. \A s \in gone : x # s /\ x # mem[s]
        BY <1>2, <1>3, <3>3, <4>1
      <4> QED
        BY <1>7, <4>2, <4>3
    <3> QED
      BY <3>1, <3>2, <3>3
  <2> QED
    BY <2>1, <2>2, <2>3 DEF Paged
<1>11. Stocked(L, R, ls2, mem, fl, oc, hd)
  BY <1>8 DEF Sound, Stocked
<1>12. Owned(L, B, ls2, mem, hd)
  <2>1. ASSUME NEW h \in hd
        PROVE  /\ h[3] \in Holders(L) /\ CacheOf(h[3], B) \in L
               /\ \E r \in Slabs(ls2[CacheOf(h[3], B)]) : mem[r] = h[1]
    <3> DEFINE d == CacheOf(h[3], B)
    <3>1. /\ h[3] \in Holders(L) /\ d \in L
          /\ \E r \in Slabs(ls[d]) : mem[r] = h[1]
      BY DEF Sound, Owned
    <3> HIDE DEF d
    <3>2. PICK r \in Slabs(ls[d]) : mem[r] = h[1]
      BY <3>1
    <3>3. r \notin gone
      <4>1. Objects(mem[r], fl[r], oc[r], MaximumObjects(R[d]), hd) /\ HeldOnce(hd)
        BY <3>1 DEF Sound, Stocked, Owned
      <4>2. oc[r] # 0
        BY <3>2, <4>1, NothingHeld
      <4> QED
        BY <1>4, <4>2
    <3>4. r \in Slabs(ls2[d])
      BY <1>8, <3>1, <3>3
    <3> QED
      BY <3>1, <3>2, <3>4 DEF d
  <2> QED
    BY <2>1 DEF Sound, Owned
<1> QED
  BY <1>6, <1>9, <1>10, <1>11, <1>12 DEF Sound, ls2, l2, pg2, gone

(* kmem_cache_destroy gives back the cache and all its slabs; what is held  *)
(* of them is gone with them.                                               *)
LEMMA DestroyCache ==
  ASSUME NEW L, NEW R, NEW B, NEW ls, NEW mem, NEW fl, NEW oc, NEW pg, NEW hd,
         Sound(L, R, B, ls, mem, fl, oc, pg, hd), NEW c \in L, \A e \in Buffers : B[e] # c
  PROVE  Sound(L \ {c}, R, B, ls, mem, fl, oc,
               pg \ ({c} \cup UNION {{s, mem[s]} : s \in Slabs(ls[c])}),
               {h \in hd : h[3] # <<"cache", c>>})
<1> DEFINE L2 == L \ {c}
           gone == Slabs(ls[c])
           pg2 == pg \ ({c} \cup UNION {{s, mem[s]} : s \in gone})
           hd2 == {h \in hd : h[3] # <<"cache", c>>}
<1>1. Typed(L, R, ls, mem, fl, oc)
  BY DEF Sound
<1>2. /\ \A d \in L : \A r \in Slabs(ls[d]) : r \in Chunks \ L /\ mem[r] \in Chunks \ L
      /\ \A d, e \in L : \A t \in Slabs(ls[d]), r \in Slabs(ls[e]) :
           mem[t] # r /\ (t = r => d = e) /\ (mem[t] = mem[r] => t = r)
      /\ \A x : x \in pg <=> \/ x \in L
                             \/ \E d \in L : \E r \in Slabs(ls[d]) : x = r \/ x = mem[r]
  BY DEF Sound, Paged
<1>3. \A x : x \in pg2 <=> x \in pg /\ x # c /\ \A s \in gone : x # s /\ x # mem[s]
  OBVIOUS
<1>4. Typed(L2, R, ls, mem, fl, oc)
  BY <1>1 DEF Typed
<1>5. CacheOf(<<"cache", c>>, B) = c
  BY DEF CacheOf
<1>6. ASSUME NEW h \in hd2
      PROVE  /\ h \in hd /\ h[3] \in Holders(L2) /\ CacheOf(h[3], B) \in L2
  <2>1. h \in hd /\ h[3] # <<"cache", c>>
    OBVIOUS
  <2>2. h[3] \in Holders(L) /\ CacheOf(h[3], B) \in L
    BY <2>1 DEF Sound, Owned
  <2> DEFINE x == h[3]
  <2>3. x \in Holders(L) /\ CacheOf(x, B) \in L /\ x # <<"cache", c>>
    BY <2>1, <2>2
  <2> HIDE DEF x
  <2>4. CASE x \in {"cache"} \X L
    <3>1. PICK d \in L : x = <<"cache", d>>
      BY <2>4
    <3>2. d # c
      BY <2>3, <3>1
    <3>3. x \in {"cache"} \X L2 /\ x[1] = "cache" /\ x[2] = d
      BY <3>1, <3>2
    <3> QED
      BY <2>1, <3>2, <3>3 DEF Holders, CacheOf, x
  <2>5. CASE x \in {"entry"} \X Buffers \X Requests
    <3>1. x[1] = "entry" /\ x[2] \in Buffers
      BY <2>5
    <3>2. CacheOf(x, B) = B[x[2]]
      BY <3>1 DEF CacheOf
    <3>3. CacheOf(x, B) # c /\ x \in Holders(L2)
      BY <2>5, <3>1, <3>2 DEF Holders
    <3> QED
      BY <2>1, <2>3, <3>3 DEF x
  <2> QED
    BY <2>3, <2>4, <2>5 DEF Holders
<1>7. \A h \in hd : h \notin hd2 => CacheOf(h[3], B) = c
  BY <1>5
<1>8. hd2 \in SUBSET hd
  OBVIOUS
<1> HIDE DEF pg2, hd2
<1>9. Listed(L2, R, ls, oc)
  BY DEF Sound, Listed
<1>10. Paged(L2, ls, mem, pg2)
  <2>1. \A d \in L2 : \A r \in Slabs(ls[d]) : r \in Chunks \ L2 /\ mem[r] \in Chunks \ L2
    BY <1>2
  <2>2. \A d, e \in L2 : \A t \in Slabs(ls[d]), r \in Slabs(ls[e]) :
           mem[t] # r /\ (t = r => d = e) /\ (mem[t] = mem[r] => t = r)
    BY <1>2
  <2>3. \A x : x \in pg2 <=> \/ x \in L2
                             \/ \E d \in L2 : \E r \in Slabs(ls[d]) : x = r \/ x = mem[r]
    <3> TAKE x
    <3>1. ASSUME x \in pg2
          PROVE  \/ x \in L2
                 \/ \E d \in L2 : \E r \in Slabs(ls[d]) : x = r \/ x = mem[r]
      <4>1. x \in pg /\ x # c /\ \A s \in gone : x # s /\ x # mem[s]
        BY <1>3, <3>1
      <4>2. CASE x \in L
        BY <4>1, <4>2
      <4>3. CASE x \notin L
        <5>1. PICK d \in L : \E r \in Slabs(ls[d]) : x = r \/ x = mem[r]
          BY <1>2, <4>1, <4>3
        <5>2. d # c
          BY <4>1, <5>1
        <5> QED
          BY <5>1, <5>2
      <4> QED
        BY <4>2, <4>3
    <3>2. ASSUME x \in L2 PROVE x \in pg2
      <4>1. x \in pg /\ x # c
        BY <1>2, <3>2
      <4>2. \A s \in gone : x # s /\ x # mem[s]
        BY <1>2, <3>2
      <4> QED
        BY <1>3, <4>1, <4>2
    <3>3. ASSUME NEW d \in L2, NEW r \in Slabs(ls[d]), x = r \/ x = mem[r] PROVE x \in pg2
      <4>1. x \in pg /\ x # c
        BY <1>2, <3>3
      <4>2. \A s \in gone : x # s /\ x # mem[s]
        BY <1>2, <3>3
      <4> QED
        BY <1>3, <4>1, <4>2
    <3> QED
      BY <3>1, <3>2, <3>3
  <2> QED
    BY <2>1, <2>2, <2>3 DEF Paged
<1>11. Stocked(L2, R, ls, mem, fl, oc, hd2)
  <2> SUFFICES ASSUME NEW d \in L2, NEW r \in Slabs(ls[d])
               PROVE  Objects(mem[r], fl[r], oc[r], MaximumObjects(R[d]), hd2)
    BY DEF Stocked
  <2>1. Objects(mem[r], fl[r], oc[r], MaximumObjects(R[d]), hd)
    BY DEF Sound, Stocked
  <2>2. \A h \in hd : h[1] = mem[r] => h \in hd2
    <3> SUFFICES ASSUME NEW h \in hd, h[1] = mem[r], h \notin hd2 PROVE FALSE
      OBVIOUS
    <3>1. CacheOf(h[3], B) = c
      BY <1>7
    <3>2. PICK t \in Slabs(ls[c]) : mem[t] = h[1]
      BY <3>1 DEF Sound, Owned
    <3>3. t = r
      BY <1>2, <3>2
    <3> QED
      BY <1>2, <3>3
  <2>3. \A h : h[1] = mem[r] => (h \in hd <=> h \in hd2)
    BY <1>8, <2>2
  <2> QED
    BY <2>1, <2>3, ObjectsOther
<1>12. Owned(L2, B, ls, mem, hd2)
  <2>1. HeldOnce(hd2)
    <3>1. HeldOnce(hd)
      BY DEF Sound, Owned
    <3>2. IsFiniteSet(hd2)
      BY <1>8, <3>1, FS_Subset DEF HeldOnce
    <3> QED
      BY <1>8, <3>1, <3>2 DEF HeldOnce
  <2>2. \A h \in hd2 : \E r \in Slabs(ls[CacheOf(h[3], B)]) : mem[r] = h[1]
    BY <1>8 DEF Sound, Owned
  <2> QED
    BY <1>6, <2>1, <2>2 DEF Owned
<1> QED
  BY <1>4, <1>9, <1>10, <1>11, <1>12 DEF Sound, pg2, hd2

-------------------------------------------------------------------------------
(* The table of caches and the small memory buffers name caches there are,  *)
(* a user's cache at most once.                                             *)
Tabled(L, B, T, io, ib) ==
  /\ B \in [Buffers -> L \cup {None}]
  /\ T \in [0..(TableSize - 1) -> L \cup {None}]
  /\ \A c \in L : (\A e \in Buffers : B[e] # c) =>
       \A i, j \in 0..(TableSize - 1) : T[i] = c /\ T[j] = c => i = j
  /\ io \in FirstObj..TableSize /\ ib \in 0..TableSize

IInv ==
  /\ Sound(live, real_obj_size, small_memory_buffers, lists, memory, free_list, obj_counter,
           pages, held)
  /\ Tabled(live, small_memory_buffers, caches, id_obj, id_buff)
  /\ growth_indicator \in [Chunks -> -1..1]
  /\ outcome \in {"ok", "fault", "overrun"}

(* The program starts without caches. *)
LEMMA InitInv == Init => IInv
<1> SUFFICES ASSUME Init PROVE IInv
  OBVIOUS
<1>1. Typed(live, real_obj_size, lists, memory, free_list, obj_counter)
  BY NoSlabsIs DEF Init, Typed
<1>2. live = {} /\ pages = {} /\ held = {}
  BY DEF Init
<1>3. Listed(live, real_obj_size, lists, obj_counter)
  BY <1>2 DEF Listed
<1>4. Paged(live, lists, memory, pages)
  BY <1>2 DEF Paged
<1>5. Stocked(live, real_obj_size, lists, memory, free_list, obj_counter, held)
  BY <1>2 DEF Stocked
<1>6. Owned(live, small_memory_buffers, lists, memory, held)
  BY <1>2, FS_EmptySet DEF Owned, HeldOnce
<1>7. Tabled(live, small_memory_buffers, caches, id_obj, id_buff)
  BY <1>2, SlabAssumption DEF Init, Tabled, SlabAssumption
<1> QED
  BY <1>1, <1>3, <1>4, <1>5, <1>6, <1>7 DEF Init, IInv, Sound

(* kmem_cache_alloc from a slab there is. *)
LEMMA TakeInv ==
  ASSUME NEW L, NEW R, NEW B, NEW c \in L, NEW x \in Holders(L), CacheOf(x, B) = c,
         Sound(L, R, B, lists, memory, free_list, obj_counter, pages, held),
         TakeFrom(c, MaximumObjects(R[c]), lists, pages, x)
  PROVE  Sound(L, R, B, lists', memory', free_list', obj_counter', pages', held')
<1> DEFINE s == Chosen(lists[c])
           max == MaximumObjects(R[c])
<1>1. c \in Chunks /\ R[c] \in Nat /\ memory \in [Chunks -> Chunks \cup {None}]
  BY DEF Sound, Typed
<1>2. max \in Nat \ {0}
  BY <1>1, RoomInSlab
<1>3. ByCounter(lists[c], obj_counter, max) /\ s # None
  BY DEF Sound, Listed, TakeFrom
<1>4. s \in ToSet(lists[c]["empty"]) \cup ToSet(lists[c]["partial"])
  BY <1>2, <1>3, ChosenIs
<1>5. /\ lists' = [lists EXCEPT ![c] = ListsAfterTake(lists[c], s, obj_counter[s], max)]
      /\ held' = held \cup {<<memory[s], Head(free_list[s]), x>>}
      /\ free_list' = [free_list EXCEPT ![s] = Tail(free_list[s])]
      /\ obj_counter' = [obj_counter EXCEPT ![s] = obj_counter[s] + 1]
      /\ pages' = pages /\ memory' = memory
  BY DEF TakeFrom
<1> HIDE DEF s
<1>6. Sound(L, R, B,
            [lists EXCEPT ![c] = ListsAfterTake(lists[c], s, obj_counter[s], max)], memory,
            [free_list EXCEPT ![s] = Tail(free_list[s])],
            [obj_counter EXCEPT ![s] = obj_counter[s] + 1], pages,
            held \cup {<<memory[s], Head(free_list[s]), x>>})
  BY <1>4, TakeObject
<1> HIDE DEF max
<1> QED
  BY <1>5, <1>6

(* kmem_cache_alloc from a new slab. *)
LEMMA GrowInv ==
  ASSUME NEW L, NEW R, NEW B, NEW ls, NEW used, NEW c \in L, NEW x \in Holders(L),
         CacheOf(x, B) = c,
         Sound(L, R, B, ls, memory, free_list, obj_counter, used, held),
         Grow(c, MaximumObjects(R[c]), ls, used, x)
  PROVE  Sound(L, R, B, lists', memory', free_list', obj_counter', pages', held')
<1> DEFINE max == MaximumObjects(R[c])
           new == NewFreeList(max)
<1>1. PICK s \in BuddyAlloc(used) : \E m \in BuddyAlloc(used \cup {s}) :
       /\ lists' = [ls EXCEPT ![c] = ListsAfterTake(WithEmpty(ls[c], s), s, 0, max)]
       /\ memory' = [memory EXCEPT ![s] = m]
       /\ held' = held \cup {<<m, Head(new), x>>}
       /\ free_list' = [free_list EXCEPT ![s] = Tail(new)]
       /\ obj_counter' = [obj_counter EXCEPT ![s] = 1]
       /\ pages' = used \cup {s, m}
  BY DEF Grow
<1>2. PICK m \in BuddyAlloc(used \cup {s}) :
       /\ lists' = [ls EXCEPT ![c] = ListsAfterTake(WithEmpty(ls[c], s), s, 0, max)]
       /\ memory' = [memory EXCEPT ![s] = m]
       /\ held' = held \cup {<<m, Head(new), x>>}
       /\ free_list' = [free_list EXCEPT ![s] = Tail(new)]
       /\ obj_counter' = [obj_counter EXCEPT ![s] = 1]
       /\ pages' = used \cup {s, m}
  BY <1>1
<1>3. s \in Chunks /\ s \notin used /\ m \in Chunks /\ m \notin used /\ m # s
  BY BuddyAllocIs
<1>4. /\ ls \in [Chunks -> ListRecords] /\ memory \in [Chunks -> Chunks \cup {None}]
      /\ free_list \in [Chunks -> Seq(Nat)] /\ obj_counter \in [Chunks -> Nat] /\ c \in Chunks
  BY DEF Sound, Typed
<1> HIDE DEF new, max
<1> DEFINE ls1 == [ls EXCEPT ![c] = WithEmpty(ls[c], s)]
           mem1 == [memory EXCEPT ![s] = m]
           fl1 == [free_list EXCEPT ![s] = new]
           oc1 == [obj_counter EXCEPT ![s] = 0]
           pg1 == used \cup {s, m}
<1>5. Sound(L, R, B, ls1, mem1, fl1, oc1, pg1, held) /\ s \in ToSet(ls1[c]["empty"])
  BY <1>3, NewSlab DEF new, max
<1>6. /\ ls1[c] = WithEmpty(ls[c], s) /\ mem1[s] = m /\ fl1[s] = new /\ oc1[s] = 0
  BY <1>3, <1>4
<1>7. /\ \A z : [ls1 EXCEPT ![c] = z] = [ls EXCEPT ![c] = z]
      /\ \A z : [fl1 EXCEPT ![s] = z] = [free_list EXCEPT ![s] = z]
      /\ \A z : [oc1 EXCEPT ![s] = z] = [obj_counter EXCEPT ![s] = z]
  BY <1>3, <1>4
<1> HIDE DEF ls1, fl1, oc1, pg1
<1>8. Sound(L, R, B,
            [ls1 EXCEPT ![c] = ListsAfterTake(ls1[c], s, oc1[s], MaximumObjects(R[c]))], mem1,
            [fl1 EXCEPT ![s] = Tail(fl1[s])], [oc1 EXCEPT ![s] = oc1[s] + 1], pg1,
            held \cup {<<mem1[s], Head(fl1[s]), x>>})
  <2> HIDE DEF mem1
  <2> QED
    BY <1>5, TakeObject
<1>9. Sound(L, R, B,
            [ls EXCEPT ![c] = ListsAfterTake(WithEmpty(ls[c], s), s, 0, max)], mem1,
            [free_list EXCEPT ![s] = Tail(new)], [obj_counter EXCEPT ![s] = 1], pg1,
            held \cup {<<m, Head(new), x>>})
  <2>1. 0 + 1 = 1
    OBVIOUS
  <2> HIDE DEF mem1
  <2> QED
    BY <1>6, <1>7, <1>8, <2>1 DEF max
<1> QED
  BY <1>2, <1>9 DEF pg1

(* kmem_cache_alloc without memory changes nothing. *)
LEMMA FailInv ==
  ASSUME NEW L, NEW R, NEW B, NEW ls, NEW used, NEW c,
         Sound(L, R, B, ls, memory, free_list, obj_counter, used, held),
         FailToGrow(c, ls, used)
  PROVE  Sound(L, R, B, lists', memory', free_list', obj_counter', pages', held')
<1>1. pages' = used
  <2>1. \A s \in BuddyAlloc(used) : PagesAfterFailure(used, s) = used
    BY BuddyAllocIs DEF PagesAfterFailure
  <2> QED
    BY <2>1 DEF FailToGrow
<1>2. /\ lists' = ls /\ memory' = memory /\ free_list' = free_list
      /\ obj_counter' = obj_counter /\ held' = held
  BY DEF FailToGrow
<1> QED
  BY <1>1, <1>2

(* The rest of what an allocation changes. *)
LEMMA GrowthInv ==
  ASSUME growth_indicator \in [Chunks -> -1..1], outcome \in {"ok", "fault", "overrun"},
         NEW c, NEW max, NEW ls, NEW used, NEW x,
         \/ TakeFrom(c, max, lists, used, x)
         \/ Grow(c, max, ls, used, x)
         \/ FailToGrow(c, ls, used)
  PROVE  growth_indicator' \in [Chunks -> -1..1] /\ outcome' \in {"ok", "fault", "overrun"}
<1>1. /\ \/ growth_indicator' = growth_indicator
         \/ growth_indicator' = [growth_indicator EXCEPT ![c] = 1]
      /\ outcome' \in {"ok", "fault"}
  BY DEF TakeFrom, Grow, FailToGrow
<1>2. 1 \in -1..1
  OBVIOUS
<1> QED
  BY <1>1, <1>2

(* kmem_cache_alloc. *)
LEMMA AllocInv ==
  ASSUME IInv, NEW c \in live, NEW x \in Holders(live), CacheOf(x, small_memory_buffers) = c,
         AllocFrom(c, x), UNCHANGED tableVars
  PROVE  IInv'
<1>1. Sound(live, real_obj_size, small_memory_buffers, lists', memory', free_list',
            obj_counter', pages', held')
  <2>1. Sound(live, real_obj_size, small_memory_buffers, lists, memory, free_list,
              obj_counter, pages, held)
    BY DEF IInv
  <2> DEFINE max == MaximumObjects(real_obj_size[c])
  <2>2. CASE TakeFrom(c, max, lists, pages, x)
    BY <2>1, <2>2, TakeInv
  <2>3. CASE Grow(c, max, lists, pages, x)
    BY <2>1, <2>3, GrowInv
  <2>4. CASE FailToGrow(c, lists, pages)
    BY <2>1, <2>4, FailInv
  <2> QED
    BY <2>2, <2>3, <2>4 DEF AllocFrom
<1>2. growth_indicator' \in [Chunks -> -1..1] /\ outcome' \in {"ok", "fault", "overrun"}
  BY GrowthInv DEF IInv, AllocFrom
<1>3. /\ live' = live /\ real_obj_size' = real_obj_size
      /\ small_memory_buffers' = small_memory_buffers /\ caches' = caches
      /\ id_obj' = id_obj /\ id_buff' = id_buff
  BY DEF tableVars
<1>4. Tabled(live', small_memory_buffers', caches', id_obj', id_buff')
  BY <1>3 DEF IInv
<1> QED
  BY <1>1, <1>2, <1>3, <1>4 DEF IInv

(* A cache with a number of its own in the table. *)
LEMMA TabledMore ==
  ASSUME NEW L \in SUBSET Chunks, NEW B, NEW T, NEW io, NEW ib, Tabled(L, B, T, io, ib),
         NEW c \in Chunks, c \notin L, NEW i \in 0..(TableSize - 1),
         NEW io2 \in FirstObj..TableSize, NEW ib2 \in 0..TableSize
  PROVE  /\ Tabled(L \cup {c}, B, [T EXCEPT ![i] = c], io2, ib2)
         /\ \A e \in Buffers : B[e] = None =>
              Tabled(L \cup {c}, [B EXCEPT ![e] = c], [T EXCEPT ![i] = c, ![e] = c], io2, ib2)
<1>1. /\ B \in [Buffers -> L \cup {None}] /\ T \in [0..(TableSize - 1) -> L \cup {None}]
      /\ \A d \in L : (\A e \in Buffers : B[e] # d) =>
           \A j, k \in 0..(TableSize - 1) : T[j] = d /\ T[k] = d => j = k
  BY DEF Tabled
<1>2. c # None
  BY NoneIsNoChunk
<1>3. Tabled(L \cup {c}, B, [T EXCEPT ![i] = c], io2, ib2)
  <2> DEFINE T2 == [T EXCEPT ![i] = c]
  <2>1. T2 \in [0..(TableSize - 1) -> (L \cup {c}) \cup {None}]
    BY <1>1
  <2>2. \A j \in 0..(TableSize - 1) : T2[j] = c <=> j = i
    BY <1>1, <1>2
  <2>3. \A d \in L : \A j \in 0..(TableSize - 1) : T2[j] = d => T[j] = d
    BY <1>1
  <2> HIDE DEF T2
  <2>4. \A d \in L \cup {c} : (\A e \in Buffers : B[e] # d) =>
           \A j, k \in 0..(TableSize - 1) : T2[j] = d /\ T2[k] = d => j = k
    BY <1>1, <2>2, <2>3
  <2>5. B \in [Buffers -> (L \cup {c}) \cup {None}]
    BY <1>1
  <2> QED
    BY <2>1, <2>4, <2>5 DEF Tabled, T2
<1>4. ASSUME NEW e \in Buffers, B[e] = None
      PROVE  Tabled(L \cup {c}, [B EXCEPT ![e] = c], [T EXCEPT ![i] = c, ![e] = c], io2, ib2)
  <2> DEFINE T2 == [T EXCEPT ![i] = c, ![e] = c]
             B2 == [B EXCEPT ![e] = c]
  <2>0. e \in 0..(TableSize - 1)
    BY SlabAssumption DEF SlabAssumption, Buffers
  <2>1. T2 \in [0..(TableSize - 1) -> (L \cup {c}) \cup {None}]
    BY <1>1, <2>0
  <2>2. /\ B2 \in [Buffers -> (L \cup {c}) \cup {None}] /\ B2[e] = c
        /\ \A g \in Buffers : g # e => B2[g] = B[g]
    BY <1>1
  <2>3. \A d \in L : \A j \in 0..(TableSize - 1) : T2[j] = d => T[j] = d
    BY <1>1, <2>0
  <2> HIDE DEF T2, B2
  <2>4. ASSUME NEW d \in L \cup {c}, \A g \in Buffers : B2[g] # d,
               NEW j \in 0..(TableSize - 1), NEW k \in 0..(TableSize - 1), T2[j] = d, T2[k] = d
        PROVE  j = k
    <3>1. d # c /\ d \in L /\ d # None
      BY <2>2, <2>4, NoneIsNoChunk
    <3>2. \A g \in Buffers : B[g] # d
      BY <1>4, <2>2, <2>4, <3>1
    <3> QED
      BY <1>1, <2>3, <2>4, <3>1, <3>2
  <2> QED
    BY <2>1, <2>2, <2>4 DEF Tabled, T2, B2
<1> QED
  BY <1>3, <1>4

(* kmem_cache_create. *)
LEMMA CreateInv ==
  ASSUME IInv, NEW size \in Sizes, NEW hasCtor \in BOOLEAN, Create(size, hasCtor)
  PROVE  IInv'
<1> DEFINE i == IF hasCtor THEN id_obj ELSE id_buff
<1>1. PICK c \in BuddyAlloc(pages) :
        /\ i < TableSize
        /\ live' = live \cup {c}
        /\ real_obj_size' = [real_obj_size EXCEPT ![c] = size]
        /\ lists' = [lists EXCEPT ![c] = NoSlabs]
        /\ growth_indicator' = [growth_indicator EXCEPT ![c] = -1]
        /\ caches' = [caches EXCEPT ![i] = c]
        /\ pages' = pages \cup {c}
  BY DEF Create
<1>2. /\ IF hasCtor THEN id_obj' = id_obj + 1 /\ id_buff' = id_buff
                    ELSE id_buff' = id_buff + 1 /\ id_obj' = id_obj
      /\ small_memory_buffers' = small_memory_buffers /\ memory' = memory
      /\ free_list' = free_list /\ obj_counter' = obj_counter /\ held' = held
      /\ outcome' = outcome
  BY DEF Create
<1>3. c \in Chunks /\ c \notin pages
  BY BuddyAllocIs
<1>4. /\ Sound(live, real_obj_size, small_memory_buffers, lists, memory, free_list, obj_counter,
               pages, held)
      /\ Tabled(live, small_memory_buffers, caches, id_obj, id_buff)
      /\ growth_indicator \in [Chunks -> -1..1] /\ outcome \in {"ok", "fault", "overrun"}
  BY DEF IInv
<1>5. Sound(live', real_obj_size', small_memory_buffers', lists', memory', free_list',
            obj_counter', pages', held')
  <2>1. size \in Nat
    BY SlabAssumption DEF SlabAssumption
  <2>2. Sound(live \cup {c}, [real_obj_size EXCEPT ![c] = size], small_memory_buffers,
              [lists EXCEPT ![c] = NoSlabs], memory, free_list, obj_counter, pages \cup {c},
              held)
    BY <1>3, <1>4, <2>1, NewCache
  <2> QED
    BY <1>1, <1>2, <2>2
<1>6. Tabled(live', small_memory_buffers', caches', id_obj', id_buff')
  <2>1. id_obj \in FirstObj..TableSize /\ id_buff \in 0..TableSize
    BY <1>4 DEF Tabled
  <2>2. FirstObj \in Nat /\ TableSize \in Nat
    BY SlabAssumption DEF SlabAssumption
  <2>3. i \in 0..(TableSize - 1)
    BY <1>1, <2>1, <2>2
  <2>4. id_obj' \in FirstObj..TableSize /\ id_buff' \in 0..TableSize
    BY <1>1, <1>2, <2>1, <2>2
  <2>5. live \in SUBSET Chunks /\ c \notin live
    BY <1>3, <1>4 DEF Sound, Typed, Paged
  <2> HIDE DEF i
  <2>6. Tabled(live \cup {c}, small_memory_buffers, [caches EXCEPT ![i] = c], id_obj', id_buff')
    BY <1>3, <1>4, <2>3, <2>4, <2>5, TabledMore
  <2> QED
    BY <1>1, <1>2, <2>6
<1>7. growth_indicator' \in [Chunks -> -1..1]
  <2>1. -1 \in -1..1
    OBVIOUS
  <2> QED
    BY <1>1, <1>4, <2>1
<1>8. outcome' \in {"ok", "fault", "overrun"}
  BY <1>2, <1>4
<1> QED
  BY <1>5, <1>6, <1>7, <1>8 DEF IInv

(* kmem_cache_free and kfree. *)
LEMMA FreeToInv ==
  ASSUME IInv, NEW h \in held, NEW c \in live, FreeTo(c, h)
  PROVE  IInv'
<1> DEFINE max == MaximumObjects(real_obj_size[c])
<1>1. /\ Sound(live, real_obj_size, small_memory_buffers, lists, memory, free_list, obj_counter,
               pages, held)
      /\ Tabled(live, small_memory_buffers, caches, id_obj, id_buff)
      /\ growth_indicator \in [Chunks -> -1..1] /\ outcome \in {"ok", "fault", "overrun"}
  BY DEF IInv
<1>2. c \in live /\ lists[c] \in ListRecords
  BY <1>1 DEF Sound, Typed
<1>3. lists[c].partial = lists[c]["partial"] /\ lists[c].full = lists[c]["full"]
  OBVIOUS
<1>4. PICK s \in ToSet(lists[c]["partial"]) \cup ToSet(lists[c]["full"]) :
       /\ memory[s] = h[1]
       /\ lists' = [lists EXCEPT ![c] = ListsAfterGive(lists[c], s, obj_counter[s], max)]
       /\ obj_counter' = [obj_counter EXCEPT ![s] = obj_counter[s] - 1]
       /\ free_list' = [free_list EXCEPT ![s] = <<h[2]>> \o free_list[s]]
  BY <1>3 DEF FreeTo
<1>5. /\ held' = held \ {h} /\ growth_indicator' = growth_indicator /\ memory' = memory
      /\ pages' = pages /\ outcome' = outcome
      /\ live' = live /\ real_obj_size' = real_obj_size
      /\ small_memory_buffers' = small_memory_buffers /\ caches' = caches
      /\ id_obj' = id_obj /\ id_buff' = id_buff
  BY DEF FreeTo, tableVars
<1>6. Sound(live, real_obj_size, small_memory_buffers,
            [lists EXCEPT ![c] = ListsAfterGive(lists[c], s, obj_counter[s], max)], memory,
            [free_list EXCEPT ![s] = <<h[2]>> \o free_list[s]],
            [obj_counter EXCEPT ![s] = obj_counter[s] - 1], pages, held \ {h})
  <2>1. h[1] = memory[s] /\ h \in held
    BY <1>4
  <2>2. Sound(live, real_obj_size, small_memory_buffers, lists, memory, free_list, obj_counter,
              pages, held)
    BY <1>1
  <2> QED
    BY <1>2, <2>1, <2>2, GiveObject
<1> HIDE DEF max
<1>7. Sound(live', real_obj_size', small_memory_buffers', lists', memory', free_list',
            obj_counter', pages', held')
  BY <1>4, <1>5, <1>6
<1> QED
  BY <1>1, <1>5, <1>7 DEF IInv

(* kmem_cache_shrink. *)
LEMMA ShrinkInv ==
  ASSUME IInv, NEW c \in live, Shrink(c)
  PROVE  IInv'
<1>1. /\ Sound(live, real_obj_size, small_memory_buffers, lists, memory, free_list, obj_counter,
               pages, held)
      /\ Tabled(live, small_memory_buffers, caches, id_obj, id_buff)
      /\ growth_indicator \in [Chunks -> -1..1] /\ outcome \in {"ok", "fault", "overrun"}
  BY DEF IInv
<1>2. lists[c].empty = lists[c]["empty"]
  OBVIOUS
<1>3. /\ pages' = pages \ UNION {{s, memory[s]} : s \in ToSet(lists[c]["empty"])}
      /\ lists' = [lists EXCEPT ![c] = WithoutEmpty(lists[c])]
  BY <1>2 DEF Shrink
<1>4. /\ held' = held /\ memory' = memory /\ free_list' = free_list
      /\ obj_counter' = obj_counter /\ outcome' = outcome
      /\ live' = live /\ real_obj_size' = real_obj_size
      /\ small_memory_buffers' = small_memory_buffers /\ caches' = caches
      /\ id_obj' = id_obj /\ id_buff' = id_buff
  BY DEF Shrink, tableVars
<1>5. growth_indicator' \in [Chunks -> -1..1]
  <2>1. growth_indicator' = [growth_indicator EXCEPT ![c] = IF growth_indicator[c] = 1 THEN 1 ELSE 0]
    BY DEF Shrink
  <2>2. 0 \in -1..1 /\ 1 \in -1..1
    OBVIOUS
  <2> QED
    BY <1>1, <2>1, <2>2
<1>6. Sound(live, real_obj_size, small_memory_buffers,
            [lists EXCEPT ![c] = WithoutEmpty(lists[c])], memory, free_list, obj_counter,
            pages \ UNION {{s, memory[s]} : s \in ToSet(lists[c]["empty"])}, held)
  BY <1>1, ShrinkCache
<1>7. Sound(live', real_obj_size', small_memory_buffers', lists', memory', free_list',
            obj_counter', pages', held')
  BY <1>3, <1>4, <1>6
<1> QED
  BY <1>1, <1>4, <1>5, <1>7 DEF IInv

(* kmem_cache_destroy: the entry it clears is the only one of the cache. *)
LEMMA DestroyInv ==
  ASSUME IInv, NEW c \in UserCaches, Destroy(c)
  PROVE  IInv'
<1>1. /\ Sound(live, real_obj_size, small_memory_buffers, lists, memory, free_list, obj_counter,
               pages, held)
      /\ Tabled(live, small_memory_buffers, caches, id_obj, id_buff)
      /\ growth_indicator \in [Chunks -> -1..1] /\ outcome \in {"ok", "fault", "overrun"}
  BY DEF IInv
<1>2. c \in live /\ \A e \in Buffers : small_memory_buffers[e] # c
  BY DEF UserCaches
<1>3. /\ caches' = CachesWithout(c)
      /\ pages' = pages \ ({c} \cup UNION {{s, memory[s]} : s \in Slabs(lists[c])})
      /\ live' = live \ {c}
      /\ held' = {h \in held : h[3] # <<"cache", c>>}
      /\ lists' = lists /\ growth_indicator' = growth_indicator /\ memory' = memory
      /\ free_list' = free_list /\ obj_counter' = obj_counter
      /\ real_obj_size' = real_obj_size /\ small_memory_buffers' = small_memory_buffers
      /\ id_obj' = id_obj /\ id_buff' = id_buff /\ outcome' = outcome
  BY DEF Destroy
<1>4. Sound(live \ {c}, real_obj_size, small_memory_buffers, lists, memory, free_list,
            obj_counter, pages \ ({c} \cup UNION {{s, memory[s]} : s \in Slabs(lists[c])}),
            {h \in held : h[3] # <<"cache", c>>})
  BY <1>1, <1>2, DestroyCache
<1>5. Tabled(live \ {c}, small_memory_buffers, CachesWithout(c), id_obj, id_buff)
  <2> DEFINE at == {i \in DOMAIN caches : caches[i] = c}
             T2 == CachesWithout(c)
             Places == 0..(TableSize - 1)
  <2>1. /\ small_memory_buffers \in [Buffers -> live \cup {None}]
        /\ caches \in [Places -> live \cup {None}]
        /\ \A d \in live : (\A e \in Buffers : small_memory_buffers[e] # d) =>
             \A i, j \in Places : caches[i] = d /\ caches[j] = d => i = j
        /\ id_obj \in FirstObj..TableSize /\ id_buff \in 0..TableSize
    BY <1>1 DEF Tabled
  <2>2. T2 \in [Places -> live \cup {None}]
        /\ \A i \in Places : T2[i] # c /\ (T2[i] = caches[i] \/ T2[i] = None)
    <3>1. CASE at = {}
      <4>1. T2 = caches /\ \A i \in Places : caches[i] # c
        BY <2>1, <3>1 DEF CachesWithout
      <4> QED
        BY <2>1, <4>1
    <3>2. CASE at # {}
      <4>1. at \in SUBSET Nat
        BY <2>1
      <4>2. Min(at) \in at
        BY <3>2, <4>1, MinOfNats
      <4> DEFINE m == Min(at)
      <4>3. T2 = [caches EXCEPT ![m] = None]
        BY <3>2 DEF CachesWithout
      <4>4. m \in Places /\ caches[m] = c
        BY <2>1, <4>2
      <4> HIDE DEF m, T2
      <4>5. \A i \in Places : caches[i] = c => i = m
        BY <1>2, <2>1, <4>4
      <4>6. c # None
        BY <1>1, <1>2, NoneIsNoChunk DEF Sound, Typed
      <4> QED
        BY <2>1, <4>3, <4>4, <4>5, <4>6
    <3> QED
      BY <3>1, <3>2
  <2> HIDE DEF T2
  <2>3. T2 \in [Places -> (live \ {c}) \cup {None}]
    BY <2>2
  <2>4. small_memory_buffers \in [Buffers -> (live \ {c}) \cup {None}]
    BY <1>2, <2>1
  <2>5. \A d \in live \ {c} : (\A e \in Buffers : small_memory_buffers[e] # d) =>
             \A i, j \in Places : T2[i] = d /\ T2[j] = d => i = j
    <3>1. \A d \in live : d # None
      BY <1>1, NoneIsNoChunk DEF Sound, Typed
    <3>2. \A d \in live : \A i \in Places : T2[i] = d => caches[i] = d
      BY <2>2, <3>1
    <3> QED
      BY <2>1, <3>2
  <2> QED
    BY <2>1, <2>3, <2>4, <2>5 DEF Tabled, T2
<1>6. Sound(live', real_obj_size', small_memory_buffers', lists', memory', free_list',
            obj_counter', pages', held')
  BY <1>3, <1>4
<1>7. Tabled(live', small_memory_buffers', caches', id_obj', id_buff')
  BY <1>3, <1>5
<1>8. growth_indicator' \in [Chunks -> -1..1] /\ outcome' \in {"ok", "fault", "overrun"}
  BY <1>1, <1>3
<1> QED
  BY <1>6, <1>7, <1>8 DEF IInv

(* kmalloc. *)
LEMMA KmallocInv ==
  ASSUME IInv, NEW bytes \in Requests, Kmalloc(bytes)
  PROVE  IInv'
<1> DEFINE e == EntryFor(bytes)
           size == MinBuffer * Power[e]
           x == <<"entry", e, bytes>>
           B == small_memory_buffers
<1>1. /\ Sound(live, real_obj_size, B, lists, memory, free_list, obj_counter, pages, held)
      /\ Tabled(live, B, caches, id_obj, id_buff)
      /\ growth_indicator \in [Chunks -> -1..1] /\ outcome \in {"ok", "fault", "overrun"}
  BY DEF IInv
<1>2. /\ B \in [Buffers -> live \cup {None}] /\ caches \in [0..(TableSize - 1) -> live \cup {None}]
      /\ id_obj \in FirstObj..TableSize /\ id_buff \in 0..TableSize
  BY <1>1 DEF Tabled
<1>3. ASSUME e \in Buffers
      PROVE  (\A L : x \in Holders(L)) /\ \A B2 : CacheOf(x, B2) = B2[e]
  <2> HIDE DEF e
  <2>1. x[1] = "entry" /\ x[2] = e /\ x \in {"entry"} \X Buffers \X Requests
    BY <1>3
  <2> QED
    BY <2>1 DEF Holders, CacheOf
<1>4. CASE /\ e \in Buffers /\ B[e] # None
           /\ AllocFrom(B[e], x) /\ UNCHANGED tableVars
  <2>1. B[e] \in live /\ x \in Holders(live) /\ CacheOf(x, B) = B[e]
    BY <1>2, <1>3, <1>4
  <2> QED
    BY <1>4, <2>1, AllocInv
<1>5. CASE /\ e \in Buffers /\ B[e] = None /\ id_buff < TableSize
           /\ \E c \in BuddyAlloc(pages) :
                /\ live' = live \cup {c}
                /\ real_obj_size' = [real_obj_size EXCEPT ![c] = size]
                /\ small_memory_buffers' = [small_memory_buffers EXCEPT ![e] = c]
                /\ caches' = [caches EXCEPT ![id_buff] = c, ![e] = c]
                /\ LET ls == [lists EXCEPT ![c] = NoSlabs]
                   IN  \/ Grow(c, MaximumObjects(size), ls, pages \cup {c}, x)
                       \/ FailToGrow(c, ls, pages \cup {c})
           /\ id_buff' = id_buff + 1
           /\ UNCHANGED id_obj
  <2>1. PICK c \in BuddyAlloc(pages) :
                /\ live' = live \cup {c}
                /\ real_obj_size' = [real_obj_size EXCEPT ![c] = size]
                /\ small_memory_buffers' = [small_memory_buffers EXCEPT ![e] = c]
                /\ caches' = [caches EXCEPT ![id_buff] = c, ![e] = c]
                /\ LET ls == [lists EXCEPT ![c] = NoSlabs]
                   IN  \/ Grow(c, MaximumObjects(size), ls, pages \cup {c}, x)
                       \/ FailToGrow(c, ls, pages \cup {c})
    BY <1>5
  <2> DEFINE ls == [lists EXCEPT ![c] = NoSlabs]
             L2 == live \cup {c}
             R2 == [real_obj_size EXCEPT ![c] = size]
             B2 == [B EXCEPT ![e] = c]
             used == pages \cup {c}
  <2>2. c \in Chunks /\ c \notin pages
    BY BuddyAllocIs
  <2>3. size \in Nat
    <3>1. e \in Nat
      BY <1>5 DEF Buffers
    <3>2. MinBuffer \in Nat /\ Power[e] \in Nat
      BY <3>1, PowerIs, SlabAssumption DEF SlabAssumption
    <3> QED
      BY <3>2
  <2>4. \A g \in Buffers : B[g] # None => B2[g] = B[g]
    BY <1>2, <1>5
  <2>5. B2[e] = c
    BY <1>2, <1>5
  <2>6. R2[c] = size
    BY <1>1, <2>2 DEF Sound, Typed
  <2>7. live' = L2 /\ real_obj_size' = R2 /\ small_memory_buffers' = B2
    BY <2>1
  <2> HIDE DEF size, e
  <2>8. Sound(L2, R2, B2, ls, memory, free_list, obj_counter, used, held)
    <3> HIDE DEF B2
    <3> QED
      BY <1>1, <2>2, <2>3, <2>4, NewCache
  <2>9. c \in L2 /\ x \in Holders(L2) /\ CacheOf(x, B2) = c
    BY <1>3, <1>5, <2>5
  <2> DEFINE max == MaximumObjects(R2[c])
  <2>10. \/ Grow(c, max, ls, used, x)
         \/ FailToGrow(c, ls, used)
    BY <2>1, <2>6
  <2> HIDE DEF L2, R2, B2, ls, used, x
  <2>11. Sound(L2, R2, B2, lists', memory', free_list', obj_counter', pages', held')
    <3>1. CASE Grow(c, max, ls, used, x)
      BY <2>8, <2>9, <3>1, GrowInv
    <3>2. CASE FailToGrow(c, ls, used)
      BY <2>8, <3>2, FailInv
    <3> QED
      BY <2>10, <3>1, <3>2
  <2>12. growth_indicator' \in [Chunks -> -1..1] /\ outcome' \in {"ok", "fault", "overrun"}
    <3> HIDE DEF max
    <3> QED
      BY <1>1, <2>10, GrowthInv
  <2>13. Tabled(live', small_memory_buffers', caches', id_obj', id_buff')
    <3>1. id_buff \in 0..(TableSize - 1) /\ id_obj' \in FirstObj..TableSize
          /\ id_buff' \in 0..TableSize
      BY <1>2, <1>5, SlabAssumption DEF SlabAssumption
    <3>2. live \in SUBSET Chunks /\ c \notin live
      BY <1>1, <2>2 DEF Sound, Typed, Paged
    <3>3. Tabled(live \cup {c}, [B EXCEPT ![e] = c], [caches EXCEPT ![id_buff] = c, ![e] = c],
                 id_obj', id_buff')
      BY <1>1, <1>5, <2>2, <3>1, <3>2, TabledMore
    <3> QED
      BY <2>1, <3>3
  <2> QED
    BY <2>7, <2>11, <2>12, <2>13 DEF IInv
<1>6. CASE /\ e \in Buffers /\ B[e] = None
           /\ caches' = [caches EXCEPT ![e] = None]
           /\ outcome' = "fault"
           /\ UNCHANGED <<slabVars, live, real_obj_size, small_memory_buffers, id_obj, id_buff>>
  <2>1. /\ lists' = lists /\ growth_indicator' = growth_indicator /\ memory' = memory
        /\ free_list' = free_list /\ obj_counter' = obj_counter /\ pages' = pages
        /\ held' = held /\ live' = live /\ real_obj_size' = real_obj_size
        /\ small_memory_buffers' = B /\ id_obj' = id_obj /\ id_buff' = id_buff
    BY <1>6 DEF slabVars
  <2>2. Tabled(live, B, caches', id_obj, id_buff)
    <3> DEFINE T2 == [caches EXCEPT ![e] = None]
               Places == 0..(TableSize - 1)
    <3>1. T2 \in [Places -> live \cup {None}]
      BY <1>2
    <3>2. \A d \in live : \A i \in Places : T2[i] = d => caches[i] = d
      <4>1. \A d \in live : d # None
        BY <1>1, NoneIsNoChunk DEF Sound, Typed
      <4> HIDE DEF e
      <4> QED
        BY <1>2, <4>1
    <3>3. caches' = T2
      BY <1>6
    <3> HIDE DEF T2
    <3> QED
      BY <1>1, <3>1, <3>2, <3>3 DEF Tabled
  <2> QED
    BY <1>1, <1>6, <2>1, <2>2 DEF IInv
<1>7. CASE /\ e \notin Buffers /\ outcome' = "overrun" /\ UNCHANGED <<slabVars, tableVars>>
  <2>1. /\ lists' = lists /\ growth_indicator' = growth_indicator /\ memory' = memory
        /\ free_list' = free_list /\ obj_counter' = obj_counter /\ pages' = pages
        /\ held' = held /\ live' = live /\ real_obj_size' = real_obj_size
        /\ small_memory_buffers' = B /\ id_obj' = id_obj /\ id_buff' = id_buff
        /\ caches' = caches
    BY <1>7 DEF slabVars, tableVars
  <2> QED
    BY <1>1, <1>7, <2>1 DEF IInv
<1> QED
  BY <1>4, <1>5, <1>6, <1>7 DEF Kmalloc

(* Every step keeps the invariant. *)
LEMMA StepInv == IInv /\ [Next]_vars => IInv'
<1> SUFFICES ASSUME IInv, [Next]_vars PROVE IInv'
  OBVIOUS
<1>1. ASSUME NEW size \in Sizes, NEW hasCtor \in BOOLEAN, Create(size, hasCtor) PROVE IInv'
  BY <1>1, CreateInv
<1>2. CASE outcome' \in {"ok", "fault", "overrun"} /\ UNCHANGED <<slabVars, tableVars>>
  <2>1. /\ lists' = lists /\ growth_indicator' = growth_indicator /\ memory' = memory
        /\ free_list' = free_list /\ obj_counter' = obj_counter /\ pages' = pages
        /\ held' = held /\ live' = live /\ real_obj_size' = real_obj_size
        /\ small_memory_buffers' = small_memory_buffers
        /\ id_obj' = id_obj /\ id_buff' = id_buff /\ caches' = caches
    BY <1>2 DEF slabVars, tableVars
  <2> QED
    BY <1>2, <2>1 DEF IInv
<1>3. ASSUME NEW c \in UserCaches, Alloc(c) PROVE IInv'
  <2>1. c \in live
    BY DEF UserCaches
  <2> DEFINE x == <<"cache", c>>
  <2>2. x \in Holders(live) /\ CacheOf(x, small_memory_buffers) = c
    BY <2>1 DEF Holders, CacheOf
  <2>3. AllocFrom(c, x) /\ UNCHANGED tableVars
    BY <1>3 DEF Alloc
  <2> HIDE DEF x
  <2> QED
    BY <2>1, <2>2, <2>3, AllocInv
<1>4. ASSUME NEW c \in UserCaches, Shrink(c) PROVE IInv'
  BY <1>4, ShrinkInv DEF UserCaches
<1>5. ASSUME NEW c \in UserCaches, Destroy(c) PROVE IInv'
  BY <1>5, DestroyInv
<1>6. ASSUME NEW bytes \in Requests, Kmalloc(bytes) PROVE IInv'
  BY <1>6, KmallocInv
<1>7. ASSUME NEW h \in held, Free(h) \/ Kfree(h) PROVE IInv'
  <2>1. CacheOf(h[3], small_memory_buffers) \in live /\ h[3] \in Holders(live)
    BY DEF IInv, Sound, Owned
  <2>2. FreeTo(CacheOf(h[3], small_memory_buffers), h)
    <3>1. CASE Free(h)
      BY <3>1 DEF Free, CacheOf
    <3>2. CASE Kfree(h)
      BY <3>2 DEF Kfree, CacheOf
    <3> QED
      BY <1>7, <3>1, <3>2
  <2> QED
    BY <2>1, <2>2, FreeToInv
<1>8. CASE CreateOverruns
  <2>1. outcome' = "overrun" /\ UNCHANGED <<slabVars, tableVars>>
    BY <1>8 DEF CreateOverruns
  <2> QED
    BY <1>2, <2>1
<1>9. CASE UNCHANGED vars
  <2>1. outcome' = outcome /\ UNCHANGED <<slabVars, tableVars>>
    BY <1>9 DEF vars
  <2> QED
    BY <1>2, <2>1 DEF IInv
<1> QED
  BY <1>1, <1>3, <1>4, <1>5, <1>6, <1>7, <1>8, <1>9 DEF Next

-------------------------------------------------------------------------------
(* The invariant holds in every reachable state. *)
THEOREM SpecInv == Spec => []IInv
<1>1. Init => IInv
  BY InitInv
<1>2. IInv /\ [Next]_vars => IInv'
  BY StepInv
<1> QED
  BY <1>1, <1>2, PTL DEF Spec

(* What the parts say of a slab of a cache. *)
LEMMA SlabParts ==
  ASSUME IInv, NEW c \in live, NEW s \in SlabsOf(c)
  PROVE  /\ s \in Chunks /\ memory[s] \in Chunks
         /\ Objects(memory[s], free_list[s], obj_counter[s], MaxIn(c), held)
         /\ MaxIn(c) \in Nat
<1>1. /\ Typed(live, real_obj_size, lists, memory, free_list, obj_counter)
      /\ Paged(live, lists, memory, pages)
      /\ Stocked(live, real_obj_size, lists, memory, free_list, obj_counter, held)
  BY DEF IInv, Sound
<1>2. s \in Slabs(lists[c])
  BY DEF SlabsOf
<1>3. s \in Chunks /\ memory[s] \in Chunks
  BY <1>1, <1>2 DEF Paged
<1>4. MaximumObjects(real_obj_size[c]) \in Nat
  <2>1. real_obj_size[c] \in Nat
    BY <1>1 DEF Typed
  <2> QED
    BY <2>1, RoomInSlab
<1> QED
  BY <1>1, <1>2, <1>3, <1>4 DEF Stocked, MaxIn

(* The caches, the slabs, the objects and the table have their types. *)
THEOREM TypeCorrect == Spec => []TypeOK
<1>1. IInv => TypeOK
  <2> SUFFICES ASSUME IInv PROVE TypeOK
    OBVIOUS
  <2>1. /\ Typed(live, real_obj_size, lists, memory, free_list, obj_counter)
        /\ Paged(live, lists, memory, pages)
        /\ Owned(live, small_memory_buffers, lists, memory, held)
    BY DEF IInv, Sound
  <2>2. live \subseteq pages /\ pages \subseteq Chunks
    <3>1. \A x \in live : x \in pages
      BY <2>1 DEF Paged
    <3>2. ASSUME NEW x \in pages PROVE x \in Chunks
      <4>1. CASE x \in live
        BY <2>1, <4>1 DEF Typed
      <4>2. CASE x \notin live
        <5>1. PICK c \in live : \E s \in Slabs(lists[c]) : x = s \/ x = memory[s]
          BY <2>1, <4>2 DEF Paged
        <5> QED
          BY <2>1, <5>1 DEF Paged
      <4> QED
        BY <4>1, <4>2
    <3> QED
      BY <3>1, <3>2
  <2>3. /\ real_obj_size \in [Chunks -> Nat] /\ memory \in [Chunks -> Chunks \cup {None}]
        /\ lists \in [Chunks -> ListRecords]
    BY <2>1 DEF Typed
  <2>4. ASSUME NEW c \in live, NEW s \in SlabsOf(c)
        PROVE  free_list[s] \in Seq(1..MaxIn(c)) /\ obj_counter[s] \in 0..MaxIn(c)
    <3> DEFINE f == free_list[s]
               n == obj_counter[s]
               max == MaxIn(c)
    <3>1. f \in Seq(1..max) /\ n \in Nat /\ n + Len(f) = max /\ max \in Nat
      BY SlabParts DEF Objects
    <3> HIDE DEF f, n, max
    <3>2. Len(f) \in Nat
      BY <3>1, LenProperties
    <3>3. n \in 0..max
      BY <3>1, <3>2
    <3> QED
      BY <3>1, <3>3 DEF f, n, max
  <2>5. /\ small_memory_buffers \in [Buffers -> live \cup {None}]
        /\ caches \in [0..(TableSize - 1) -> live \cup {None}]
        /\ id_obj \in FirstObj..TableSize /\ id_buff \in 0..TableSize
    BY DEF IInv, Tabled
  <2>6. caches \in [0..(TableSize - 1) -> Chunks \cup {None}]
    BY <2>1, <2>5 DEF Typed
  <2>7. ASSUME NEW h \in held
        PROVE  /\ h[1] \in Chunks
               /\ h[3] \in ({"cache"} \X live) \cup ({"entry"} \X Buffers \X Requests)
    <3> DEFINE c == CacheOf(h[3], small_memory_buffers)
    <3>1. h[3] \in Holders(live) /\ c \in live /\ \E s \in Slabs(lists[c]) : memory[s] = h[1]
      BY <2>1 DEF Owned
    <3> HIDE DEF c
    <3>2. \A s \in Slabs(lists[c]) : memory[s] \in Chunks
      BY <2>1, <3>1 DEF Paged
    <3> QED
      BY <3>1, <3>2 DEF Holders
  <2>8. growth_indicator \in [Chunks -> -1..1] /\ outcome \in {"ok", "fault", "overrun"}
    BY DEF IInv
  <2> QED
    BY <2>2, <2>3, <2>4, <2>5, <2>6, <2>7, <2>8 DEF TypeOK, ListRecords
<1> QED
  BY <1>1, SpecInv, PTL

(* Every object of every slab is handed out to one caller or free, and the  *)
(* counter counts (kmem_cache_alloc, kmem_cache_free).                      *)
THEOREM ObjectsAlwaysConserved == Spec => []ObjectsConserved
<1>1. IInv => ObjectsConserved
  <2> SUFFICES ASSUME IInv, NEW c \in live, NEW s \in SlabsOf(c)
               PROVE  Conserved(s, MaxIn(c))
    BY DEF ObjectsConserved
  <2>1. Objects(memory[s], free_list[s], obj_counter[s], MaxIn(c), held)
    BY SlabParts
  <2>2. HeldIn(s) = ObjectsOf(memory[s], held)
    BY DEF HeldIn, ObjectsOf, HeldOf
  <2> QED
    BY <2>1, <2>2 DEF Objects, Conserved, HeldOf
<1> QED
  BY <1>1, SpecInv, PTL

(* A slab is in one list, once, and in that of its counter. *)
THEOREM AlwaysListedByCounter == Spec => []ListedByCounter
<1>1. IInv => ListedByCounter
  <2> SUFFICES ASSUME IInv, NEW c \in live
               PROVE  /\ IsInjective(InOrder(c))
                      /\ \A s \in ToSet(lists[c].empty) : obj_counter[s] = 0
                      /\ \A s \in ToSet(lists[c].partial) : obj_counter[s] \in 1..(MaxIn(c) - 1)
                      /\ \A s \in ToSet(lists[c].full) : obj_counter[s] = MaxIn(c)
    BY DEF ListedByCounter
  <2> DEFINE e == lists[c]["empty"]
             p == lists[c]["partial"]
             f == lists[c]["full"]
  <2>1. ByCounter(lists[c], obj_counter, MaxIn(c))
    BY DEF IInv, Sound, Listed, MaxIn
  <2>2. lists[c].empty = e /\ lists[c].partial = p /\ lists[c].full = f
    OBVIOUS
  <2>3. e \in Seq(Chunks) /\ p \in Seq(Chunks) /\ f \in Seq(Chunks)
    BY <2>1, RecordFields DEF ByCounter, Kinds
  <2>4. /\ IsInjective(e) /\ IsInjective(p) /\ IsInjective(f)
        /\ ToSet(e) \cap ToSet(p) = {} /\ ToSet(e) \cap ToSet(f) = {} /\ ToSet(p) \cap ToSet(f) = {}
    BY <2>1 DEF ByCounter, Once, Kinds
  <2>5. /\ \A s \in ToSet(e) : obj_counter[s] = 0
        /\ \A s \in ToSet(p) : obj_counter[s] \in 1..(MaxIn(c) - 1)
        /\ \A s \in ToSet(f) : obj_counter[s] = MaxIn(c)
    BY <2>1 DEF ByCounter
  <2> HIDE DEF e, p, f
  <2>6. IsInjective((e \o p) \o f)
    <3>1. e \o p \in Seq(Chunks) /\ ToSet(e \o p) = ToSet(e) \cup ToSet(p) /\ IsInjective(e \o p)
      BY <2>3, <2>4, ConcatList
    <3> DEFINE ep == e \o p
    <3>2. ep \in Seq(Chunks) /\ IsInjective(ep) /\ ToSet(ep) \cap ToSet(f) = {}
      BY <2>4, <3>1
    <3> HIDE DEF ep
    <3>3. IsInjective(ep \o f)
      BY <2>3, <2>4, <3>2, ConcatList
    <3> QED
      BY <3>3 DEF ep
  <2> QED
    BY <2>2, <2>5, <2>6 DEF InOrder
<1> QED
  BY <1>1, SpecInv, PTL

(* Every chunk of the buddy allocator is a cache, a slab or the memory of   *)
(* one slab, and none is lost (slabInit, kmem_cache_shrink,                 *)
(* kmem_cache_destroy).                                                     *)
THEOREM AlwaysPagesAccounted == Spec => []PagesAccounted
<1>1. IInv => PagesAccounted
  <2> SUFFICES ASSUME IInv PROVE PagesAccounted
    OBVIOUS
  <2>1. /\ live \subseteq Chunks
        /\ \A c \in live : \A s \in SlabsOf(c) : s \in Chunks \ live /\ memory[s] \in Chunks \ live
        /\ \A c, d \in live : \A s \in SlabsOf(c), r \in SlabsOf(d) :
             memory[s] # r /\ (s = r => c = d) /\ (memory[s] = memory[r] => s = r)
        /\ \A x : x \in pages <=> \/ x \in live
                                  \/ \E c \in live : \E s \in SlabsOf(c) : x = s \/ x = memory[s]
    BY DEF IInv, Sound, Typed, Paged, SlabsOf
  <2>2. \A s : s \in AllSlabs <=> \E c \in live : s \in SlabsOf(c)
    BY DEF AllSlabs
  <2> DEFINE mems == {memory[s] : s \in AllSlabs}
  <2>3. pages = live \cup AllSlabs \cup mems
    BY <2>1, <2>2
  <2>4. \A c, d \in live : c # d => SlabsOf(c) \cap SlabsOf(d) = {}
    BY <2>1
  <2>5. IsFiniteSet(live) /\ IsFiniteSet(AllSlabs)
    <3>1. IsFiniteSet(Chunks)
      <4>1. 1 \in Int /\ NumChunks \in Int
        BY SlabAssumption DEF SlabAssumption
      <4> QED
        BY <4>1, FS_Interval DEF Chunks
    <3>2. AllSlabs \subseteq Chunks
      BY <2>1, <2>2
    <3> QED
      BY <2>1, <3>1, <3>2, FS_Subset
  <2>6. IsFiniteSet(mems) /\ Cardinality(mems) = Cardinality(AllSlabs)
    <3> DEFINE f == [s \in AllSlabs |-> memory[s]]
    <3>1. f \in [AllSlabs -> mems]
      OBVIOUS
    <3>2. IsInjective(f)
      <4>1. \A s, r \in AllSlabs : f[s] = f[r] => s = r
        BY <2>1, <2>2
      <4> QED
        BY <4>1 DEF IsInjective
    <3>3. \A m \in mems : \E s \in AllSlabs : f[s] = m
      OBVIOUS
    <3> HIDE DEF f, mems
    <3>4. f \in Bijection(AllSlabs, mems)
      BY <3>1, <3>2, <3>3 DEF Bijection, Injection, Surjection
    <3>5. ExistsBijection(AllSlabs, mems)
      BY <3>4 DEF ExistsBijection
    <3> QED
      BY <2>5, <3>5, FS_Bijection
  <2>7. live \cap AllSlabs = {} /\ (live \cup AllSlabs) \cap mems = {}
    BY <2>1, <2>2
  <2> HIDE DEF mems
  <2>8. /\ IsFiniteSet(live \cup AllSlabs)
        /\ Cardinality(live \cup AllSlabs) = Cardinality(live) + Cardinality(AllSlabs)
    <3>1. Cardinality({}) = 0
      BY FS_EmptySet
    <3>2. Cardinality(live) \in Nat /\ Cardinality(AllSlabs) \in Nat
      BY <2>5, FS_CardinalityType
    <3> QED
      <4>1. /\ IsFiniteSet(live \cup AllSlabs)
            /\ Cardinality(live \cup AllSlabs)
                 = Cardinality(live) + Cardinality(AllSlabs) - Cardinality(live \cap AllSlabs)
        BY <2>5, FS_Union
      <4>2. Cardinality(live \cap AllSlabs) = 0
        BY <2>7, <3>1
      <4> DEFINE a == Cardinality(live)
                 b == Cardinality(AllSlabs)
                 z == Cardinality(live \cap AllSlabs)
      <4>3. a \in Nat /\ b \in Nat /\ z = 0
        BY <3>2, <4>2
      <4>4. Cardinality(live \cup AllSlabs) = a + b - z
        BY <4>1
      <4> HIDE DEF a, b, z
      <4>5. a + b - z = a + b
        BY <4>3
      <4> QED
        BY <4>1, <4>4, <4>5 DEF a, b
  <2>9. Cardinality(pages) = Cardinality(live) + 2 * Cardinality(AllSlabs)
    <3> DEFINE both == live \cup AllSlabs
    <3>1. IsFiniteSet(both) /\ both \cap mems = {} /\ pages = both \cup mems
      BY <2>3, <2>7, <2>8
    <3> HIDE DEF both
    <3>2. Cardinality({}) = 0
      BY FS_EmptySet
    <3>3. /\ Cardinality(live) \in Nat /\ Cardinality(AllSlabs) \in Nat
          /\ Cardinality(both) \in Nat /\ Cardinality(mems) \in Nat
      BY <2>5, <2>6, <3>1, FS_CardinalityType
    <3>4. Cardinality(pages) = Cardinality(both) + Cardinality(mems) - Cardinality({})
      BY <2>6, <3>1, FS_Union
    <3>5. Cardinality(both) = Cardinality(live) + Cardinality(AllSlabs)
      BY <2>8 DEF both
    <3> QED
      BY <2>6, <3>2, <3>3, <3>4, <3>5
  <2> QED
    BY <2>3, <2>4, <2>9 DEF PagesAccounted, mems
<1> QED
  BY <1>1, SpecInv, PTL

(* The table of caches never names a cache that has been destroyed. *)
THEOREM AlwaysTableLive == Spec => []TableLive
<1>1. IInv => TableLive
  BY DEF IInv, Tabled, TableLive
<1> QED
  BY <1>1, SpecInv, PTL

-------------------------------------------------------------------------------
(* What kmem_cache_info prints. *)

(* The counters added up so far, x[1] to x[k] after k slabs. *)
Totals(t, x, n) ==
  /\ t \in [0..n -> Nat] /\ t[0] = 0
  /\ \A k \in 1..n : t[k] = t[k - 1] + x[k]

(* obj_num is a recursive function; it exists, and adds up. *)
LEMMA ObjNumIs ==
  ASSUME NEW c, NEW n \in Nat, n = Len(InOrder(c)),
         NEW x \in [1..n -> Nat], \A k \in 1..n : x[k] = obj_counter[InOrder(c)[k]]
  PROVE  \E t : Totals(t, x, n) /\ ObjNum(c) = t[n]
<1> DEFINE slabs == InOrder(c)
           total[k \in 0..Len(slabs)] ==
             IF k = 0 THEN 0 ELSE total[k - 1] + obj_counter[slabs[k]]
           F == [p \in (1..n) \X Nat |-> p[2] + x[p[1]]]
<1>1. ObjNum(c) = total[n]
  BY DEF ObjNum
<1>2. F \in [(1..n) \X Nat -> Nat]
  OBVIOUS
<1>3. \A k \in 1..n, m \in Nat : F[<<k, m>>] = m + x[k]
  OBVIOUS
<1> HIDE DEF F
<1>4. PICK t \in Passes(Nat, n, 0, F) : TRUE
  <2>1. Passes(Nat, n, 0, F) # {}
    BY <1>2, PassesExist
  <2> QED
    BY <2>1
<1>5. /\ t \in [0..n -> Nat] /\ t[0] = 0
      /\ \A k \in 1..n : t[k] = F[<<k, t[k - 1]>>]
  BY <1>4 DEF Passes
<1>6. ASSUME NEW k \in 1..n PROVE t[k] = t[k - 1] + x[k]
  <2>1. k - 1 \in 0..n
    OBVIOUS
  <2>2. t[k - 1] \in Nat
    BY <1>5, <2>1
  <2> QED
    BY <1>3, <1>5, <2>2
<1>7. Totals(t, x, n)
  BY <1>5, <1>6 DEF Totals
<1>8. \A k \in 0..n : k = 0 \/ k \in 1..n
  OBVIOUS
<1>9. t = [k \in 0..n |-> IF k = 0 THEN 0 ELSE t[k - 1] + obj_counter[slabs[k]]]
  BY <1>5, <1>6, <1>8
<1>10. total = [k \in 0..n |-> IF k = 0 THEN 0 ELSE total[k - 1] + obj_counter[slabs[k]]]
  <2>1. t = [k \in 0..Len(slabs) |-> IF k = 0 THEN 0 ELSE t[k - 1] + obj_counter[slabs[k]]]
    BY <1>9
  <2> HIDE DEF slabs
  <2>2. total = [k \in 0..Len(slabs) |->
                   IF k = 0 THEN 0 ELSE total[k - 1] + obj_counter[slabs[k]]]
    BY <2>1
  <2> QED
    BY <2>2 DEF slabs
<1> HIDE DEF total
<1>11. \A k \in 0..n : total[k] = IF k = 0 THEN 0 ELSE total[k - 1] + obj_counter[slabs[k]]
  BY <1>10
<1>12. n \in {k \in 0..n : total[k] = t[k]}
  <2> DEFINE C == {k \in 0..n : total[k] = t[k]}
  <2>1. 0 \in C
    BY <1>5, <1>11
  <2>2. ASSUME NEW k \in 1..n, k - 1 \in C PROVE k \in C
    <3>1. k \in 0..n /\ k # 0
      OBVIOUS
    <3>2. total[k] = total[k - 1] + obj_counter[slabs[k]] /\ total[k - 1] = t[k - 1]
      BY <1>11, <2>2, <3>1
    <3> QED
      BY <1>6, <3>1, <3>2
  <2>3. C \in SUBSET (0..n)
    OBVIOUS
  <2> HIDE DEF C
  <2>4. n \in C
    BY <2>1, <2>2, <2>3, Climbs
  <2> QED
    BY <2>4 DEF C
<1> QED
  BY <1>1, <1>7, <1>12

(* Counters up to m add up to n * m at most, and to that only if all are m. *)
LEMMA TotalsBound ==
  ASSUME NEW n \in Nat, NEW m \in Nat, NEW x \in [1..n -> 0..m], NEW t, Totals(t, x, n)
  PROVE  /\ t[n] \in Nat /\ t[n] <= n * m
         /\ t[n] = n * m => \A k \in 1..n : x[k] = m
<1> DEFINE C == {k \in 0..n : /\ t[k] <= k * m
                              /\ t[k] = k * m => \A j \in 1..k : x[j] = m}
<1>1. /\ t \in [0..n -> Nat] /\ t[0] = 0
      /\ \A k \in 1..n : t[k] = t[k - 1] + x[k]
  BY DEF Totals
<1>2. 0 \in C
  BY <1>1
<1>3. ASSUME NEW k \in 1..n, k - 1 \in C PROVE k \in C
  <2>1. /\ t[k - 1] \in Nat /\ x[k] \in 0..m /\ t[k] = t[k - 1] + x[k]
        /\ k \in 0..n /\ k - 1 \in Nat
    <3>1. k - 1 \in 0..n /\ k \in 0..n
      OBVIOUS
    <3> QED
      BY <1>1, <3>1
  <2>2. t[k - 1] <= (k - 1) * m
    BY <1>3
  <2>3. t[k - 1] = (k - 1) * m => \A j \in 1..(k - 1) : x[j] = m
    BY <1>3
  <2>4. k * m = (k - 1) * m + m /\ (k - 1) * m \in Nat
    BY <2>1, SMT
  <2> DEFINE a == t[k - 1]
             b == t[k]
             p == (k - 1) * m
             q == k * m
  <2>5. a \in Nat /\ b = a + x[k] /\ a <= p /\ q = p + m /\ p \in Nat
    BY <2>1, <2>2, <2>4
  <2> HIDE DEF a, b, p, q
  <2>6. b <= q /\ (b = q => a = p /\ x[k] = m)
    BY <2>1, <2>5
  <2>7. ASSUME b = q, NEW j \in 1..k PROVE x[j] = m
    <3>1. CASE j = k
      BY <2>6, <2>7, <3>1
    <3>2. CASE j # k
      <4>1. j \in 1..(k - 1)
        BY <2>1, <3>2
      <4> QED
        BY <2>3, <2>6, <2>7, <4>1 DEF a, p
    <3> QED
      BY <3>1, <3>2
  <2> QED
    BY <2>1, <2>6, <2>7 DEF b, q
<1>4. C \in SUBSET (0..n)
  OBVIOUS
<1> HIDE DEF C
<1>5. n \in C
  BY <1>2, <1>3, <1>4, Climbs
<1>6. n \in 0..n
  OBVIOUS
<1> QED
  BY <1>1, <1>5, <1>6 DEF C

(* n slabs of S bytes have room for n times the objects of one, and for more *)
(* when the objects leave room between them.                                 *)
LEMMA RoomAdds ==
  ASSUME NEW n \in Nat, NEW S \in Nat, NEW o \in Nat \ {0}
  PROVE  (n * S) \div o \in Nat /\ n * (S \div o) <= (n * S) \div o
<1> DEFINE m == S \div o
           b == n * S
           d == b \div o
<1>1. m \in Nat /\ m * o <= S
  BY DivBounds
<1>2. b \in Nat
  BY SMT
<1> HIDE DEF m, b
<1>3. d \in Nat /\ b < d * o + o
  BY <1>2, DivBounds
<1> HIDE DEF d
<1>4. (n * m) * o <= b
  <2>1. PICK k \in Nat : S = m * o + k
    <3>1. m * o \in Nat
      BY <1>1, SMT
    <3>2. S - m * o \in Nat /\ S = m * o + (S - m * o)
      BY <1>1, <3>1
    <3> QED
      BY <3>2
  <2>2. n * (m * o + k) = (n * m) * o + n * k
    BY <1>1, SMT
  <2>3. n * k \in Nat /\ (n * m) * o \in Nat
    BY <1>1, SMT
  <2> QED
    BY <2>1, <2>2, <2>3 DEF b
<1>5. n * m \in Nat
  BY <1>1, SMT
<1> DEFINE e == n * m
<1> HIDE DEF e
<1>6. e \in Nat /\ e * o <= b
  BY <1>4, <1>5 DEF e
<1>7. ~(e > d)
  <2>1. SUFFICES ASSUME e > d PROVE FALSE
    OBVIOUS
  <2>2. o * e >= o * d + o
    BY <1>3, <1>6, <2>1, Multiples
  <2>3. o * e = e * o /\ o * d = d * o /\ o * e \in Int /\ o * d \in Int
    BY <1>3, <1>6, SMT
  <2> QED
    BY <1>2, <1>3, <1>6, <2>2, <2>3
<1> QED
  BY <1>3, <1>6, <1>7 DEF e, d, m, b

(* A percentage of a number that is not larger. *)
LEMMA PercentIs ==
  ASSUME NEW D \in Nat \ {0}, NEW u \in Nat, u <= D
  PROVE  /\ (100 * u) \div D \in 0..100
         /\ (100 * u) \div D = 100 => u = D
<1> DEFINE p == (100 * u) \div D
<1>1. p \in Nat /\ p * D <= 100 * u
  BY DivBounds
<1> HIDE DEF p
<1>2. D * p = p * D /\ D * p \in Int /\ D * 100 = 100 * D
  BY <1>1, SMT
<1>3. ~(p > 100)
  <2>1. SUFFICES ASSUME p > 100 PROVE FALSE
    OBVIOUS
  <2>2. D * p >= D * 100 + D
    BY <1>1, <2>1, Multiples
  <2> QED
    BY <1>1, <1>2, <2>2
<1>4. p = 100 => u = D
  BY <1>1, <1>2
<1>5. p \in 0..100
  BY <1>1, <1>3
<1> QED
  BY <1>4, <1>5 DEF p

(* What kmem_cache_info prints of a cache with slabs is a percentage, for   *)
(* any sizes of objects, and a hundred only if no object is free.           *)
THEOREM InfoAlwaysTellsUse == Spec => []InfoTellsUse
<1>1. IInv => InfoTellsUse
  <2> SUFFICES ASSUME IInv, NEW c \in live, SlabsOf(c) # {}
               PROVE  /\ Percent(c) \in 0..100
                      /\ Percent(c) = 100 => \A s \in SlabsOf(c) : free_list[s] = <<>>
    BY DEF InfoTellsUse
  <2> DEFINE q == InOrder(c)
             n == Len(q)
             m == MaxIn(c)
             x == [k \in 1..n |-> obj_counter[q[k]]]
             size == real_obj_size[c]
             S == SlabSize(size)
             o == ObjSize(size)
             D == (n * S) \div o
  <2>1. q \in Seq(Chunks) /\ ToSet(q) = SlabsOf(c)
    <3> DEFINE l == lists[c]
    <3>1. l \in ListRecords
      BY DEF IInv, Sound, Listed, ByCounter
    <3>2. l.empty \in Seq(Chunks) /\ l.partial \in Seq(Chunks) /\ l.full \in Seq(Chunks)
      BY <3>1 DEF ListRecords
    <3> DEFINE e == l.empty
               p == l.partial
               f == l.full
    <3>3. q = (e \o p) \o f /\ SlabsOf(c) = ToSet(e) \cup ToSet(p) \cup ToSet(f)
      BY DEF InOrder, SlabsOf, Slabs
    <3>4. e \in Seq(Chunks) /\ p \in Seq(Chunks) /\ f \in Seq(Chunks)
      BY <3>2
    <3> HIDE DEF e, p, f, l
    <3>5. e \o p \in Seq(Chunks) /\ ToSet(e \o p) = ToSet(e) \cup ToSet(p)
      BY <3>4, ConcatList
    <3> DEFINE ep == e \o p
    <3> HIDE DEF ep
    <3>6. ep \in Seq(Chunks)
      BY <3>5 DEF ep
    <3>7. ep \o f \in Seq(Chunks) /\ ToSet(ep \o f) = ToSet(ep) \cup ToSet(f)
      BY <3>4, <3>6, ConcatList
    <3> QED
      BY <3>3, <3>5, <3>7 DEF ep
  <2> HIDE DEF q
  <2>2. /\ n \in Nat /\ n # 0
        /\ \A s \in SlabsOf(c) : \E k \in 1..n : q[k] = s
        /\ \A k \in 1..n : q[k] \in SlabsOf(c)
    <3>1. n \in Nat /\ DOMAIN q = 1..n
      BY <2>1, LenProperties
    <3>2. SlabsOf(c) = {q[k] : k \in 1..n}
      BY <2>1, <3>1 DEF ToSet
    <3> HIDE DEF n
    <3>3. PICK s \in SlabsOf(c) : TRUE
      OBVIOUS
    <3>4. PICK k \in 1..n : q[k] = s
      BY <3>2, <3>3
    <3> QED
      BY <3>1, <3>2, <3>4
  <2>3. /\ size \in Nat /\ S \in Nat /\ o \in Nat \ {0}
        /\ m = S \div o /\ m \in Nat \ {0}
    <3>1. size \in Nat
      BY DEF IInv, Sound, Typed
    <3> QED
      BY <3>1, RoomInSlab, ObjSizeIs DEF MaxIn, MaximumObjects
  <2>4. ASSUME NEW s \in SlabsOf(c)
        PROVE  obj_counter[s] \in 0..m /\ (obj_counter[s] = m => free_list[s] = <<>>)
    <3> DEFINE f == free_list[s]
               u == obj_counter[s]
    <3>1. f \in Seq(1..m) /\ u \in Nat /\ u + Len(f) = m
      BY SlabParts DEF Objects
    <3> HIDE DEF f, u, m
    <3>2. Len(f) \in Nat /\ (Len(f) = 0 => f = <<>>)
      BY <3>1, LenProperties, EmptySeq
    <3> QED
      BY <2>3, <3>1, <3>2 DEF f, u
  <2> HIDE DEF m, size, S, o
  <2>5. x \in [1..n -> 0..m] /\ \A k \in 1..n : x[k] = obj_counter[q[k]]
    BY <2>2, <2>4
  <2>6. x \in [1..n -> Nat]
    BY <2>3, <2>5
  <2> HIDE DEF x, n
  <2>7. PICK t : Totals(t, x, n) /\ ObjNum(c) = t[n]
    BY <2>2, <2>5, <2>6, ObjNumIs DEF q, n
  <2> DEFINE u == t[n]
  <2>8. /\ u \in Nat /\ u <= n * m
        /\ u = n * m => \A k \in 1..n : x[k] = m
    <3>1. n \in Nat /\ m \in Nat
      BY <2>2, <2>3
    <3>2. Totals(t, x, n) /\ x \in [1..n -> 0..m]
      BY <2>5, <2>7
    <3> QED
      BY <3>1, <3>2, TotalsBound
  <2> HIDE DEF u
  <2>9. D \in Nat /\ n * m <= D
    BY <2>2, <2>3, RoomAdds
  <2>10. n * m \in Nat \ {0}
    BY <2>2, <2>3, SMT
  <2>11. Percent(c) = (100 * u) \div D
    BY <2>7 DEF Percent, SlabNum, n, q, size, S, o, u
  <2> HIDE DEF D
  <2> DEFINE e == n * m
  <2>12. e \in Nat \ {0} /\ e <= D /\ u <= e
    BY <2>8, <2>9, <2>10
  <2> HIDE DEF e
  <2>13. D \in Nat \ {0} /\ u <= D /\ (u = D => u = e)
    BY <2>8, <2>9, <2>12
  <2>14. Percent(c) \in 0..100 /\ (Percent(c) = 100 => u = e)
    BY <2>8, <2>11, <2>13, PercentIs
  <2>15. ASSUME u = e, NEW s \in SlabsOf(c) PROVE free_list[s] = <<>>
    <3>1. PICK k \in 1..n : q[k] = s
      BY <2>2
    <3>2. x[k] = m
      BY <2>8, <2>15 DEF e
    <3> QED
      BY <2>4, <2>5, <3>1, <3>2
  <2> QED
    BY <2>14, <2>15
<1> QED
  BY <1>1, SpecInv, PTL
===============================================================================
