----------------------------- MODULE LayerProofs -----------------------------
(***************************************************************************)
(* Theorems about the two modules that lay something over Kernel.tla, for  *)
(* any number of threads and semaphores.                                   *)
(*                                                                         *)
(* KernelObjects: the pointers of the kernel's lists spell the sequences   *)
(* of Kernel.tla, and sem_wait answers by what woke the thread.  ObjectsInv *)
(* adds two parts to the IInv of KernelProofs: Good, which says of every   *)
(* list, the lists of closed semaphores and the links of unlisted threads  *)
(* included, what its pointers are; and WaitPart, which ties the flag      *)
(* dealoc to what happened to each wait.                                   *)
(*                                                                         *)
(* Trap: the idle thread is always returned to as it was, and until a time *)
(* slice ends with a switch so is every thread.  TrapInv, in the second    *)
(* half of the module, adds to the type invariant of Kernel the types of   *)
(* Trap; that the idle thread is never suspended in a call that waits; and, *)
(* while no slice has ended with a switch, that nobody is suspended in the *)
(* timer interrupt.                                                        *)
(***************************************************************************)
EXTENDS KernelObjects, Trap, KernelProofs

MaybeThread == Thread \cup {Null}

Links == [head : [Lists -> MaybeThread], tail : [Lists -> MaybeThread],
          nextTCB : [Thread -> MaybeThread], nextSem : [Thread -> MaybeThread]]

(* What one list's pointers spell: h and e are its head and tail, nx the    *)
(* links of the TCBs.                                                       *)
Spelled(h, e, nx, q) ==
  IF q = <<>> THEN h = Null
  ELSE /\ h = q[1] /\ e = q[Len(q)]
       /\ \A i \in 1..Len(q) : nx[q[i]] = IF i = Len(q) THEN Null ELSE q[i + 1]

LEMMA NullApart ==
  Null \notin Thread /\ Idle \notin Thread /\ Null # Idle
  BY ObjectsAssumption, KernelAssumption DEF ObjectsAssumption, KernelAssumption

LEMMA SpellsIs ==
  ASSUME NEW m, NEW l, NEW q \in Seq(Thread)
  PROVE  Spells(m, l, q) <=> Spelled(m.head[l], m.tail[l], m[LinkOf(l)], q)
<1>1. DOMAIN q = 1..Len(q)
  BY LenProperties
<1>2. q # <<>> => Head(q) = q[1]
  BY HeadTailProperties
<1> QED
  BY <1>1, <1>2 DEF Spells, Spelled, Last

(* A thread linked behind the last one. *)
LEMMA AppendSpelled ==
  ASSUME NEW q \in Seq(Thread), IsInjective(q), NEW t \in Thread, t \notin ToSet(q),
         NEW h, NEW e, NEW nx \in [Thread -> MaybeThread], nx[t] = Null,
         Spelled(h, e, nx, q)
  PROVE  /\ q = <<>> => Spelled(t, t, nx, Append(q, t))
         /\ q # <<>> => /\ e \in ToSet(q) /\ e \in Thread
                        /\ Spelled(h, t, [nx EXCEPT ![e] = t], Append(q, t))
<1> DEFINE r == Append(q, t)
<1>1. /\ Len(q) \in Nat /\ \A i \in 1..Len(q) : q[i] \in Thread /\ q[i] \in ToSet(q)
      /\ \A i, j \in 1..Len(q) : q[i] = q[j] => i = j
  BY LenProperties, DistinctPlaces
<1>2. /\ r # <<>> /\ Len(r) = Len(q) + 1 /\ r[Len(q) + 1] = t
      /\ \A i \in 1..Len(q) : r[i] = q[i]
  BY AppendProperties
<1> HIDE DEF r
<1>3. CASE q = <<>>
  <2>1. Len(q) = 0
    BY <1>3, EmptySeq
  <2>2. \A i \in 1..Len(r) : i = 1
    BY <1>2, <2>1
  <2>3. r[1] = t /\ Len(r) = 1
    BY <1>2, <2>1
  <2> QED
    BY <1>2, <1>3, <2>2, <2>3 DEF Spelled, r
<1>4. CASE q # <<>>
  <2>1. Len(q) \in 1..Len(q) /\ 1 \in 1..Len(q)
    BY <1>1, <1>4, EmptySeq
  <2>2. /\ h = q[1] /\ e = q[Len(q)]
        /\ \A i \in 1..Len(q) : nx[q[i]] = IF i = Len(q) THEN Null ELSE q[i + 1]
    BY <1>4 DEF Spelled
  <2>3. e \in ToSet(q) /\ e \in Thread /\ t # e
    BY <1>1, <2>1, <2>2
  <2> DEFINE ny == [nx EXCEPT ![e] = t]
  <2>4. ny[e] = t /\ \A u \in Thread : u # e => ny[u] = nx[u]
    BY <2>3
  <2> HIDE DEF ny
  <2>5. ASSUME NEW i \in 1..Len(r)
        PROVE  ny[r[i]] = IF i = Len(r) THEN Null ELSE r[i + 1]
    <3>1. CASE i = Len(q) + 1
      BY <1>2, <2>3, <2>4, <3>1
    <3>2. CASE i = Len(q)
      BY <1>1, <1>2, <2>1, <2>2, <2>4, <3>2
    <3>3. CASE i < Len(q)
      <4>1. i \in 1..Len(q) /\ i # Len(q) /\ i + 1 \in 1..Len(q) /\ i # Len(r)
        BY <1>1, <1>2, <3>3
      <4>2. ny[q[i]] = q[i + 1]
        BY <1>1, <2>1, <2>2, <2>4, <4>1
      <4> QED
        BY <1>2, <4>1, <4>2
    <3> QED
      BY <1>1, <1>2, <3>1, <3>2, <3>3
  <2>6. h = r[1] /\ t = r[Len(r)]
    BY <1>2, <2>1, <2>2
  <2>7. Spelled(h, t, ny, r)
    BY <1>2, <2>5, <2>6 DEF Spelled
  <2> QED
    BY <1>4, <2>3, <2>7 DEF ny, r
<1> QED
  BY <1>3, <1>4

(* The first one unlinked. *)
LEMMA TailSpelled ==
  ASSUME NEW q \in Seq(Thread), IsInjective(q), q # <<>>,
         NEW h, NEW e, NEW nx \in [Thread -> MaybeThread],
         Spelled(h, e, nx, q)
  PROVE  /\ h = Head(q) /\ h \in Thread
         /\ Spelled(nx[h], e, [nx EXCEPT ![h] = Null], Tail(q))
<1> DEFINE r == Tail(q)
           ny == [nx EXCEPT ![h] = Null]
<1>1. /\ Len(q) \in Nat /\ \A i \in 1..Len(q) : q[i] \in Thread
      /\ \A i, j \in 1..Len(q) : q[i] = q[j] => i = j
      /\ Len(q) # 0
  BY LenProperties, DistinctPlaces, EmptySeq
<1>2. /\ h = q[1] /\ e = q[Len(q)] /\ Head(q) = q[1]
      /\ \A i \in 1..Len(q) : nx[q[i]] = IF i = Len(q) THEN Null ELSE q[i + 1]
  BY HeadTailProperties DEF Spelled
<1>3. r \in Seq(Thread) /\ Len(r) = Len(q) - 1 /\ \A i \in 1..Len(r) : r[i] = q[i + 1]
  BY HeadTailProperties
<1>4. h \in Thread
  BY <1>1, <1>2
<1>5. \A u \in Thread : u # h => ny[u] = nx[u]
  BY <1>4
<1> HIDE DEF r, ny
<1>6. CASE Len(q) = 1
  <2>1. r = <<>> /\ nx[h] = Null
    BY <1>1, <1>2, <1>3, <1>6, EmptySeq
  <2> QED
    BY <1>2, <1>4, <2>1 DEF Spelled, r, ny
<1>7. CASE Len(q) # 1
  <2>1. r # <<>> /\ 1 \in 1..Len(q) /\ 2 \in 1..Len(q) /\ 1 \in 1..Len(r) /\ Len(r) \in 1..Len(r)
    BY <1>1, <1>3, <1>7, EmptySeq
  <2>2. nx[h] = r[1]
    BY <1>2, <1>3, <1>7, <2>1
  <2>3. e = r[Len(r)]
    <3>1. Len(r) + 1 = Len(q)
      BY <1>1, <1>3
    <3> QED
      BY <1>2, <1>3, <2>1, <3>1
  <2>4. ASSUME NEW i \in 1..Len(r)
        PROVE  ny[r[i]] = IF i = Len(r) THEN Null ELSE r[i + 1]
    <3>1. i + 1 \in 1..Len(q) /\ i + 1 # 1
      BY <1>1, <1>3
    <3>2. r[i] = q[i + 1] /\ q[i + 1] # h /\ q[i + 1] \in Thread
      BY <1>1, <1>2, <1>3, <2>1, <3>1
    <3>3. ny[r[i]] = IF i + 1 = Len(q) THEN Null ELSE q[(i + 1) + 1]
      BY <1>2, <1>5, <3>1, <3>2
    <3>4. i # Len(r) => i + 1 \in 1..Len(r)
      BY <1>1, <1>3
    <3>5. i + 1 = Len(q) <=> i = Len(r)
      BY <1>1, <1>3
    <3> QED
      BY <1>3, <3>3, <3>4, <3>5
  <2>5. Spelled(nx[h], e, ny, r)
    BY <2>1, <2>2, <2>3, <2>4 DEF Spelled
  <2> QED
    BY <1>2, <1>4, <2>5 DEF r, ny
<1> QED
  BY <1>6, <1>7

(* A list that the thread is not in does not notice its link. *)
LEMMA OtherSpelled ==
  ASSUME NEW q \in Seq(Thread), NEW h, NEW e, NEW nx \in [Thread -> MaybeThread],
         NEW x \in Thread, x \notin ToSet(q), NEW y, Spelled(h, e, nx, q)
  PROVE  Spelled(h, e, [nx EXCEPT ![x] = y], q)
<1>1. \A i \in 1..Len(q) : q[i] \in Thread /\ q[i] # x
  BY DistinctPlaces
<1> QED
  BY <1>1 DEF Spelled

-------------------------------------------------------------------------------
(* What Link and Unlink do to each of the four maps. *)
LEMMA ListNames ==
  /\ "ready" \in Lists /\ LinkOf("ready") = "nextTCB"
  /\ \A s \in Sem : s \in Lists /\ LinkOf(s) = "nextSem" /\ s # "ready"
BY ObjectsAssumption DEF Lists, LinkOf, ObjectsAssumption

Linked(m, l, t, r) ==
  /\ r \in Links
  /\ r.tail = [m.tail EXCEPT ![l] = t]
  /\ m.head[l] = Null =>
       /\ r.head = [m.head EXCEPT ![l] = t]
       /\ r.nextTCB = m.nextTCB /\ r.nextSem = m.nextSem
  /\ m.head[l] # Null =>
       /\ r.head = m.head
       /\ l = "ready" => /\ r.nextTCB = [m.nextTCB EXCEPT ![m.tail[l]] = t]
                         /\ r.nextSem = m.nextSem
       /\ l # "ready" => /\ r.nextSem = [m.nextSem EXCEPT ![m.tail[l]] = t]
                         /\ r.nextTCB = m.nextTCB

LEMMA LinkMaps ==
  ASSUME NEW m \in Links, NEW l \in Lists, NEW t \in Thread
  PROVE  Linked(m, l, t, Link(m, l, t))
<1> DEFINE r == Link(m, l, t)
<1>1. CASE m.head[l] = Null
  <2>1. r = [m EXCEPT !["head"][l] = t, !["tail"][l] = t]
    BY <1>1 DEF Link
  <2> HIDE DEF r
  <2>2. /\ r.head = [m.head EXCEPT ![l] = t] /\ r.tail = [m.tail EXCEPT ![l] = t]
        /\ r.nextTCB = m.nextTCB /\ r.nextSem = m.nextSem
    BY <2>1 DEF Links
  <2>3. r \in Links
    BY <2>1 DEF Links, MaybeThread
  <2> QED
    BY <1>1, <2>2, <2>3 DEF Linked, r
<1>2. CASE m.head[l] # Null /\ l = "ready"
  <2>1. r = [m EXCEPT !["nextTCB"][m.tail[l]] = t, !["tail"][l] = t]
    BY <1>2 DEF Link, LinkOf
  <2> HIDE DEF r
  <2>2. /\ r.head = m.head /\ r.tail = [m.tail EXCEPT ![l] = t]
        /\ r.nextTCB = [m.nextTCB EXCEPT ![m.tail[l]] = t] /\ r.nextSem = m.nextSem
    BY <2>1 DEF Links
  <2>3. r \in Links
    BY <2>1 DEF Links, MaybeThread
  <2> QED
    BY <1>2, <2>2, <2>3 DEF Linked, r
<1>3. CASE m.head[l] # Null /\ l # "ready"
  <2>1. r = [m EXCEPT !["nextSem"][m.tail[l]] = t, !["tail"][l] = t]
    BY <1>3 DEF Link, LinkOf
  <2> HIDE DEF r
  <2>2. /\ r.head = m.head /\ r.tail = [m.tail EXCEPT ![l] = t]
        /\ r.nextSem = [m.nextSem EXCEPT ![m.tail[l]] = t] /\ r.nextTCB = m.nextTCB
    BY <2>1 DEF Links
  <2>3. r \in Links
    BY <2>1 DEF Links, MaybeThread
  <2> QED
    BY <1>3, <2>2, <2>3 DEF Linked, r
<1> QED
  BY <1>1, <1>2, <1>3

LEMMA UnlinkMaps ==
  ASSUME NEW m \in Links, NEW l \in Lists
  PROVE  /\ Unlink(m, l) \in Links
         /\ m.head[l] = Null =>
              /\ Unlink(m, l).head = m.head
              /\ Unlink(m, l).tail = [m.tail EXCEPT ![l] = Null]
              /\ Unlink(m, l).nextTCB = m.nextTCB
              /\ Unlink(m, l).nextSem = m.nextSem
         /\ m.head[l] # Null =>
              /\ Unlink(m, l).tail = m.tail
              /\ l = "ready" =>
                   /\ Unlink(m, l).head = [m.head EXCEPT ![l] = m.nextTCB[m.head[l]]]
                   /\ Unlink(m, l).nextSem = m.nextSem
                   /\ Unlink(m, l).nextTCB = [m.nextTCB EXCEPT ![m.head[l]] = Null]
              /\ l # "ready" =>
                   /\ Unlink(m, l).head = [m.head EXCEPT ![l] = m.nextSem[m.head[l]]]
                   /\ Unlink(m, l).nextTCB = m.nextTCB
                   /\ Unlink(m, l).nextSem = [m.nextSem EXCEPT ![m.head[l]] = Null]
<1> DEFINE r == Unlink(m, l)
<1>1. CASE m.head[l] = Null
  <2>1. r = [m EXCEPT !["tail"][l] = Null]
    BY <1>1 DEF Unlink
  <2> HIDE DEF r
  <2>2. /\ r.tail = [m.tail EXCEPT ![l] = Null] /\ r.head = m.head
        /\ r.nextTCB = m.nextTCB /\ r.nextSem = m.nextSem
    BY <2>1 DEF Links
  <2>3. r \in Links
    BY <2>1 DEF Links, MaybeThread
  <2> QED
    BY <1>1, <2>2, <2>3 DEF r
<1>2. CASE m.head[l] # Null /\ l = "ready"
  <2>1. r = [m EXCEPT !["head"][l] = m["nextTCB"][m.head[l]], !["nextTCB"][m.head[l]] = Null]
    BY <1>2 DEF Unlink, LinkOf
  <2>2. m.head[l] \in Thread
    BY <1>2 DEF Links, MaybeThread
  <2> HIDE DEF r
  <2>3. /\ r.head = [m.head EXCEPT ![l] = m.nextTCB[m.head[l]]] /\ r.tail = m.tail
        /\ r.nextTCB = [m.nextTCB EXCEPT ![m.head[l]] = Null] /\ r.nextSem = m.nextSem
    BY <2>1 DEF Links
  <2>4. r \in Links
    BY <2>1, <2>2 DEF Links, MaybeThread
  <2> QED
    BY <1>2, <2>3, <2>4 DEF r
<1>3. CASE m.head[l] # Null /\ l # "ready"
  <2>1. r = [m EXCEPT !["head"][l] = m["nextSem"][m.head[l]], !["nextSem"][m.head[l]] = Null]
    BY <1>3 DEF Unlink, LinkOf
  <2>2. m.head[l] \in Thread
    BY <1>3 DEF Links, MaybeThread
  <2> HIDE DEF r
  <2>3. /\ r.head = [m.head EXCEPT ![l] = m.nextSem[m.head[l]]] /\ r.tail = m.tail
        /\ r.nextSem = [m.nextSem EXCEPT ![m.head[l]] = Null] /\ r.nextTCB = m.nextTCB
    BY <2>1 DEF Links
  <2>4. r \in Links
    BY <2>1, <2>2 DEF Links, MaybeThread
  <2> QED
    BY <1>3, <2>3, <2>4 DEF r
<1> QED
  BY <1>1, <1>2, <1>3

-------------------------------------------------------------------------------
(* The pointers m spell the ready queue q and the waiting lists w, and the  *)
(* link of a thread that is in none of the lists it is for is null.         *)
Readies(m, q) ==
  /\ Spelled(m.head["ready"], m.tail["ready"], m.nextTCB, q)
  /\ \A t \in Thread : t \notin ToSet(q) => m.nextTCB[t] = Null

Waits(m, w) ==
  /\ \A s \in Sem : Spelled(m.head[s], m.tail[s], m.nextSem, w[s])
  /\ \A t \in Thread : (\A s \in Sem : t \notin ToSet(w[s])) => m.nextSem[t] = Null

Good(m, q, w) == m \in Links /\ Readies(m, q) /\ Waits(m, w)

OnceEach(q) == q \in Seq(Thread) /\ IsInjective(q)

(* Waiting lists that share nobody. *)
Separate(w) ==
  /\ w \in [Sem -> Seq(Thread)]
  /\ \A s \in Sem : IsInjective(w[s])
  /\ \A s, u \in Sem : s # u => ToSet(w[s]) \cap ToSet(w[u]) = {}

(* Scheduler::put. *)
LEMMA PutReady ==
  ASSUME NEW m, NEW q, NEW w, Good(m, q, w), OnceEach(q),
         NEW t \in Thread, t \notin ToSet(q)
  PROVE  Good(Link(m, "ready", t), Append(q, t), w)
<1> DEFINE r == Link(m, "ready", t)
<1>1. /\ m \in Links /\ "ready" \in Lists
      /\ \A s \in Sem : s \in Lists /\ s # "ready"
      /\ q \in Seq(Thread) /\ IsInjective(q)
      /\ m.head \in [Lists -> MaybeThread] /\ m.tail \in [Lists -> MaybeThread]
      /\ m.nextTCB \in [Thread -> MaybeThread]
  BY ListNames DEF Good, OnceEach, Links
<1>2. /\ Spelled(m.head["ready"], m.tail["ready"], m.nextTCB, q)
      /\ \A u \in Thread : u \notin ToSet(q) => m.nextTCB[u] = Null
      /\ Waits(m, w)
  BY DEF Good, Readies
<1>3. /\ Append(q, t) \in Seq(Thread) /\ ToSet(Append(q, t)) = ToSet(q) \cup {t}
  BY <1>1, AppendList
<1>4. Linked(m, "ready", t, r)
  BY <1>1, LinkMaps
<1> HIDE DEF r
<1>5. /\ r \in Links /\ r.tail = [m.tail EXCEPT !["ready"] = t] /\ r.nextSem = m.nextSem
  BY <1>4 DEF Linked
<1>6. /\ q = <<>> => Spelled(t, t, m.nextTCB, Append(q, t))
      /\ q # <<>> => /\ m.tail["ready"] \in ToSet(q) /\ m.tail["ready"] \in Thread
                     /\ Spelled(m.head["ready"], t,
                                [m.nextTCB EXCEPT ![m.tail["ready"]] = t], Append(q, t))
  BY <1>1, <1>2, AppendSpelled
<1>7. CASE q = <<>>
  <2>1. m.head["ready"] = Null
    BY <1>2, <1>7 DEF Spelled
  <2>2. r.head = [m.head EXCEPT !["ready"] = t] /\ r.nextTCB = m.nextTCB
    BY <1>4, <2>1 DEF Linked
  <2>3. r.head["ready"] = t /\ r.tail["ready"] = t
    BY <1>1, <1>5, <2>2
  <2>4. Readies(r, Append(q, t))
    BY <1>2, <1>3, <1>6, <1>7, <2>2, <2>3 DEF Readies
  <2>5. Waits(r, w)
    BY <1>1, <1>2, <1>5, <2>2 DEF Waits
  <2> QED
    BY <1>5, <2>4, <2>5 DEF Good, r
<1>8. CASE q # <<>>
  <2>1. m.head["ready"] # Null
    <3>1. m.head["ready"] = q[1] /\ Len(q) # 0 /\ Len(q) \in Nat
      BY <1>1, <1>2, <1>8, EmptySeq, LenProperties DEF Spelled
    <3>2. 1 \in 1..Len(q)
      BY <3>1
    <3> QED
      BY <1>1, <3>1, <3>2, ElementOfSeq, NullApart
  <2>2. r.head = m.head /\ r.nextTCB = [m.nextTCB EXCEPT ![m.tail["ready"]] = t]
    BY <1>4, <2>1 DEF Linked
  <2>3. r.head["ready"] = m.head["ready"] /\ r.tail["ready"] = t
    BY <1>1, <1>5, <2>2
  <2>4. \A u \in Thread : u \notin ToSet(Append(q, t)) => r.nextTCB[u] = Null
    BY <1>1, <1>2, <1>3, <1>6, <1>8, <2>2
  <2>5. Readies(r, Append(q, t))
    BY <1>6, <1>8, <2>2, <2>3, <2>4 DEF Readies
  <2>6. Waits(r, w)
    BY <1>1, <1>2, <1>5, <2>2 DEF Waits
  <2> QED
    BY <1>5, <2>5, <2>6 DEF Good, r
<1> QED
  BY <1>7, <1>8

(* Scheduler::get. *)
LEMMA GetReady ==
  ASSUME NEW m, NEW q, NEW w, Good(m, q, w), OnceEach(q)
  PROVE  /\ Good(Unlink(m, "ready"), RestOf(q), w)
         /\ m.head["ready"] = Null <=> q = <<>>
<1> DEFINE r == Unlink(m, "ready")
<1>1. /\ m \in Links /\ "ready" \in Lists
      /\ \A s \in Sem : s \in Lists /\ s # "ready"
      /\ q \in Seq(Thread) /\ IsInjective(q)
      /\ m.head \in [Lists -> MaybeThread] /\ m.tail \in [Lists -> MaybeThread]
      /\ m.nextTCB \in [Thread -> MaybeThread]
  BY ListNames DEF Good, OnceEach, Links
<1>2. /\ Spelled(m.head["ready"], m.tail["ready"], m.nextTCB, q)
      /\ \A u \in Thread : u \notin ToSet(q) => m.nextTCB[u] = Null
      /\ Waits(m, w)
  BY DEF Good, Readies
<1>3. r \in Links
  BY <1>1, UnlinkMaps
<1>4. CASE q = <<>>
  <2>1. m.head["ready"] = Null /\ RestOf(q) = q
    BY <1>2, <1>4 DEF Spelled, RestOf
  <2>2. /\ r.head = m.head /\ r.tail = [m.tail EXCEPT !["ready"] = Null]
        /\ r.nextTCB = m.nextTCB /\ r.nextSem = m.nextSem
    BY <1>1, <2>1, UnlinkMaps
  <2> HIDE DEF r
  <2>3. Readies(r, q)
    BY <1>2, <1>4, <2>1, <2>2 DEF Readies, Spelled
  <2>4. Waits(r, w)
    BY <1>1, <1>2, <2>2 DEF Waits
  <2> QED
    BY <1>3, <1>4, <2>1, <2>3, <2>4 DEF Good, r
<1>5. CASE q # <<>>
  <2> DEFINE h == m.head["ready"]
  <2>1. /\ h = Head(q) /\ h \in Thread
        /\ Spelled(m.nextTCB[h], m.tail["ready"], [m.nextTCB EXCEPT ![h] = Null], Tail(q))
    BY <1>1, <1>2, <1>5, TailSpelled
  <2>2. h # Null /\ RestOf(q) = Tail(q)
    BY <1>5, <2>1, NullApart DEF RestOf
  <2>3. /\ r.head = [m.head EXCEPT !["ready"] = m.nextTCB[h]] /\ r.tail = m.tail
        /\ r.nextTCB = [m.nextTCB EXCEPT ![h] = Null] /\ r.nextSem = m.nextSem
    BY <1>1, <2>2, UnlinkMaps
  <2>4. ToSet(q) = {h} \cup ToSet(Tail(q))
    BY <1>1, <1>5, <2>1, HeadList
  <2> HIDE DEF r
  <2>5. r.head["ready"] = m.nextTCB[h]
    BY <1>1, <2>3
  <2> HIDE DEF h
  <2>6. \A u \in Thread : u \notin ToSet(Tail(q)) => r.nextTCB[u] = Null
    BY <1>1, <1>2, <2>1, <2>3, <2>4
  <2>7. Readies(r, Tail(q))
    BY <2>1, <2>3, <2>5, <2>6 DEF Readies
  <2>8. Waits(r, w)
    BY <1>1, <1>2, <2>3 DEF Waits
  <2> QED
    BY <1>3, <1>5, <2>2, <2>7, <2>8 DEF Good, r, h
<1> QED
  BY <1>4, <1>5

(* mySemaphore::block: the link of the last waiter, or the head. *)
LEMMA PutWaiter ==
  ASSUME NEW m, NEW q, NEW w, Good(m, q, w), Separate(w), NEW s \in Sem,
         NEW t \in Thread, \A u \in Sem : t \notin ToSet(w[u])
  PROVE  Good(Link(m, s, t), q, [w EXCEPT ![s] = Append(w[s], t)])
<1> DEFINE r == Link(m, s, t)
           v == [w EXCEPT ![s] = Append(w[s], t)]
<1>1. /\ m \in Links /\ "ready" \in Lists /\ "ready" # s
      /\ s \in Lists /\ \A u \in Sem : u \in Lists
      /\ w \in [Sem -> Seq(Thread)] /\ w[s] \in Seq(Thread) /\ IsInjective(w[s])
      /\ m.head \in [Lists -> MaybeThread] /\ m.tail \in [Lists -> MaybeThread]
      /\ m.nextSem \in [Thread -> MaybeThread]
  BY ListNames DEF Good, Separate, Links
<1>2. /\ Readies(m, q)
      /\ \A u \in Sem : Spelled(m.head[u], m.tail[u], m.nextSem, w[u])
      /\ \A x \in Thread : (\A u \in Sem : x \notin ToSet(w[u])) => m.nextSem[x] = Null
  BY DEF Good, Waits
<1>3. Append(w[s], t) \in Seq(Thread) /\ ToSet(Append(w[s], t)) = ToSet(w[s]) \cup {t}
  BY <1>1, AppendList
<1>4. Linked(m, s, t, r)
  BY <1>1, LinkMaps
<1> HIDE DEF r
<1>5. /\ r \in Links /\ r.tail = [m.tail EXCEPT ![s] = t] /\ r.nextTCB = m.nextTCB
      /\ r.head["ready"] = m.head["ready"] /\ r.tail["ready"] = m.tail["ready"]
      /\ r.tail[s] = t
      /\ \A u \in Sem : u # s => r.tail[u] = m.tail[u] /\ r.head[u] = m.head[u]
  BY <1>1, <1>4 DEF Linked
<1>6. /\ v[s] = Append(w[s], t)
      /\ \A u \in Sem : u # s => v[u] = w[u]
  BY <1>1
<1> HIDE DEF v
<1>7. Readies(r, q)
  BY <1>2, <1>5 DEF Readies
<1>8. /\ w[s] = <<>> => Spelled(t, t, m.nextSem, Append(w[s], t))
      /\ w[s] # <<>> => /\ m.tail[s] \in ToSet(w[s]) /\ m.tail[s] \in Thread
                        /\ Spelled(m.head[s], t,
                                [m.nextSem EXCEPT ![m.tail[s]] = t], Append(w[s], t))
  <2>1. m.nextSem[t] = Null /\ t \notin ToSet(w[s])
    BY <1>2
  <2>2. Spelled(m.head[s], m.tail[s], m.nextSem, w[s])
    BY <1>2
  <2> QED
    BY <1>1, <2>1, <2>2, AppendSpelled
<1>9. CASE w[s] = <<>>
  <2>1. m.head[s] = Null
    BY <1>2, <1>9 DEF Spelled
  <2>2. r.head = [m.head EXCEPT ![s] = t] /\ r.nextSem = m.nextSem
    BY <1>4, <2>1 DEF Linked
  <2>3. r.head[s] = t
    BY <1>1, <2>2
  <2>4. ASSUME NEW u \in Sem
        PROVE  Spelled(r.head[u], r.tail[u], r.nextSem, v[u])
    <3>1. CASE u = s
      BY <1>5, <1>6, <1>8, <1>9, <2>2, <2>3, <3>1
    <3>2. CASE u # s
      BY <1>2, <1>5, <1>6, <2>2, <3>2
    <3> QED
      BY <3>1, <3>2
  <2>5. ASSUME NEW x \in Thread, \A u \in Sem : x \notin ToSet(v[u])
        PROVE  r.nextSem[x] = Null
    <3>1. \A u \in Sem : x \notin ToSet(w[u])
      BY <1>3, <1>6, <2>5
    <3> QED
      BY <1>2, <2>2, <3>1
  <2>6. Waits(r, v)
    BY <2>4, <2>5 DEF Waits
  <2> QED
    BY <1>5, <1>7, <2>6 DEF Good, r, v
<1>10. CASE w[s] # <<>>
  <2>1. m.head[s] # Null
    <3>1. m.head[s] = w[s][1] /\ Len(w[s]) # 0 /\ Len(w[s]) \in Nat
      BY <1>1, <1>2, <1>10, EmptySeq, LenProperties DEF Spelled
    <3>2. 1 \in 1..Len(w[s])
      BY <3>1
    <3> QED
      BY <1>1, <3>1, <3>2, ElementOfSeq, NullApart
  <2>2. r.head = m.head /\ r.nextSem = [m.nextSem EXCEPT ![m.tail[s]] = t]
    BY <1>1, <1>4, <2>1 DEF Linked
  <2>3. r.head[s] = m.head[s]
    BY <2>2
  <2>4. ASSUME NEW u \in Sem
        PROVE  Spelled(r.head[u], r.tail[u], r.nextSem, v[u])
    <3>1. CASE u = s
      BY <1>5, <1>6, <1>8, <1>10, <2>2, <2>3, <3>1
    <3>2. CASE u # s
      <4>1. /\ w[u] \in Seq(Thread) /\ m.tail[s] \notin ToSet(w[u])
            /\ Spelled(m.head[u], m.tail[u], m.nextSem, w[u])
        BY <1>1, <1>2, <1>8, <1>10, <3>2 DEF Separate
      <4>2. Spelled(m.head[u], m.tail[u], [m.nextSem EXCEPT ![m.tail[s]] = t], w[u])
        BY <1>1, <1>8, <1>10, <4>1, OtherSpelled
      <4> QED
        BY <1>5, <1>6, <2>2, <3>2, <4>2
    <3> QED
      BY <3>1, <3>2
  <2>5. ASSUME NEW x \in Thread, \A u \in Sem : x \notin ToSet(v[u])
        PROVE  r.nextSem[x] = Null
    <3>1. \A u \in Sem : x \notin ToSet(w[u])
      BY <1>3, <1>6, <2>5
    <3>2. m.nextSem[x] = Null /\ x # m.tail[s]
      BY <1>2, <1>8, <1>10, <3>1
    <3> QED
      BY <1>1, <2>2, <3>2
  <2>6. Waits(r, v)
    BY <2>4, <2>5 DEF Waits
  <2> QED
    BY <1>5, <1>7, <2>6 DEF Good, r, v
<1> QED
  BY <1>9, <1>10

(* mySemaphore::unblock, as far as the waiting list goes. *)
LEMMA TakeWaiter ==
  ASSUME NEW m, NEW q, NEW w, Good(m, q, w), Separate(w), NEW s \in Sem
  PROVE  /\ w[s] = <<>> => m.head[s] = Null /\ Good(Unlink(m, s), q, w)
         /\ w[s] # <<>> => /\ m.head[s] = Head(w[s]) /\ m.head[s] \in Thread
                           /\ m.head[s] # Null
                           /\ Good(Unlink(m, s), q, [w EXCEPT ![s] = Tail(w[s])])
<1> DEFINE r == Unlink(m, s)
           v == [w EXCEPT ![s] = Tail(w[s])]
<1>1. /\ m \in Links /\ "ready" \in Lists /\ "ready" # s
      /\ s \in Lists /\ \A u \in Sem : u \in Lists
      /\ w \in [Sem -> Seq(Thread)] /\ w[s] \in Seq(Thread) /\ IsInjective(w[s])
      /\ m.head \in [Lists -> MaybeThread] /\ m.tail \in [Lists -> MaybeThread]
      /\ m.nextSem \in [Thread -> MaybeThread]
  BY ListNames DEF Good, Separate, Links
<1>2. /\ Readies(m, q)
      /\ \A u \in Sem : Spelled(m.head[u], m.tail[u], m.nextSem, w[u])
      /\ \A x \in Thread : (\A u \in Sem : x \notin ToSet(w[u])) => m.nextSem[x] = Null
  BY DEF Good, Waits
<1>3. r \in Links
  BY <1>1, UnlinkMaps
<1>4. CASE w[s] = <<>>
  <2>1. m.head[s] = Null
    BY <1>2, <1>4 DEF Spelled
  <2>2. /\ r.head = m.head /\ r.tail = [m.tail EXCEPT ![s] = Null]
        /\ r.nextTCB = m.nextTCB /\ r.nextSem = m.nextSem
    BY <1>1, <2>1, UnlinkMaps
  <2> HIDE DEF r
  <2>3. r.tail["ready"] = m.tail["ready"] /\ \A u \in Sem : u # s => r.tail[u] = m.tail[u]
    BY <1>1, <2>2
  <2>4. Readies(r, q)
    BY <1>2, <2>2, <2>3 DEF Readies
  <2>5. ASSUME NEW u \in Sem
        PROVE  Spelled(r.head[u], r.tail[u], r.nextSem, w[u])
    <3>1. CASE u = s
      BY <1>4, <2>1, <2>2, <3>1 DEF Spelled
    <3>2. CASE u # s
      BY <1>2, <2>2, <2>3, <3>2
    <3> QED
      BY <3>1, <3>2
  <2>6. Waits(r, w)
    BY <1>2, <2>2, <2>5 DEF Waits
  <2> QED
    BY <1>3, <1>4, <2>1, <2>4, <2>6 DEF Good, r
<1>5. CASE w[s] # <<>>
  <2> DEFINE h == m.head[s]
  <2>1. /\ h = Head(w[s]) /\ h \in Thread
        /\ Spelled(m.nextSem[h], m.tail[s], [m.nextSem EXCEPT ![h] = Null], Tail(w[s]))
    <3>1. Spelled(m.head[s], m.tail[s], m.nextSem, w[s])
      BY <1>2
    <3> QED
      BY <1>1, <3>1, <1>5, TailSpelled
  <2>2. h # Null
    BY <2>1, NullApart
  <2>3. /\ r.head = [m.head EXCEPT ![s] = m.nextSem[h]] /\ r.tail = m.tail
        /\ r.nextSem = [m.nextSem EXCEPT ![h] = Null] /\ r.nextTCB = m.nextTCB
    BY <1>1, <2>2, UnlinkMaps
  <2>4. ToSet(w[s]) = {h} \cup ToSet(Tail(w[s]))
    BY <1>1, <1>5, <2>1, HeadList
  <2> HIDE DEF r
  <2>5. /\ r.head[s] = m.nextSem[h] /\ r.head["ready"] = m.head["ready"]
        /\ \A u \in Sem : u # s => r.head[u] = m.head[u]
    BY <1>1, <2>3
  <2>6. /\ v[s] = Tail(w[s])
        /\ \A u \in Sem : u # s => v[u] = w[u]
    BY <1>1
  <2> HIDE DEF v, h
  <2>7. Readies(r, q)
    BY <1>2, <2>3, <2>5 DEF Readies
  <2>8. ASSUME NEW u \in Sem
        PROVE  Spelled(r.head[u], r.tail[u], r.nextSem, v[u])
    <3>1. CASE u = s
      BY <2>1, <2>3, <2>5, <2>6, <3>1
    <3>2. CASE u # s
      <4>1. /\ w[u] \in Seq(Thread) /\ h \notin ToSet(w[u])
            /\ Spelled(m.head[u], m.tail[u], m.nextSem, w[u])
        BY <1>1, <1>2, <2>4, <3>2 DEF Separate
      <4>2. Spelled(m.head[u], m.tail[u], [m.nextSem EXCEPT ![h] = Null], w[u])
        BY <1>1, <2>1, <4>1, OtherSpelled
      <4> QED
        BY <2>3, <2>5, <2>6, <3>2, <4>2
    <3> QED
      BY <3>1, <3>2
  <2>9. ASSUME NEW x \in Thread, \A u \in Sem : x \notin ToSet(v[u])
        PROVE  r.nextSem[x] = Null
    <3>1. CASE x = h
      BY <1>1, <2>1, <2>3, <3>1
    <3>2. CASE x # h
      <4>1. \A u \in Sem : x \notin ToSet(w[u])
        BY <2>4, <2>6, <2>9, <3>2
      <4> QED
        BY <1>1, <1>2, <2>1, <2>3, <3>2, <4>1
    <3> QED
      BY <3>1, <3>2
  <2>10. Waits(r, v)
    BY <2>8, <2>9 DEF Waits
  <2> QED
    BY <1>3, <1>5, <2>1, <2>2, <2>7, <2>10 DEF Good, r, v, h
<1> QED
  BY <1>4, <1>5

-------------------------------------------------------------------------------
(* The ready queue q and the waiting lists w share nobody. *)
Apart(q, w) ==
  OnceEach(q) /\ Separate(w) /\ \A u \in Sem : ToSet(q) \cap ToSet(w[u]) = {}

(* mySemaphore::unblock. *)
LEMMA UnblockOne ==
  ASSUME NEW m, NEW q, NEW w, Good(m, q, w), Apart(q, w), NEW s \in Sem
  PROVE  /\ w[s] = <<>> => Good(UnblockLink(m, s), q, w)
         /\ w[s] # <<>> => Good(UnblockLink(m, s), Append(q, Head(w[s])),
                                [w EXCEPT ![s] = Tail(w[s])])
<1>1. OnceEach(q) /\ Separate(w)
  BY DEF Apart
<1>2. CASE w[s] = <<>>
  <2>1. m.head[s] = Null /\ Good(Unlink(m, s), q, w)
    BY <1>1, <1>2, TakeWaiter
  <2>2. UnblockLink(m, s) = Unlink(m, s)
    BY <2>1 DEF UnblockLink
  <2> QED
    BY <1>2, <2>1, <2>2
<1>3. CASE w[s] # <<>>
  <2> DEFINE v == [w EXCEPT ![s] = Tail(w[s])]
             h == m.head[s]
             r == Unlink(m, s)
  <2>1. h = Head(w[s]) /\ h \in Thread /\ h # Null /\ Good(r, q, v)
    BY <1>1, <1>3, TakeWaiter
  <2>2. UnblockLink(m, s) = Link(r, "ready", h)
    BY <2>1, NullApart DEF UnblockLink, PutLink
  <2>3. h \in ToSet(w[s])
    BY <1>1, <1>3, <2>1, HeadList DEF Separate
  <2>4. h \notin ToSet(q)
    BY <2>3 DEF Apart
  <2> HIDE DEF v, h, r
  <2>5. Good(Link(r, "ready", h), Append(q, h), v)
    BY <1>1, <2>1, <2>4, PutReady
  <2> QED
    BY <1>3, <2>1, <2>2, <2>5 DEF v
<1> QED
  BY <1>2, <1>3

(* The first n waiters moved to the ready queue. *)
LEMMA MidwayApart ==
  ASSUME NEW q, NEW w, Apart(q, w), NEW s \in Sem, NEW n \in 0..Len(w[s])
  PROVE  Apart(q \o SubSeq(w[s], 1, n),
               [w EXCEPT ![s] = SubSeq(w[s], n + 1, Len(w[s]))])
<1> DEFINE a == SubSeq(w[s], 1, n)
           b == SubSeq(w[s], n + 1, Len(w[s]))
           v == [w EXCEPT ![s] = b]
<1>1. /\ OnceEach(q) /\ w \in [Sem -> Seq(Thread)] /\ w[s] \in Seq(Thread)
      /\ \A u \in Sem : IsInjective(w[u]) /\ ToSet(q) \cap ToSet(w[u]) = {}
      /\ \A u, x \in Sem : u # x => ToSet(w[u]) \cap ToSet(w[x]) = {}
  BY DEF Apart, Separate
<1>2. /\ a \in Seq(Thread) /\ b \in Seq(Thread)
      /\ ToSet(a) \cup ToSet(b) = ToSet(w[s])
      /\ IsInjective(a) /\ IsInjective(b) /\ ToSet(a) \cap ToSet(b) = {}
  BY <1>1, SplitList
<1>3. /\ v \in [Sem -> Seq(Thread)] /\ v[s] = b
      /\ \A u \in Sem : u # s => v[u] = w[u]
  BY <1>1, <1>2
<1> HIDE DEF a, b, v
<1>4. /\ q \o a \in Seq(Thread) /\ ToSet(q \o a) = ToSet(q) \cup ToSet(a)
      /\ ToSet(q) \cap ToSet(a) = {} => IsInjective(q \o a)
  BY <1>1, <1>2, ConcatList DEF OnceEach
<1>5. ToSet(q) \cap ToSet(a) = {}
  BY <1>1, <1>2
<1>6. OnceEach(q \o a)
  BY <1>4, <1>5 DEF OnceEach
<1>7. \A u \in Sem : IsInjective(v[u]) /\ ToSet(q \o a) \cap ToSet(v[u]) = {}
  BY <1>1, <1>2, <1>3, <1>4
<1>8. \A u, x \in Sem : u # x => ToSet(v[u]) \cap ToSet(v[x]) = {}
  BY <1>1, <1>2, <1>3
<1>9. Separate(v)
  BY <1>3, <1>7, <1>8 DEF Separate
<1> QED
  BY <1>6, <1>7, <1>9 DEF Apart, a, b, v

LEMMA OneMore ==
  ASSUME NEW q \in Seq(Thread), NEW p \in Seq(Thread), NEW k \in 1..Len(p)
  PROVE  /\ Append(q \o SubSeq(p, 1, k - 1), p[k]) = q \o SubSeq(p, 1, k)
         /\ SubSeq(p, k, Len(p)) # <<>>
         /\ Head(SubSeq(p, k, Len(p))) = p[k]
         /\ Tail(SubSeq(p, k, Len(p))) = SubSeq(p, k + 1, Len(p))
<1>1. /\ Len(p) \in Nat /\ k \in Int /\ 1 \in 1..Len(p) /\ k \in 1..k /\ Len(p) \in k..Len(p)
      /\ \A i \in 1..Len(p) : p[i] \in Thread
  BY LenProperties, ElementOfSeq
<1>2. /\ Head(SubSeq(p, k, Len(p))) = p[k]
      /\ Tail(SubSeq(p, k, Len(p))) = SubSeq(p, k + 1, Len(p))
  BY <1>1, HeadTailOfSubSeq
<1>3. SubSeq(p, k, Len(p)) # <<>>
  <2>1. \A i \in k..Len(p) : p[i] \in Thread
    BY <1>1
  <2>2. Len(SubSeq(p, k, Len(p))) = IF k <= Len(p) THEN Len(p) - k + 1 ELSE 0
    BY <1>1, <2>1, SubSeqProperties
  <2>3. Len(SubSeq(p, k, Len(p))) # 0
    BY <1>1, <2>2
  <2> QED
    BY <2>3, EmptySeq
<1>4. SubSeq(p, 1, k) = SubSeq(p, 1, k - 1) \o <<p[k]>>
  <2>1. k \in 1..Len(p)
    OBVIOUS
  <2> QED
    BY <1>1, <2>1, SubSeqRecursiveSecond
<1>5. SubSeq(p, 1, k - 1) \in Seq(Thread)
  <2>1. k - 1 \in 0..Len(p)
    BY <1>1
  <2> QED
    BY <2>1, SplitList
<1>6. p[k] \in Thread /\ <<p[k]>> \in Seq(Thread)
  BY <1>1, OneList
<1> DEFINE a == SubSeq(p, 1, k - 1)
<1> HIDE DEF a
<1>7. a \in Seq(Thread) /\ q \o a \in Seq(Thread)
  BY <1>5, ConcatList DEF a
<1>8. Append(q \o a, p[k]) = (q \o a) \o <<p[k]>>
  BY <1>6, <1>7, AppendIsConcat
<1>9. (q \o a) \o <<p[k]>> = q \o (a \o <<p[k]>>)
  <2> DEFINE x == <<p[k]>>
             y == (q \o a) \o x
             z == q \o (a \o x)
  <2>1. x \in Seq(Thread)
    BY <1>6
  <2> HIDE DEF x
  <2>2. /\ Len(q) \in Nat /\ Len(a) \in Nat /\ Len(x) \in Nat
        /\ a \o x \in Seq(Thread) /\ Len(a \o x) = Len(a) + Len(x)
        /\ Len(q \o a) = Len(q) + Len(a)
    BY <1>7, <2>1, ConcatProperties, LenProperties
  <2>3. /\ y \in Seq(Thread) /\ Len(y) = Len(q \o a) + Len(x)
        /\ z \in Seq(Thread) /\ Len(z) = Len(q) + Len(a \o x)
    BY <1>7, <2>1, <2>2, ConcatProperties
  <2>4. ASSUME NEW i \in 1..(Len(q) + (Len(a) + Len(x)))
        PROVE  y[i] = z[i]
    <3>1. y[i] = IF i <= Len(q \o a) THEN (q \o a)[i] ELSE x[i - Len(q \o a)]
      BY <1>7, <2>1, <2>2, ConcatProperties
    <3>2. z[i] = IF i <= Len(q) THEN q[i] ELSE (a \o x)[i - Len(q)]
      BY <1>7, <2>1, <2>2, ConcatProperties
    <3>3. i <= Len(q) + Len(a) =>
            (q \o a)[i] = IF i <= Len(q) THEN q[i] ELSE a[i - Len(q)]
      BY <1>7, <2>2, ConcatProperties
    <3>4. i > Len(q) =>
            (a \o x)[i - Len(q)] = IF i - Len(q) <= Len(a) THEN a[i - Len(q)]
                                   ELSE x[(i - Len(q)) - Len(a)]
      <4>1. i > Len(q) => i - Len(q) \in 1..(Len(a) + Len(x))
        BY <2>2
      <4> QED
        BY <1>7, <2>1, <4>1, ConcatProperties
    <3>5. i - (Len(q) + Len(a)) = (i - Len(q)) - Len(a)
      BY <2>2
    <3> HIDE DEF y, z
    <3> QED
      BY <2>2, <3>1, <3>2, <3>3, <3>4, <3>5
  <2> HIDE DEF y, z
  <2>5. y = z
    <3>1. Len(y) = Len(z) /\ \A i \in 1..Len(y) : y[i] = z[i]
      BY <2>2, <2>3, <2>4
    <3> QED
      BY <2>3, <3>1, SeqEqual
  <2> QED
    BY <2>5 DEF x, y, z
<1> QED
  BY <1>2, <1>3, <1>4, <1>8, <1>9 DEF a

-------------------------------------------------------------------------------
(* sem_close: the waiters of s go to the ready queue in order. *)
LEMMA SignalsMove ==
  ASSUME NEW m, NEW q, NEW w, Good(m, q, w), Apart(q, w), NEW s \in Sem,
         NEW n, n = Len(w[s])
  PROVE  Good(SignalsLink(m, s, n), q \o w[s], [w EXCEPT ![s] = <<>>])
<1>1. /\ m \in Links /\ s \in Lists /\ s # "ready" /\ "ready" \in Lists
      /\ w \in [Sem -> Seq(Thread)] /\ w[s] \in Seq(Thread) /\ q \in Seq(Thread)
  BY ListNames DEF Good, Apart, Separate, OnceEach
<1>2. n \in Nat
  BY <1>1, LenProperties
<1> DEFINE after[k \in 0..n] == IF k = 0 THEN m ELSE UnblockLink(after[k - 1], s)
<1>3. SignalsLink(m, s, n) = after[n]
  BY DEF SignalsLink
<1>4. \A x \in Links : UnblockLink(x, s) \in Links
  <2> TAKE x \in Links
  <2>1. Unlink(x, s) \in Links
    BY <1>1, UnlinkMaps
  <2>2. CASE x.head[s] = Null
    BY <2>1, <2>2 DEF UnblockLink
  <2>3. CASE x.head[s] # Null
    <3>1. x.head[s] \in Thread
      BY <1>1, <2>3 DEF Links, MaybeThread
    <3>2. Linked(Unlink(x, s), "ready", x.head[s], Link(Unlink(x, s), "ready", x.head[s]))
      BY <1>1, <2>1, <3>1, LinkMaps
    <3>3. UnblockLink(x, s) = Link(Unlink(x, s), "ready", x.head[s])
      BY <2>3, <3>1, NullApart DEF UnblockLink, PutLink
    <3> QED
      BY <3>2, <3>3 DEF Linked
  <2> QED
    BY <2>2, <2>3
<1>5. after = [k \in 0..n |-> IF k = 0 THEN m ELSE UnblockLink(after[k - 1], s)]
  <2> DEFINE F == [a \in (1..n) \X Links |-> UnblockLink(a[2], s)]
  <2>1. F \in [(1..n) \X Links -> Links]
    BY <1>4
  <2>2. \A k \in 1..n, x \in Links : F[<<k, x>>] = UnblockLink(x, s)
    OBVIOUS
  <2> HIDE DEF F
  <2>3. PICK g \in Passes(Links, n, m, F) : TRUE
    <3>1. Passes(Links, n, m, F) # {}
      BY <1>1, <1>2, <2>1, PassesExist
    <3> QED
      BY <3>1
  <2>4. /\ g \in [0..n -> Links] /\ g[0] = m
        /\ \A k \in 1..n : g[k] = F[<<k, g[k - 1]>>]
    BY <2>3 DEF Passes
  <2>5. \A k \in 1..n : g[k] = UnblockLink(g[k - 1], s)
    <3> TAKE k \in 1..n
    <3>1. k - 1 \in 0..n
      BY <1>2
    <3> QED
      BY <2>2, <2>4, <3>1
  <2>6. \A k \in 0..n : k # 0 => k \in 1..n
    BY <1>2
  <2>7. g = [k \in 0..n |-> IF k = 0 THEN m ELSE UnblockLink(g[k - 1], s)]
    BY <2>4, <2>5, <2>6
  <2> QED
    BY <2>7
<1> HIDE DEF after
<1>6. /\ after[0] = m
      /\ \A k \in 1..n : after[k] = UnblockLink(after[k - 1], s)
  <2>1. 0 \in 0..n /\ \A k \in 1..n : k \in 0..n /\ k # 0
    BY <1>2
  <2> QED
    BY <1>5, <2>1
<1> DEFINE at(k) == Good(after[k], q \o SubSeq(w[s], 1, k),
                         [w EXCEPT ![s] = SubSeq(w[s], k + 1, n)])
<1>7. at(0)
  <2>1. SubSeq(w[s], 1, 0) = <<>> /\ SubSeq(w[s], 1, n) = w[s]
    BY <1>1, <1>2, SubSeqEmpty, SubSeqFull
  <2>2. q \o <<>> = q
    BY <1>1, ConcatEmptySeq
  <2>3. [w EXCEPT ![s] = w[s]] = w
    BY <1>1
  <2>4. 0 + 1 = 1
    OBVIOUS
  <2>5. q \o SubSeq(w[s], 1, 0) = q /\ [w EXCEPT ![s] = SubSeq(w[s], 0 + 1, n)] = w
    BY <2>1, <2>2, <2>3, <2>4
  <2> DEFINE p == q \o SubSeq(w[s], 1, 0)
             v == [w EXCEPT ![s] = SubSeq(w[s], 0 + 1, n)]
  <2>6. p = q /\ v = w
    BY <2>5
  <2> HIDE DEF p, v
  <2>7. Good(after[0], p, v)
    BY <1>6, <2>6
  <2> QED
    BY <2>7 DEF p, v
<1>8. ASSUME NEW k \in 1..n, at(k - 1) PROVE at(k)
  <2> DEFINE p == q \o SubSeq(w[s], 1, k - 1)
             v == [w EXCEPT ![s] = SubSeq(w[s], (k - 1) + 1, n)]
             x == after[k - 1]
  <2>1. k - 1 \in 0..Len(w[s]) /\ (k - 1) + 1 = k /\ k \in 1..Len(w[s])
    BY <1>2
  <2>2. Good(x, p, v)
    BY <1>8
  <2>3. Apart(p, v)
    BY <2>1, MidwayApart
  <2>4. v[s] = SubSeq(w[s], k, n)
    BY <1>1, <2>1
  <2>5. /\ Append(p, w[s][k]) = q \o SubSeq(w[s], 1, k)
        /\ v[s] # <<>> /\ Head(v[s]) = w[s][k]
        /\ Tail(v[s]) = SubSeq(w[s], k + 1, n)
    BY <1>1, <2>1, <2>4, OneMore
  <2>6. [v EXCEPT ![s] = SubSeq(w[s], k + 1, n)] = [w EXCEPT ![s] = SubSeq(w[s], k + 1, n)]
    BY <1>1
  <2> HIDE DEF p, v, x
  <2>7. Good(UnblockLink(x, s), Append(p, Head(v[s])), [v EXCEPT ![s] = Tail(v[s])])
    BY <2>2, <2>3, <2>5, UnblockOne
  <2> QED
    BY <1>6, <2>5, <2>6, <2>7 DEF x
<1> HIDE DEF at
<1>9. at(n)
  <2> DEFINE good == {k \in 0..n : at(k)}
  <2>1. good \in SUBSET (0..n) /\ 0 \in good
    BY <1>2, <1>7
  <2>2. \A k \in 1..n : k - 1 \in good => k \in good
    BY <1>2, <1>8
  <2>3. n \in good
    BY <1>2, <2>1, <2>2, Climbs
  <2> QED
    BY <2>3
<1>10. SubSeq(w[s], 1, n) = w[s] /\ SubSeq(w[s], n + 1, n) = <<>>
  <2>1. n < n + 1 /\ n + 1 \in Int /\ n \in Int
    BY <1>2
  <2> QED
    BY <1>1, <2>1, SubSeqEmpty, SubSeqFull
<1> QED
  BY <1>3, <1>9, <1>10 DEF at

(* wakeSleepingThreads: the threads of p go to the ready queue in order. *)
LEMMA PutsMove ==
  ASSUME NEW m, NEW q, NEW w, Good(m, q, w), OnceEach(q),
         NEW p, OnceEach(p), ToSet(q) \cap ToSet(p) = {}
  PROVE  Good(PutsLink(m, p), q \o p, w)
<1> DEFINE n == Len(p)
<1>1. m \in Links /\ p \in Seq(Thread) /\ q \in Seq(Thread) /\ "ready" \in Lists
  BY ListNames DEF Good, OnceEach
<1>2. n \in Nat /\ \A k \in 1..n : p[k] \in Thread /\ p[k] # Idle
  BY <1>1, LenProperties, ElementOfSeq, NullApart
<1> DEFINE after[k \in 0..Len(p)] == IF k = 0 THEN m ELSE PutLink(after[k - 1], p[k])
<1>3. PutsLink(m, p) = after[n]
  BY DEF PutsLink
<1>4. \A x \in Links, k \in 1..n : PutLink(x, p[k]) \in Links
  <2> TAKE x \in Links, k \in 1..n
  <2>1. Linked(x, "ready", p[k], Link(x, "ready", p[k]))
    BY <1>1, <1>2, LinkMaps
  <2>2. PutLink(x, p[k]) = Link(x, "ready", p[k])
    BY <1>2 DEF PutLink
  <2> QED
    BY <2>1, <2>2 DEF Linked
<1>5. after = [k \in 0..n |-> IF k = 0 THEN m ELSE PutLink(after[k - 1], p[k])]
  <2> DEFINE F == [a \in (1..n) \X Links |-> PutLink(a[2], p[a[1]])]
  <2>1. F \in [(1..n) \X Links -> Links]
    BY <1>4
  <2>2. \A k \in 1..n, x \in Links : F[<<k, x>>] = PutLink(x, p[k])
    OBVIOUS
  <2> HIDE DEF F
  <2>3. PICK g \in Passes(Links, n, m, F) : TRUE
    <3>1. Passes(Links, n, m, F) # {}
      BY <1>1, <1>2, <2>1, PassesExist
    <3> QED
      BY <3>1
  <2>4. /\ g \in [0..n -> Links] /\ g[0] = m
        /\ \A k \in 1..n : g[k] = F[<<k, g[k - 1]>>]
    BY <2>3 DEF Passes
  <2>5. \A k \in 1..n : g[k] = PutLink(g[k - 1], p[k])
    <3> TAKE k \in 1..n
    <3>1. k - 1 \in 0..n
      BY <1>2
    <3> QED
      BY <2>2, <2>4, <3>1
  <2>6. \A k \in 0..n : k # 0 => k \in 1..n
    BY <1>2
  <2>7. g = [k \in 0..n |-> IF k = 0 THEN m ELSE PutLink(g[k - 1], p[k])]
    BY <2>4, <2>5, <2>6
  <2> QED
    BY <2>7
<1> HIDE DEF after
<1>6. /\ after[0] = m
      /\ \A k \in 1..n : after[k] = PutLink(after[k - 1], p[k])
  <2>1. 0 \in 0..n /\ \A k \in 1..n : k \in 0..n /\ k # 0
    BY <1>2
  <2> QED
    BY <1>5, <2>1
<1> DEFINE at(k) == Good(after[k], q \o SubSeq(p, 1, k), w)
<1>7. at(0)
  <2>1. SubSeq(p, 1, 0) = <<>> /\ q \o <<>> = q
    BY <1>1, SubSeqEmpty, ConcatEmptySeq
  <2>2. q \o SubSeq(p, 1, 0) = q
    BY <2>1
  <2> DEFINE r == q \o SubSeq(p, 1, 0)
  <2>3. r = q
    BY <2>2
  <2> HIDE DEF r
  <2>4. Good(after[0], r, w)
    BY <1>6, <2>3
  <2> QED
    BY <2>4 DEF r
<1>8. ASSUME NEW k \in 1..n, at(k - 1) PROVE at(k)
  <2> DEFINE a == SubSeq(p, 1, k - 1)
             b == SubSeq(p, (k - 1) + 1, Len(p))
             x == after[k - 1]
  <2>1. k - 1 \in 0..Len(p) /\ (k - 1) + 1 = k /\ k \in 1..Len(p)
    BY <1>2
  <2>2. Good(x, q \o a, w)
    BY <1>8
  <2>3. /\ a \in Seq(Thread) /\ IsInjective(a) /\ ToSet(a) \cap ToSet(b) = {}
        /\ ToSet(a) \cup ToSet(b) = ToSet(p)
    BY <1>1, <2>1, SplitList DEF OnceEach
  <2>4. p[k] \in ToSet(b)
    <3>1. /\ SubSeq(p, k, Len(p)) # <<>> /\ Head(SubSeq(p, k, Len(p))) = p[k]
      BY <1>1, <2>1, OneMore
    <3>2. b # <<>> /\ Head(b) = p[k]
      BY <2>1, <3>1
    <3>3. b \in Seq(Thread)
      BY <1>1, <2>1, SplitList
    <3> HIDE DEF b
    <3> QED
      BY <3>2, <3>3, HeadList
  <2>5. Append(q \o a, p[k]) = q \o SubSeq(p, 1, k)
    BY <1>1, <2>1, OneMore
  <2> HIDE DEF a, b, x
  <2>6. p[k] \in Thread /\ p[k] # Idle /\ p[k] \notin ToSet(a) /\ p[k] \notin ToSet(q)
    BY <1>2, <2>3, <2>4
  <2>7. OnceEach(q \o a) /\ p[k] \notin ToSet(q \o a)
    <3>1. ToSet(q) \cap ToSet(a) = {}
      BY <2>3
    <3>2. /\ q \o a \in Seq(Thread) /\ ToSet(q \o a) = ToSet(q) \cup ToSet(a)
          /\ IsInjective(q \o a)
      BY <1>1, <2>3, <3>1, ConcatList DEF OnceEach
    <3> QED
      BY <2>6, <3>2 DEF OnceEach
  <2>8. Good(Link(x, "ready", p[k]), Append(q \o a, p[k]), w)
    BY <2>2, <2>6, <2>7, PutReady
  <2>9. after[k] = Link(x, "ready", p[k])
    BY <1>6, <2>6 DEF PutLink, x
  <2> QED
    BY <2>5, <2>8, <2>9
<1> HIDE DEF at
<1>9. at(n)
  <2> DEFINE good == {k \in 0..n : at(k)}
  <2>1. good \in SUBSET (0..n) /\ 0 \in good
    BY <1>2, <1>7
  <2>2. \A k \in 1..n : k - 1 \in good => k \in good
    BY <1>2, <1>8
  <2>3. n \in good
    BY <1>2, <2>1, <2>2, Climbs
  <2> QED
    BY <2>3
<1>10. SubSeq(p, 1, n) = p
  BY <1>1, SubSeqFull
<1> QED
  BY <1>3, <1>9, <1>10 DEF at

-------------------------------------------------------------------------------
(* TCB::dispatch, when the ready queue is q. *)
LEMMA DispatchMoves ==
  ASSUME NEW m, NEW q, NEW w, Good(m, q, w), OnceEach(q),
         running \in Thread \cup {Idle}, running \notin ToSet(q), Dispatch(q)
  PROVE  Good(DispatchLink(m), ready', w)
<1>1. CASE running \notin finished' \cup blocked' \cup sleeping' /\ running # Idle
  <2> DEFINE r == Link(m, "ready", running)
             p == Append(q, running)
  <2>1. running \in Thread
    BY <1>1
  <2>2. Good(r, p, w)
    BY <2>1, PutReady
  <2>3. OnceEach(p)
    BY <2>1, AppendList DEF OnceEach
  <2>4. ready' = RestOf(p) /\ DispatchLink(m) = Unlink(r, "ready")
    BY <1>1 DEF Dispatch, DispatchLink, Put, PutLink
  <2> HIDE DEF r, p
  <2>5. Good(Unlink(r, "ready"), RestOf(p), w)
    BY <2>2, <2>3, GetReady
  <2> QED
    BY <2>4, <2>5
<1>2. CASE ~(running \notin finished' \cup blocked' \cup sleeping' /\ running # Idle)
  <2>1. ready' = RestOf(q) /\ DispatchLink(m) = Unlink(m, "ready")
    BY <1>2 DEF Dispatch, DispatchLink, Put, PutLink
  <2>2. Good(Unlink(m, "ready"), RestOf(q), w)
    BY GetReady
  <2> QED
    BY <2>1, <2>2
<1> QED
  BY <1>1, <1>2

(* The dispatch at the end of a system call, and of a time slice. *)
LEMMA TrailingMoves ==
  ASSUME NEW m, NEW q, NEW w, Good(m, q, w), OnceEach(q),
         running \in Thread \cup {Idle}, running \notin ToSet(q),
         \/ q # <<>> /\ Dispatch(q)
         \/ q = <<>> /\ ready' = q
  PROVE  Good(TrailingLink(m), ready', w)
<1>1. m.head["ready"] = Null <=> q = <<>>
  BY GetReady
<1>2. CASE q # <<>> /\ Dispatch(q)
  <2>1. TrailingLink(m) = DispatchLink(m)
    BY <1>1, <1>2 DEF TrailingLink
  <2>2. Good(DispatchLink(m), ready', w)
    BY <1>2, DispatchMoves
  <2> QED
    BY <2>1, <2>2
<1>3. CASE q = <<>> /\ ready' = q
  BY <1>1, <1>3 DEF TrailingLink
<1> QED
  BY <1>2, <1>3

(* What the invariant of the kernel says of the lists. *)
LEMMA ListsOf ==
  ASSUME IInv
  PROVE  /\ OnceEach(ready) /\ Separate(waiters) /\ Apart(ready, waiters)
         /\ running \in Thread \cup {Idle} /\ running \notin ToSet(ready)
         /\ \A s \in Sem : ToSet(waiters[s]) \subseteq blocked
<1>1. /\ OnceEach(ready) /\ Separate(waiters)
      /\ \A s \in Sem : ToSet(waiters[s]) \subseteq blocked
  BY DEF IInv, RunPart, SemPart, WaitLists, OnceEach, Separate
<1>2. \A s \in Sem : ToSet(ready) \cap ToSet(waiters[s]) = {}
  BY <1>1 DEF IInv, RunPart
<1> QED
  BY <1>1, <1>2 DEF Apart, IInv, RunPart

(* A thread that was not started is in no list. *)
LEMMA NotStarted ==
  ASSUME IInv, NEW t \in Thread, t \notin started
  PROVE  /\ t # running /\ t # Idle /\ t \notin ToSet(ready)
         /\ \A s \in Sem : t \notin ToSet(waiters[s])
<1>1. t # Idle
  BY NullApart
<1>2. t \notin blocked
  BY DEF IInv, StartedPart
<1> QED
  BY <1>1, <1>2, ListsOf DEF IInv, StartedPart

LEMMA DispatchedLists ==
  ASSUME IInv, Good(links, ready, waiters), Dispatched
  PROVE  Good(links', ready', waiters')
<1>1. TrailingDispatch(ready) /\ waiters' = waiters /\ links' = TrailingLink(links)
  BY DEF Dispatched, ThreadDispatch, ThreadExit, semVars
<1>2. \/ ready # <<>> /\ Dispatch(ready)
      \/ ready = <<>> /\ ready' = ready
  BY <1>1 DEF TrailingDispatch
<1>3. Good(TrailingLink(links), ready', waiters)
  BY <1>2, ListsOf, TrailingMoves
<1> QED
  BY <1>1, <1>3

LEMMA StartedLists ==
  ASSUME IInv, Good(links, ready, waiters), NEW t \in Thread, Started(t)
  PROVE  Good(links', ready', waiters')
<1> DEFINE q == Append(ready, t)
           m == Link(links, "ready", t)
<1>1. /\ t \notin started /\ waiters' = waiters
      /\ TrailingDispatch(Put(ready, t)) /\ links' = TrailingLink(PutLink(links, t))
  BY DEF Started, ThreadStart, semVars
<1>2. t # Idle /\ t # running /\ t \notin ToSet(ready)
  BY <1>1, NotStarted
<1>3. TrailingDispatch(q) /\ links' = TrailingLink(m)
  BY <1>1, <1>2 DEF Put, PutLink
<1>4. Good(m, q, waiters)
  BY <1>2, ListsOf, PutReady
<1>5. OnceEach(q) /\ running \notin ToSet(q)
  BY <1>2, ListsOf, AppendList DEF OnceEach
<1> HIDE DEF q, m
<1>6. \/ q # <<>> /\ Dispatch(q)
      \/ q = <<>> /\ ready' = q
  BY <1>3 DEF TrailingDispatch
<1>7. Good(TrailingLink(m), ready', waiters)
  BY <1>4, <1>5, <1>6, ListsOf, TrailingMoves
<1> QED
  BY <1>1, <1>3, <1>7

(* Clearing the links of a thread that is in no list changes nothing. *)
LEMMA CreatedLists ==
  ASSUME IInv, Good(links, ready, waiters), NEW t \in Thread, NEW start \in BOOLEAN,
         Created(t, start)
  PROVE  Good(links', ready', waiters')
<1> DEFINE m == [links EXCEPT !["nextTCB"][t] = Null, !["nextSem"][t] = Null]
<1>1. ThreadCreate(t, start) /\ links' = TrailingLink(IF start THEN PutLink(m, t) ELSE m)
  BY DEF Created
<1>2. /\ t \notin created /\ waiters' = waiters
      /\ ~start => TrailingDispatch(ready)
      /\ start => \E id \in StaleId : TrailingDispatch(QueueNew(ready, t, id))
  BY <1>1 DEF ThreadCreate, semVars
<1>3. start => TrailingDispatch(Append(ready, t))
  BY <1>2, ObjectsAssumption DEF QueueNew, ObjectsAssumption
<1>4. t \notin started
  BY <1>2 DEF IInv, ThreadPart
<1>5. /\ t # Idle /\ t # running /\ t \notin ToSet(ready)
      /\ \A s \in Sem : t \notin ToSet(waiters[s])
  BY <1>4, NotStarted
<1>6. m = links
  <2>1. links \in Links /\ links.nextTCB[t] = Null /\ links.nextSem[t] = Null
    BY <1>5 DEF Good, Readies, Waits
  <2> QED
    BY <2>1 DEF Links
<1> DEFINE q == IF start THEN Append(ready, t) ELSE ready
           r == IF start THEN Link(links, "ready", t) ELSE links
<1>7. links' = TrailingLink(r) /\ TrailingDispatch(q)
  BY <1>1, <1>2, <1>3, <1>5, <1>6 DEF PutLink
<1>8. Good(r, q, waiters)
  BY <1>5, ListsOf, PutReady
<1>9. OnceEach(q) /\ running \notin ToSet(q)
  BY <1>5, ListsOf, AppendList DEF OnceEach
<1> HIDE DEF q, r
<1>10. \/ q # <<>> /\ Dispatch(q)
       \/ q = <<>> /\ ready' = q
  BY <1>7 DEF TrailingDispatch
<1>11. Good(TrailingLink(r), ready', waiters)
  BY <1>8, <1>9, <1>10, ListsOf, TrailingMoves
<1> QED
  BY <1>2, <1>7, <1>11

LEMMA OpenedLists ==
  ASSUME IInv, Good(links, ready, waiters), NEW s \in Sem, NEW init \in 0..MaxInit,
         Opened(s, init)
  PROVE  Good(links', ready', waiters')
<1> DEFINE m == [links EXCEPT !["head"][s] = Null, !["tail"][s] = Null]
<1>1. SemOpen(s, init) /\ links' = TrailingLink(m)
  BY DEF Opened
<1>2. waiters[s] = <<>>
  BY <1>1 DEF SemOpen, IInv, SemPart, ValueCountsWaiters
<1>3. waiters' = waiters
  BY <1>1, <1>2, ListsOf DEF SemOpen, Separate
<1>4. links \in Links /\ s \in Lists /\ "ready" \in Lists /\ s # "ready"
  BY ListNames DEF Good
<1>5. /\ m \in Links /\ m.nextTCB = links.nextTCB /\ m.nextSem = links.nextSem
      /\ m.head = [links.head EXCEPT ![s] = Null]
      /\ m.tail = [links.tail EXCEPT ![s] = Null]
  BY <1>4 DEF Links, MaybeThread
<1> HIDE DEF m
<1>6. /\ m.head["ready"] = links.head["ready"] /\ m.tail["ready"] = links.tail["ready"]
      /\ m.head[s] = Null
      /\ \A u \in Sem : u # s => m.head[u] = links.head[u] /\ m.tail[u] = links.tail[u]
  BY <1>4, <1>5, ListNames DEF Links
<1>7. Readies(m, ready)
  BY <1>5, <1>6 DEF Good, Readies
<1>8. ASSUME NEW u \in Sem
      PROVE  Spelled(m.head[u], m.tail[u], m.nextSem, waiters[u])
  <2>1. CASE u = s
    BY <1>2, <1>6, <2>1 DEF Spelled
  <2>2. CASE u # s
    BY <1>5, <1>6, <2>2 DEF Good, Waits
  <2> QED
    BY <2>1, <2>2
<1>9. Waits(m, waiters)
  BY <1>5, <1>8 DEF Good, Waits
<1>10. Good(m, ready, waiters)
  BY <1>5, <1>7, <1>9 DEF Good
<1>11. \/ ready # <<>> /\ Dispatch(ready)
       \/ ready = <<>> /\ ready' = ready
  BY <1>1 DEF SemOpen, TrailingDispatch
<1>12. Good(TrailingLink(m), ready', waiters)
  BY <1>10, <1>11, ListsOf, TrailingMoves
<1> QED
  BY <1>1, <1>3, <1>12

LEMMA ClosedLists ==
  ASSUME IInv, Good(links, ready, waiters), NEW s \in Sem, Closed(s)
  PROVE  Good(links', ready', waiters')
<1> DEFINE n == IF val[s] < 0 THEN -val[s] ELSE 0
           m == SignalsLink(links, s, n)
           q == ready \o waiters[s]
           w == [waiters EXCEPT ![s] = <<>>]
<1>1. /\ SemClose(s) /\ links' = TrailingLink(m)
      /\ s \in open /\ waiters' = w
      /\ TrailingDispatch(ready \o WokenByClose(s))
  BY DEF Closed, SemClose
<1>2. n = Len(waiters[s])
  BY <1>1 DEF IInv, SemPart, ValueCountsWaiters
<1>3. WokenByClose(s) = waiters[s]
  BY <1>1, CloseWakesAll DEF IInv
<1> HIDE DEF n
<1>4. Good(m, q, w)
  BY <1>2, ListsOf, SignalsMove
<1>5. waiters[s] \in Seq(Thread) /\ IsInjective(waiters[s]) /\ ToSet(ready) \cap ToSet(waiters[s]) = {}
  BY ListsOf DEF Separate, Apart
<1>6. OnceEach(q) /\ ToSet(q) = ToSet(ready) \cup ToSet(waiters[s])
  BY <1>5, ListsOf, ConcatList DEF OnceEach
<1>7. running \notin ToSet(q)
  BY <1>6, ListsOf DEF IInv, RunPart
<1>8. TrailingDispatch(q)
  BY <1>1, <1>3
<1> HIDE DEF m, q, w
<1>9. \/ q # <<>> /\ Dispatch(q)
      \/ q = <<>> /\ ready' = q
  BY <1>8 DEF TrailingDispatch
<1>10. Good(TrailingLink(m), ready', w)
  BY <1>4, <1>6, <1>7, <1>9, ListsOf, TrailingMoves
<1> QED
  BY <1>1, <1>10

LEMMA WaitedLists ==
  ASSUME IInv, Good(links, ready, waiters), NEW s \in Sem, Waited(s)
  PROVE  Good(links', ready', waiters')
<1>1. /\ running # Idle
      /\ links' = IF running \in blocked' THEN DispatchLink(Link(links, s, running))
                                          ELSE links
      /\ \/ /\ waiters' = [waiters EXCEPT ![s] = Append(waiters[s], running)]
            /\ blocked' = blocked \cup {running} /\ Dispatch(ready)
         \/ UNCHANGED <<waiters, blocked, ready>>
  BY DEF Waited, SemWait
<1>2. running \in Thread /\ running \notin blocked /\ running \notin ToSet(ready)
  BY <1>1, ListsOf DEF IInv, RunPart
<1>3. CASE UNCHANGED <<waiters, blocked, ready>>
  BY <1>1, <1>2, <1>3
<1>4. CASE /\ waiters' = [waiters EXCEPT ![s] = Append(waiters[s], running)]
           /\ blocked' = blocked \cup {running} /\ Dispatch(ready)
  <2> DEFINE m == Link(links, s, running)
             w == [waiters EXCEPT ![s] = Append(waiters[s], running)]
  <2>1. links' = DispatchLink(m)
    BY <1>1, <1>4
  <2>2. \A u \in Sem : running \notin ToSet(waiters[u])
    BY <1>2, ListsOf
  <2>3. Good(m, ready, w)
    BY <1>2, <2>2, ListsOf, PutWaiter
  <2> HIDE DEF m, w
  <2>4. Good(DispatchLink(m), ready', w)
    BY <1>4, <2>3, ListsOf, DispatchMoves
  <2> QED
    BY <1>4, <2>1, <2>4 DEF w
<1> QED
  BY <1>1, <1>3, <1>4

LEMMA SignalledLists ==
  ASSUME IInv, Good(links, ready, waiters), NEW s \in Sem, Signalled(s)
  PROVE  Good(links', ready', waiters')
<1>1. /\ s \in open
      /\ links' = IF val[s] + 1 <= 0 THEN UnblockLink(links, s) ELSE links
      /\ \/ /\ Unblocks(s)
            /\ waiters' = [waiters EXCEPT ![s] = Tail(waiters[s])]
            /\ ready' = Put(ready, Head(waiters[s]))
         \/ ~Unblocks(s) /\ UNCHANGED <<waiters, ready>>
  BY DEF Signalled, SemSignal
<1>2. /\ waiters[s] = <<>> => Good(UnblockLink(links, s), ready, waiters)
      /\ waiters[s] # <<>> => Good(UnblockLink(links, s), Append(ready, Head(waiters[s])),
                                   [waiters EXCEPT ![s] = Tail(waiters[s])])
  BY ListsOf, UnblockOne
<1>3. waiters[s] \in Seq(Thread)
  BY ListsOf DEF Separate
<1>4. waiters[s] # <<>> => Head(waiters[s]) # Idle
  BY <1>3, HeadList, NullApart
<1>5. CASE Unblocks(s)
  <2>1. val[s] + 1 <= 0 /\ waiters[s] # <<>>
    BY <1>5 DEF Unblocks
  <2>2. Put(ready, Head(waiters[s])) = Append(ready, Head(waiters[s]))
    BY <1>4, <2>1 DEF Put
  <2> QED
    BY <1>1, <1>2, <1>5, <2>1, <2>2
<1>6. CASE ~Unblocks(s)
  <2>1. UNCHANGED <<waiters, ready>>
    BY <1>1, <1>6
  <2>2. CASE val[s] + 1 <= 0
    <3>1. waiters[s] = <<>>
      BY <1>6, <2>2 DEF Unblocks
    <3> QED
      BY <1>1, <1>2, <2>1, <2>2, <3>1
  <2>3. CASE ~(val[s] + 1 <= 0)
    BY <1>1, <2>1, <2>3
  <2> QED
    BY <2>2, <2>3
<1> QED
  BY <1>5, <1>6

LEMMA SleptLists ==
  ASSUME IInv, Good(links, ready, waiters), NEW t \in 1..MaxSleep, Slept(t)
  PROVE  Good(links', ready', waiters')
<1>1. links' = DispatchLink(links) /\ Dispatch(ready) /\ waiters' = waiters
  BY DEF Slept, TimeSleep, semVars
<1>2. Good(DispatchLink(links), ready', waiters)
  BY <1>1, ListsOf, DispatchMoves
<1> QED
  BY <1>1, <1>2

LEMMA TickedLists ==
  ASSUME IInv, Good(links, ready, waiters), Ticked
  PROVE  Good(links', ready', waiters')
<1> DEFINE q == ready \o Woken
           m == PutsLink(links, Woken)
<1>1. Tick /\ links' = IF timeSliceCounter' = 0 THEN TrailingLink(m) ELSE m
  BY DEF Ticked
<1>2. /\ waiters' = waiters
      /\ \/ /\ timeSliceCounter' = 0
            /\ \/ q # <<>> /\ Dispatch(q)
               \/ q = <<>> /\ ready' = q
         \/ /\ timeSliceCounter' = timeSliceCounter + 1
            /\ ready' = q
  BY <1>1 DEF Tick, semVars
<1>3. timeSliceCounter + 1 # 0
  BY DEF IInv, CounterPart
<1>4. Woken \in Seq(Thread) /\ IsInjective(Woken) /\ ToSet(Woken) \subseteq sleeping
  BY <1>1, TickStep DEF IInv
<1>5. ToSet(ready) \cap ToSet(Woken) = {} /\ OnceEach(Woken)
  BY <1>4 DEF IInv, RunPart, OnceEach
<1>6. Good(m, q, waiters)
  BY <1>5, ListsOf, PutsMove
<1>7. OnceEach(q) /\ running \notin ToSet(q)
  <2>1. q \in Seq(Thread) /\ ToSet(q) = ToSet(ready) \cup ToSet(Woken) /\ IsInjective(q)
    BY <1>4, <1>5, ListsOf, ConcatList DEF OnceEach
  <2> QED
    BY <1>4, <2>1 DEF OnceEach, IInv, RunPart
<1> HIDE DEF m, q
<1>8. CASE timeSliceCounter' = 0
  <2>1. \/ q # <<>> /\ Dispatch(q)
        \/ q = <<>> /\ ready' = q
    BY <1>2, <1>3, <1>8
  <2>2. Good(TrailingLink(m), ready', waiters)
    BY <1>6, <1>7, <2>1, ListsOf, TrailingMoves
  <2> QED
    BY <1>1, <1>2, <1>8, <2>2
<1>9. CASE timeSliceCounter' # 0
  <2>1. links' = m /\ ready' = q
    BY <1>1, <1>2, <1>9
  <2> QED
    BY <1>2, <1>6, <2>1
<1> QED
  BY <1>8, <1>9

-------------------------------------------------------------------------------
(* What a thread in a wait will answer. *)
Causes == {"none", "waiting", "signal", "close", "reused"}

Answered(a, d) ==
  a \in {"signal", "close", "reused"} /\ (a = "signal" => ~d) /\ (a = "close" => d)

(* Thread t is on the list of the semaphore it waits on and nothing has     *)
(* happened to the wait; or something has, and the flag agrees with it.     *)
Held(t, w, c, d, lists, b) ==
  /\ \A s \in Sem : t \in ToSet(lists[s]) => w[t] = s /\ c[t] = "waiting"
  /\ w[t] # Null /\ t \notin b => Answered(c[t], d[w[t]])

WaitPart ==
  /\ dealoc \in [Sem -> BOOLEAN]
  /\ waitIn \in [Thread -> Sem \cup {Null}]
  /\ cause \in [Thread -> Causes]
  /\ \A t \in Thread : Held(t, waitIn, cause, dealoc, waiters, blocked)
  /\ running \in Thread => waitIn[running] = Null
  /\ \A s \in open : ~dealoc[s]

ObjectsInv == IInv /\ Good(links, ready, waiters) /\ WaitPart

Answers ==
  \A t \in Thread :
    waitIn[t] # Null /\ waitIn'[t] = Null =>
      /\ cause'[t] \in {"signal", "close", "reused"}
      /\ cause'[t] = "signal" => ~dealoc'[waitIn[t]]
      /\ cause'[t] = "close" => dealoc'[waitIn[t]]

LEMMA SemNotNull == Null \notin Sem
  BY ObjectsAssumption DEF ObjectsAssumption

(* The end of every pass through the handler: `w` and `c` say who waits and *)
(* what happened to it when the dispatch has chosen the thread to run.      *)
LEMMA ResumeStep ==
  ASSUME WaitPart, IInv', NEW w \in [Thread -> Sem \cup {Null}],
         NEW c \in [Thread -> Causes], Resume(w, c),
         dealoc' \in [Sem -> BOOLEAN], \A s \in open' : ~dealoc'[s],
         \A t \in Thread : waitIn[t] # Null => w[t] = waitIn[t],
         \A t \in Thread : waitIn[t] # Null \/ t # running'
            => Held(t, w, c, dealoc', waiters', blocked')
  PROVE  WaitPart' /\ Answers
<1>1. /\ waitIn' = [t \in Thread |-> IF t = running' THEN Null ELSE w[t]]
      /\ cause' = [t \in Thread |-> IF w[t] = Null THEN "none" ELSE c[t]]
  BY DEF Resume
<1>2. /\ waitIn' \in [Thread -> Sem \cup {Null}] /\ cause' \in [Thread -> Causes]
  BY <1>1 DEF Causes
<1>3. /\ running' \notin blocked'
      /\ \A s \in Sem : ToSet(waiters'[s]) \subseteq blocked'
  BY DEF IInv, RunPart, SemPart, WaitLists
<1>4. ASSUME NEW t \in Thread
      PROVE  Held(t, waitIn', cause', dealoc', waiters', blocked')
  <2>1. CASE t = running'
    <3>1. waitIn'[t] = Null
      BY <1>1, <2>1
    <3> QED
      BY <1>3, <2>1, <3>1 DEF Held
  <2>2. CASE t # running'
    <3>1. Held(t, w, c, dealoc', waiters', blocked') /\ waitIn'[t] = w[t]
      BY <1>1, <2>2
    <3>2. w[t] # Null => cause'[t] = c[t]
      BY <1>1
    <3> QED
      BY <3>1, <3>2, SemNotNull DEF Held
  <2> QED
    BY <2>1, <2>2
<1>5. running' \in Thread => waitIn'[running'] = Null
  BY <1>1
<1>6. WaitPart'
  BY <1>2, <1>4, <1>5 DEF WaitPart
<1>7. ASSUME NEW t \in Thread, waitIn[t] # Null, waitIn'[t] = Null
      PROVE  Answered(cause'[t], dealoc'[waitIn[t]])
  <2>1. w[t] = waitIn[t] /\ Held(t, w, c, dealoc', waiters', blocked')
    BY <1>7
  <2>2. t = running' /\ cause'[t] = c[t]
    BY <1>1, <1>7, <2>1
  <2> QED
    BY <1>3, <1>7, <2>1, <2>2 DEF Held
<1>8. Answers
  BY <1>7 DEF Answers, Answered
<1> QED
  BY <1>6, <1>8

(* The calls that leave the semaphores alone. *)
LEMMA QuietWaits ==
  ASSUME WaitPart, IInv', KeepObjects, UNCHANGED <<open, waiters, blocked>>
  PROVE  WaitPart' /\ Answers
<1>1. /\ waitIn \in [Thread -> Sem \cup {Null}] /\ cause \in [Thread -> Causes]
      /\ dealoc' = dealoc /\ dealoc \in [Sem -> BOOLEAN] /\ \A s \in open : ~dealoc[s]
      /\ Resume(waitIn, cause)
      /\ \A t \in Thread : Held(t, waitIn, cause, dealoc, waiters, blocked)
  BY DEF WaitPart, KeepObjects
<1>2. \A t \in Thread : Held(t, waitIn, cause, dealoc', waiters', blocked')
  BY <1>1
<1>3. dealoc' \in [Sem -> BOOLEAN] /\ \A s \in open' : ~dealoc'[s]
  BY <1>1
<1> QED
  BY <1>1, <1>2, <1>3, ResumeStep

LEMMA OpenedWaits ==
  ASSUME IInv, WaitPart, IInv', NEW s \in Sem, NEW init \in 0..MaxInit, Opened(s, init)
  PROVE  WaitPart' /\ Answers
<1> DEFINE c == Mark(s, "reused")
<1>1. /\ s \notin open /\ open' = open \cup {s} /\ blocked' = blocked
      /\ waiters' = [waiters EXCEPT ![s] = <<>>]
      /\ dealoc' = [dealoc EXCEPT ![s] = FALSE] /\ Resume(waitIn, c)
  BY DEF Opened, SemOpen
<1>2. waiters' = waiters
  BY <1>1, ListsOf DEF Separate, IInv, SemPart, ValueCountsWaiters
<1>3. /\ waitIn \in [Thread -> Sem \cup {Null}] /\ cause \in [Thread -> Causes]
      /\ dealoc \in [Sem -> BOOLEAN] /\ \A u \in open : ~dealoc[u]
      /\ \A t \in Thread : Held(t, waitIn, cause, dealoc, waiters, blocked)
  BY DEF WaitPart
<1>4. /\ c \in [Thread -> Causes]
      /\ \A t \in Thread : c[t] = IF waitIn[t] = s /\ t \notin blocked THEN "reused" ELSE cause[t]
  BY <1>1, <1>3 DEF Mark, Awake, Causes
<1> HIDE DEF c
<1>5. /\ dealoc' \in [Sem -> BOOLEAN] /\ \A u \in open' : ~dealoc'[u]
      /\ \A u \in Sem : u # s => dealoc'[u] = dealoc[u]
  BY <1>1, <1>3 DEF IInv, SemPart
<1>6. ASSUME NEW t \in Thread
      PROVE  Held(t, waitIn, c, dealoc', waiters', blocked')
  <2>1. Held(t, waitIn, cause, dealoc, waiters, blocked)
    BY <1>3
  <2>2. ASSUME NEW u \in Sem, t \in ToSet(waiters[u])
        PROVE  waitIn[t] = u /\ c[t] = "waiting"
    <3>1. t \in blocked
      BY <2>2, ListsOf
    <3> QED
      BY <1>4, <2>1, <2>2, <3>1 DEF Held
  <2>3. ASSUME waitIn[t] # Null, t \notin blocked
        PROVE  Answered(c[t], dealoc'[waitIn[t]])
    <3>1. CASE waitIn[t] = s
      BY <1>4, <2>3, <3>1 DEF Answered
    <3>2. CASE waitIn[t] # s
      <4>1. waitIn[t] \in Sem /\ dealoc'[waitIn[t]] = dealoc[waitIn[t]] /\ c[t] = cause[t]
        BY <1>3, <1>4, <1>5, <2>3, <3>2
      <4> QED
        BY <2>1, <2>3, <4>1 DEF Held
    <3> QED
      BY <3>1, <3>2
  <2> QED
    BY <1>1, <1>2, <2>2, <2>3 DEF Held
<1> QED
  BY <1>1, <1>3, <1>4, <1>5, <1>6, ResumeStep

LEMMA ClosedWaits ==
  ASSUME IInv, WaitPart, IInv', NEW s \in Sem, Closed(s)
  PROVE  WaitPart' /\ Answers
<1> DEFINE c == Mark(s, "close")
<1>1. /\ SemClose(s) /\ open' = open \ {s}
      /\ waiters' = [waiters EXCEPT ![s] = <<>>]
      /\ dealoc' = [dealoc EXCEPT ![s] = TRUE] /\ Resume(waitIn, c)
  BY DEF Closed, SemClose
<1>2. blocked' = blocked \ ToSet(waiters[s])
  BY <1>1, SemCloseStep DEF IInv
<1>3. /\ waitIn \in [Thread -> Sem \cup {Null}] /\ cause \in [Thread -> Causes]
      /\ dealoc \in [Sem -> BOOLEAN] /\ \A u \in open : ~dealoc[u]
      /\ \A t \in Thread : Held(t, waitIn, cause, dealoc, waiters, blocked)
  BY DEF WaitPart
<1>4. /\ c \in [Thread -> Causes]
      /\ \A t \in Thread : c[t] = IF waitIn[t] = s /\ t \notin blocked' THEN "close" ELSE cause[t]
  BY <1>3 DEF Mark, Awake, Causes
<1> HIDE DEF c
<1>5. /\ dealoc' \in [Sem -> BOOLEAN] /\ \A u \in open' : ~dealoc'[u]
      /\ dealoc'[s] /\ \A u \in Sem : u # s => dealoc'[u] = dealoc[u]
  BY <1>1, <1>3 DEF IInv, SemPart
<1>6. waiters'[s] = <<>> /\ \A u \in Sem : u # s => waiters'[u] = waiters[u]
  BY <1>1, ListsOf DEF Separate
<1>7. ASSUME NEW t \in Thread
      PROVE  Held(t, waitIn, c, dealoc', waiters', blocked')
  <2>1. Held(t, waitIn, cause, dealoc, waiters, blocked)
    BY <1>3
  <2>2. ASSUME NEW u \in Sem, t \in ToSet(waiters'[u])
        PROVE  waitIn[t] = u /\ c[t] = "waiting"
    <3>1. u # s /\ t \in ToSet(waiters[u])
      BY <1>6, <2>2, EmptyList
    <3> QED
      BY <1>4, <2>1, <2>2, <3>1 DEF Held
  <2>3. ASSUME waitIn[t] # Null, t \notin blocked'
        PROVE  Answered(c[t], dealoc'[waitIn[t]])
    <3>1. CASE waitIn[t] = s
      BY <1>4, <1>5, <2>3, <3>1 DEF Answered
    <3>2. CASE waitIn[t] # s
      <4>1. waitIn[t] \in Sem /\ dealoc'[waitIn[t]] = dealoc[waitIn[t]] /\ c[t] = cause[t]
        BY <1>3, <1>4, <1>5, <2>3, <3>2
      <4>2. t \notin blocked
        BY <1>2, <2>1, <2>3, <3>2 DEF Held
      <4> QED
        BY <2>1, <2>3, <4>1, <4>2 DEF Held
    <3> QED
      BY <3>1, <3>2
  <2> QED
    BY <2>2, <2>3 DEF Held
<1> QED
  BY <1>1, <1>3, <1>4, <1>5, <1>7, ResumeStep

LEMMA WaitedWaits ==
  ASSUME IInv, WaitPart, IInv', NEW s \in Sem, Waited(s)
  PROVE  WaitPart' /\ Answers
<1> DEFINE w == [waitIn EXCEPT ![running] = s]
           c == [cause EXCEPT ![running] = "waiting"]
<1>1. /\ running # Idle /\ open' = open /\ dealoc' = dealoc /\ Resume(w, c)
      /\ \/ /\ waiters' = [waiters EXCEPT ![s] = Append(waiters[s], running)]
            /\ blocked' = blocked \cup {running}
         \/ UNCHANGED <<waiters, blocked, running>>
  BY DEF Waited, SemWait
<1>2. /\ running \in Thread /\ running \notin blocked
      /\ \A u \in Sem : running \notin ToSet(waiters[u])
  BY <1>1, ListsOf DEF IInv, RunPart
<1>3. /\ waitIn \in [Thread -> Sem \cup {Null}] /\ cause \in [Thread -> Causes]
      /\ dealoc \in [Sem -> BOOLEAN] /\ \A u \in open : ~dealoc[u]
      /\ \A t \in Thread : Held(t, waitIn, cause, dealoc, waiters, blocked)
      /\ waitIn[running] = Null
  BY <1>2 DEF WaitPart
<1>4. /\ w \in [Thread -> Sem \cup {Null}] /\ c \in [Thread -> Causes]
      /\ w[running] = s /\ c[running] = "waiting"
      /\ \A t \in Thread : t # running => w[t] = waitIn[t] /\ c[t] = cause[t]
  BY <1>2, <1>3 DEF Causes
<1> HIDE DEF w, c
<1>5. CASE UNCHANGED <<waiters, blocked, running>>
  <2>1. \A t \in Thread : waitIn[t] # Null \/ t # running'
            => Held(t, w, c, dealoc', waiters', blocked')
    BY <1>1, <1>3, <1>4, <1>5 DEF Held
  <2>2. \A t \in Thread : waitIn[t] # Null => w[t] = waitIn[t]
    BY <1>3, <1>4
  <2> QED
    BY <1>1, <1>3, <1>4, <2>1, <2>2, ResumeStep
<1>6. CASE /\ waiters' = [waiters EXCEPT ![s] = Append(waiters[s], running)]
           /\ blocked' = blocked \cup {running}
  <2>1. waiters[s] \in Seq(Thread)
    BY ListsOf DEF Separate
  <2>2. ToSet(Append(waiters[s], running)) = ToSet(waiters[s]) \cup {running}
    BY <1>2, <2>1, AppendList
  <2>3. /\ ToSet(waiters'[s]) = ToSet(waiters[s]) \cup {running}
        /\ \A u \in Sem : u # s => waiters'[u] = waiters[u]
    BY <1>6, <2>2, ListsOf DEF Separate
  <2>4. ASSUME NEW t \in Thread
        PROVE  Held(t, w, c, dealoc', waiters', blocked')
    <3>1. CASE t = running
      BY <1>2, <1>4, <1>6, <2>3, <3>1 DEF Held
    <3>2. CASE t # running
      <4>1. Held(t, waitIn, cause, dealoc, waiters, blocked)
        BY <1>3
      <4>2. \A u \in Sem : t \in ToSet(waiters'[u]) => t \in ToSet(waiters[u])
        BY <2>3, <3>2
      <4> QED
        BY <1>1, <1>4, <1>6, <3>2, <4>1, <4>2 DEF Held
    <3> QED
      BY <3>1, <3>2
  <2>5. \A t \in Thread : waitIn[t] # Null => w[t] = waitIn[t]
    BY <1>3, <1>4
  <2> QED
    BY <1>1, <1>3, <1>4, <2>4, <2>5, ResumeStep
<1> QED
  BY <1>1, <1>5, <1>6

LEMMA SignalledWaits ==
  ASSUME IInv, WaitPart, IInv', NEW s \in Sem, Signalled(s)
  PROVE  WaitPart' /\ Answers
<1> DEFINE c == [t \in Thread |-> IF t \in blocked \ blocked' THEN "signal" ELSE cause[t]]
<1>1. /\ s \in open /\ open' = open /\ dealoc' = dealoc /\ Resume(waitIn, c)
      /\ \/ /\ Unblocks(s)
            /\ waiters' = [waiters EXCEPT ![s] = Tail(waiters[s])]
            /\ blocked' = blocked \ {Head(waiters[s])}
         \/ UNCHANGED <<waiters, blocked>>
  BY DEF Signalled, SemSignal
<1>2. /\ waitIn \in [Thread -> Sem \cup {Null}] /\ cause \in [Thread -> Causes]
      /\ dealoc \in [Sem -> BOOLEAN] /\ \A u \in open : ~dealoc[u]
      /\ \A t \in Thread : Held(t, waitIn, cause, dealoc, waiters, blocked)
  BY DEF WaitPart
<1>3. /\ c \in [Thread -> Causes]
      /\ \A t \in Thread : c[t] = IF t \in blocked \ blocked' THEN "signal" ELSE cause[t]
  BY <1>2 DEF Causes
<1> HIDE DEF c
<1>4. CASE UNCHANGED <<waiters, blocked>>
  <2>1. \A t \in Thread : Held(t, waitIn, c, dealoc', waiters', blocked')
    BY <1>1, <1>2, <1>3, <1>4 DEF Held
  <2> QED
    BY <1>1, <1>2, <1>3, <2>1, ResumeStep
<1>5. CASE /\ Unblocks(s)
           /\ waiters' = [waiters EXCEPT ![s] = Tail(waiters[s])]
           /\ blocked' = blocked \ {Head(waiters[s])}
  <2> DEFINE h == Head(waiters[s])
  <2>1. waiters[s] \in Seq(Thread) /\ waiters[s] # <<>> /\ IsInjective(waiters[s])
    BY <1>5, ListsOf DEF Separate, Unblocks
  <2>2. /\ ToSet(waiters[s]) = {h} \cup ToSet(Tail(waiters[s]))
        /\ h \notin ToSet(Tail(waiters[s]))
    BY <2>1, HeadList
  <2>3. waiters'[s] = Tail(waiters[s]) /\ \A u \in Sem : u # s => waiters'[u] = waiters[u]
    BY <1>5, ListsOf DEF Separate
  <2>4. h \in ToSet(waiters[s]) /\ h \in blocked /\ blocked' = blocked \ {h}
    BY <1>5, <2>2, ListsOf
  <2> HIDE DEF h
  <2>5. \A u \in Sem : h \notin ToSet(waiters'[u])
    BY <2>2, <2>3, <2>4, ListsOf DEF Separate
  <2>6. ASSUME NEW t \in Thread
        PROVE  Held(t, waitIn, c, dealoc', waiters', blocked')
    <3>1. Held(t, waitIn, cause, dealoc, waiters, blocked)
      BY <1>2
    <3>2. CASE t = h
      <4>1. waitIn[t] = s /\ c[t] = "signal" /\ ~dealoc[s]
        BY <1>1, <1>2, <1>3, <2>4, <3>1, <3>2 DEF Held
      <4> QED
        BY <1>1, <2>5, <3>2, <4>1 DEF Held, Answered
    <3>3. CASE t # h
      <4>1. c[t] = cause[t] /\ (t \in blocked' <=> t \in blocked)
        BY <1>3, <2>4, <3>3
      <4>2. \A u \in Sem : t \in ToSet(waiters'[u]) => t \in ToSet(waiters[u])
        BY <2>2, <2>3
      <4> QED
        BY <1>1, <3>1, <4>1, <4>2 DEF Held
    <3> QED
      BY <3>2, <3>3
  <2> QED
    BY <1>1, <1>2, <1>3, <2>6, ResumeStep
<1> QED
  BY <1>1, <1>4, <1>5

LEMMA WrittenWaits ==
  ASSUME IInv, WaitPart, NEW s \in Sem, MemoryWritten(s)
  PROVE  WaitPart' /\ Answers
<1>1. /\ s \notin open /\ UNCHANGED <<vars, links, waitIn>>
      /\ dealoc' = [dealoc EXCEPT ![s] = FALSE] /\ cause' = Mark(s, "reused")
  BY DEF MemoryWritten
<1>2. UNCHANGED <<running, open, waiters, blocked>>
  BY <1>1 DEF vars, semVars
<1>3. /\ waitIn \in [Thread -> Sem \cup {Null}] /\ cause \in [Thread -> Causes]
      /\ dealoc \in [Sem -> BOOLEAN] /\ \A u \in open : ~dealoc[u]
      /\ \A t \in Thread : Held(t, waitIn, cause, dealoc, waiters, blocked)
      /\ running \in Thread => waitIn[running] = Null
  BY DEF WaitPart
<1>4. /\ cause' \in [Thread -> Causes]
      /\ \A t \in Thread :
           cause'[t] = IF waitIn[t] = s /\ t \notin blocked THEN "reused" ELSE cause[t]
  BY <1>1, <1>2, <1>3 DEF Mark, Awake, Causes
<1>5. /\ dealoc' \in [Sem -> BOOLEAN] /\ \A u \in open' : ~dealoc'[u]
      /\ \A u \in Sem : u # s => dealoc'[u] = dealoc[u]
  BY <1>1, <1>2, <1>3 DEF IInv, SemPart
<1>6. ASSUME NEW t \in Thread
      PROVE  Held(t, waitIn', cause', dealoc', waiters', blocked')
  <2>1. Held(t, waitIn, cause, dealoc, waiters, blocked)
    BY <1>3
  <2>2. ASSUME NEW u \in Sem, t \in ToSet(waiters[u])
        PROVE  waitIn[t] = u /\ cause'[t] = "waiting"
    <3>1. t \in blocked
      BY <2>2, ListsOf
    <3> QED
      BY <1>4, <2>1, <2>2, <3>1 DEF Held
  <2>3. ASSUME waitIn[t] # Null, t \notin blocked
        PROVE  Answered(cause'[t], dealoc'[waitIn[t]])
    <3>1. CASE waitIn[t] = s
      BY <1>4, <2>3, <3>1 DEF Answered
    <3>2. CASE waitIn[t] # s
      <4>1. /\ waitIn[t] \in Sem /\ dealoc'[waitIn[t]] = dealoc[waitIn[t]]
            /\ cause'[t] = cause[t]
        BY <1>3, <1>4, <1>5, <2>3, <3>2
      <4> QED
        BY <2>1, <2>3, <4>1 DEF Held
    <3> QED
      BY <3>1, <3>2
  <2> QED
    BY <1>1, <1>2, <2>2, <2>3 DEF Held
<1>7. WaitPart'
  BY <1>1, <1>2, <1>3, <1>4, <1>5, <1>6 DEF WaitPart
<1>8. Answers
  BY <1>1 DEF Answers
<1> QED
  BY <1>7, <1>8

-------------------------------------------------------------------------------
(* Every step of the objects is a step of the threads. *)
LEMMA StepOfKernel == ObjectsNext => Next \/ UNCHANGED vars
BY DEF ObjectsNext, Next, Dispatched, Created, Started, Opened, Closed, Waited,
       Signalled, Slept, Ticked, MemoryWritten

LEMMA ObjectsStep ==
  ASSUME ObjectsInv, [ObjectsNext]_allVars
  PROVE  ObjectsInv' /\ (Answers \/ UNCHANGED allVars)
<1>1. IInv /\ Good(links, ready, waiters) /\ WaitPart
  BY DEF ObjectsInv
<1>2. CASE UNCHANGED allVars
  <2>1. UNCHANGED vars /\ UNCHANGED <<links, dealoc, waitIn, cause>>
    BY <1>2 DEF allVars, objectVars
  <2>2. IInv'
    BY <1>1, <2>1, NextStep
  <2>3. WaitPart' /\ Good(links', ready', waiters')
    BY <1>1, <2>1 DEF WaitPart, vars, semVars
  <2> QED
    BY <1>2, <2>2, <2>3 DEF ObjectsInv
<1>3. CASE ObjectsNext
  <2>1. IInv'
    BY <1>1, <1>3, StepOfKernel, NextStep
  <2>2. CASE Dispatched
    <3>1. KeepObjects /\ UNCHANGED <<open, waiters, blocked>>
      BY <2>2 DEF Dispatched, ThreadDispatch, ThreadExit, semVars
    <3> QED
      BY <1>1, <2>1, <2>2, <3>1, QuietWaits, DispatchedLists DEF ObjectsInv
  <2>3. ASSUME NEW t \in Thread, NEW start \in BOOLEAN, Created(t, start)
        PROVE  ObjectsInv' /\ Answers
    <3>1. KeepObjects /\ UNCHANGED <<open, waiters, blocked>>
      BY <2>3 DEF Created, ThreadCreate, semVars
    <3> QED
      BY <1>1, <2>1, <2>3, <3>1, QuietWaits, CreatedLists DEF ObjectsInv
  <2>4. ASSUME NEW t \in Thread, Started(t)
        PROVE  ObjectsInv' /\ Answers
    <3>1. KeepObjects /\ UNCHANGED <<open, waiters, blocked>>
      BY <2>4 DEF Started, ThreadStart, semVars
    <3> QED
      BY <1>1, <2>1, <2>4, <3>1, QuietWaits, StartedLists DEF ObjectsInv
  <2>5. ASSUME NEW s \in Sem, NEW init \in 0..MaxInit, Opened(s, init)
        PROVE  ObjectsInv' /\ Answers
    BY <1>1, <2>1, <2>5, OpenedWaits, OpenedLists DEF ObjectsInv
  <2>6. ASSUME NEW s \in Sem, Closed(s)
        PROVE  ObjectsInv' /\ Answers
    BY <1>1, <2>1, <2>6, ClosedWaits, ClosedLists DEF ObjectsInv
  <2>7. ASSUME NEW s \in Sem, Waited(s)
        PROVE  ObjectsInv' /\ Answers
    BY <1>1, <2>1, <2>7, WaitedWaits, WaitedLists DEF ObjectsInv
  <2>8. ASSUME NEW s \in Sem, Signalled(s)
        PROVE  ObjectsInv' /\ Answers
    BY <1>1, <2>1, <2>8, SignalledWaits, SignalledLists DEF ObjectsInv
  <2>9. ASSUME NEW s \in Sem, MemoryWritten(s)
        PROVE  ObjectsInv' /\ Answers
    <3>1. Good(links', ready', waiters')
      BY <1>1, <2>9 DEF MemoryWritten, vars, semVars
    <3> QED
      BY <1>1, <2>1, <2>9, <3>1, WrittenWaits DEF ObjectsInv
  <2>10. ASSUME NEW t \in 1..MaxSleep, Slept(t)
         PROVE  ObjectsInv' /\ Answers
    <3>1. KeepObjects /\ UNCHANGED <<open, waiters, blocked>>
      BY <2>10 DEF Slept, TimeSleep, semVars
    <3> QED
      BY <1>1, <2>1, <2>10, <3>1, QuietWaits, SleptLists DEF ObjectsInv
  <2>11. CASE Ticked
    <3>1. KeepObjects /\ UNCHANGED <<open, waiters, blocked>>
      BY <2>11 DEF Ticked, Tick, semVars
    <3> QED
      BY <1>1, <2>1, <2>11, <3>1, QuietWaits, TickedLists DEF ObjectsInv
  <2> QED
    BY <1>3, <2>2, <2>3, <2>4, <2>5, <2>6, <2>7, <2>8, <2>9, <2>10, <2>11
       DEF ObjectsNext
<1> QED
  BY <1>2, <1>3

LEMMA ObjectsStart == ObjectsInit => ObjectsInv
<1> SUFFICES ASSUME ObjectsInit PROVE ObjectsInv
  OBVIOUS
<1>1. IInv
  BY InitStep DEF ObjectsInit
<1>2. /\ ready = <<>> /\ waiters = [s \in Sem |-> <<>>] /\ open = {} /\ blocked = {}
      /\ links = [head    |-> [l \in Lists |-> Null],
                  tail    |-> [l \in Lists |-> Null],
                  nextTCB |-> [t \in Thread |-> Null],
                  nextSem |-> [t \in Thread |-> Null]]
      /\ dealoc = [s \in Sem |-> FALSE]
      /\ waitIn = [t \in Thread |-> Null]
      /\ cause = [t \in Thread |-> "none"]
  BY DEF ObjectsInit, Init
<1>3. links \in Links
  BY <1>2 DEF Links, MaybeThread
<1>4. Readies(links, ready)
  BY <1>2, ListNames DEF Readies, Spelled
<1>5. Waits(links, waiters)
  BY <1>2, ListNames DEF Waits, Spelled
<1>6. \A t \in Thread : Held(t, waitIn, cause, dealoc, waiters, blocked)
  BY <1>2, EmptyList DEF Held
<1>7. WaitPart
  BY <1>2, <1>6 DEF WaitPart, Causes
<1> QED
  BY <1>1, <1>3, <1>4, <1>5, <1>7 DEF ObjectsInv, Good

(* The invariant of KernelObjects. *)
THEOREM ObjectsInductive == ObjectsSpec => []ObjectsInv
<1>1. ObjectsInv /\ [ObjectsNext]_allVars => ObjectsInv'
  BY ObjectsStep
<1> QED
  BY <1>1, ObjectsStart, PTL DEF ObjectsSpec

(* Head, tail, links, flags and waits of the kernel's objects keep their    *)
(* types: no list ever points outside the threads.                          *)
THEOREM ObjectsTypeCorrect == ObjectsSpec => []ObjectsTypeOK
<1>1. ObjectsInv => ObjectsTypeOK
  BY DEF ObjectsInv, Good, Links, MaybeThread, WaitPart, Causes, ObjectsTypeOK
<1> QED
  BY <1>1, ObjectsInductive, PTL

(* The pointers that Scheduler::put and get, mySemaphore::block and unblock *)
(* and the loops of sem_close and wakeSleepingThreads write always spell    *)
(* the ready queue and the waiting lists.                                   *)
THEOREM ListsAlwaysSpelled == ObjectsSpec => []ListsSpelled
<1>1. ObjectsInv => ListsSpelled
  <2> SUFFICES ASSUME ObjectsInv PROVE ListsSpelled
    OBVIOUS
  <2>1. /\ Spelled(links.head["ready"], links.tail["ready"], links.nextTCB, ready)
        /\ \A s \in Sem : Spelled(links.head[s], links.tail[s], links.nextSem, waiters[s])
        /\ ready \in Seq(Thread) /\ \A s \in Sem : waiters[s] \in Seq(Thread)
        /\ open \subseteq Sem
    BY DEF ObjectsInv, Good, Readies, Waits, IInv, RunPart, SemPart, WaitLists
  <2>2. Spells(links, "ready", ready)
    BY <2>1, SpellsIs, ListNames
  <2>3. \A s \in open : Spells(links, s, waiters[s])
    <3> TAKE s \in open
    <3>1. /\ LinkOf(s) = "nextSem" /\ waiters[s] \in Seq(Thread)
          /\ Spelled(links.head[s], links.tail[s], links["nextSem"], waiters[s])
      BY <2>1, ListNames
    <3> QED
      BY <3>1, SpellsIs
  <2> QED
    BY <2>2, <2>3 DEF ListsSpelled
<1> QED
  BY <1>1, ObjectsInductive, PTL

(* Whatever happened to the memory of the semaphore since, sem_wait answers *)
(* by what woke the thread.                                                 *)
THEOREM WaitAnswers == ObjectsSpec => WaitResult
<1>1. ObjectsInv /\ [ObjectsNext]_allVars => [Answers]_allVars
  BY ObjectsStep
<1>2. [Answers]_allVars =>
        [\A t \in Thread :
           waitIn[t] # Null /\ waitIn'[t] = Null =>
             /\ cause'[t] \in {"signal", "close", "reused"}
             /\ cause'[t] = "signal" => ~dealoc'[waitIn[t]]
             /\ cause'[t] = "close" => dealoc'[waitIn[t]]]_allVars
  BY DEF Answers
<1> QED
  BY <1>1, <1>2, ObjectsInductive, PTL DEF ObjectsSpec, WaitResult

-------------------------------------------------------------------------------
(* Following the links from the head finds the threads that they lead       *)
(* through, whether the last one's link ends the list or leads back into it. *)
Leads(h, nx, q) ==
  /\ h = q[1]
  /\ \A i \in 1..(Len(q) - 1) : nx[q[i]] = q[i + 1]
  /\ nx[q[Len(q)]] \in ToSet(q) \cup {Null}

(* No more threads are in a list than there are. *)
LEMMA ListBound ==
  ASSUME NEW q, OnceEach(q)
  PROVE  Cardinality(Thread) \in Nat /\ Len(q) \in Nat /\ Len(q) <= Cardinality(Thread)
<1>1. IsFiniteSet(Thread) /\ Cardinality(Thread) \in Nat
  BY ObjectsAssumption, FS_CardinalityType DEF ObjectsAssumption
<1>2. q \in [1..Len(q) -> Thread] /\ IsInjective(q) /\ Len(q) \in Nat
  BY LenProperties DEF OnceEach
<1>3. q \in Injection(1..Len(q), Thread)
  BY <1>2 DEF Injection
<1>4. Cardinality(1..Len(q)) <= Cardinality(Thread)
  BY <1>1, <1>3, FS_Injection
<1>5. Cardinality(1..Len(q)) = IF 1 > Len(q) THEN 0 ELSE Len(q) - 1 + 1
  BY <1>2, FS_Interval
<1> QED
  BY <1>1, <1>2, <1>4, <1>5

LEMMA FoundIs ==
  ASSUME NEW m \in Links, NEW q, OnceEach(q), q # <<>>,
         Leads(m.head["ready"], m.nextTCB, q)
  PROVE  Found(m, "ready") = ToSet(q)
<1> DEFINE N == Cardinality(Thread)
           next(S) == S \cup ({m[LinkOf("ready")][t] : t \in S} \ {Null})
           reach[n \in 0..Cardinality(Thread)] ==
             IF n = 0 THEN {m.head["ready"]} \ {Null}
             ELSE LET found == reach[n - 1]
                  IN  found \cup ({m[LinkOf("ready")][t] : t \in found} \ {Null})
<1>1. N \in Nat /\ Len(q) \in Nat /\ Len(q) <= N
  BY ListBound
<1>2. Len(q) # 0 /\ 1 \in 1..Len(q) /\ Len(q) \in 1..Len(q)
  BY <1>1, EmptySeq DEF OnceEach
<1>3. /\ m.nextTCB \in [Thread -> MaybeThread]
      /\ \A i \in 1..Len(q) : q[i] \in Thread /\ q[i] \in ToSet(q) /\ q[i] # Null
      /\ \A e \in ToSet(q) : \E i \in 1..Len(q) : q[i] = e
      /\ ToSet(q) \subseteq Thread
  BY DistinctPlaces, ListElements, NullApart DEF Links, OnceEach
<1>4. /\ m.head["ready"] = q[1]
      /\ \A i \in 1..(Len(q) - 1) : m.nextTCB[q[i]] = q[i + 1]
      /\ m.nextTCB[q[Len(q)]] \in ToSet(q) \cup {Null}
  BY DEF Leads
<1>5. Found(m, "ready") = reach[N]
  BY DEF Found
<1>6. m[LinkOf("ready")] = m.nextTCB
  BY ListNames
<1>7. \A S \in SUBSET Thread : next(S) \in SUBSET Thread
  BY <1>3, <1>6 DEF MaybeThread
<1>8. reach = [n \in 0..N |-> IF n = 0 THEN {m.head["ready"]} \ {Null}
                              ELSE next(reach[n - 1])]
  <2> DEFINE F == [a \in (1..N) \X SUBSET Thread |-> next(a[2])]
             first == {m.head["ready"]} \ {Null}
  <2>1. F \in [(1..N) \X SUBSET Thread -> SUBSET Thread]
    BY <1>7
  <2>2. \A n \in 1..N, S \in SUBSET Thread : F[<<n, S>>] = next(S)
    OBVIOUS
  <2>3. first \in SUBSET Thread
    BY <1>2, <1>3, <1>4
  <2> HIDE DEF F, first, next
  <2>4. PICK g \in Passes(SUBSET Thread, N, first, F) : TRUE
    <3>1. Passes(SUBSET Thread, N, first, F) # {}
      BY <1>1, <2>1, <2>3, PassesExist
    <3> QED
      BY <3>1
  <2>5. /\ g \in [0..N -> SUBSET Thread] /\ g[0] = first
        /\ \A n \in 1..N : g[n] = F[<<n, g[n - 1]>>]
    BY <2>4 DEF Passes
  <2>6. \A n \in 1..N : g[n] = next(g[n - 1])
    <3> TAKE n \in 1..N
    <3>1. n - 1 \in 0..N
      BY <1>1
    <3> QED
      BY <2>2, <2>5, <3>1
  <2>7. \A n \in 0..N : n # 0 => n \in 1..N
    BY <1>1
  <2>8. g = [n \in 0..N |-> IF n = 0 THEN first ELSE next(g[n - 1])]
    BY <2>5, <2>6, <2>7
  <2>9. g = [n \in 0..N |-> IF n = 0 THEN first
                           ELSE g[n - 1] \cup ({m[LinkOf("ready")][t] : t \in g[n - 1]} \ {Null})]
    BY <2>8 DEF next
  <2>10. reach = [n \in 0..N |-> IF n = 0 THEN first
                 ELSE reach[n - 1] \cup ({m[LinkOf("ready")][t] : t \in reach[n - 1]} \ {Null})]
    BY <2>9 DEF first
  <2> HIDE DEF reach
  <2> QED
    BY <2>10 DEF first, next
<1> HIDE DEF reach
<1>9. /\ reach[0] = {q[1]}
      /\ \A n \in 1..N : reach[n] = next(reach[n - 1])
  <2>1. 0 \in 0..N /\ \A n \in 1..N : n \in 0..N /\ n # 0
    BY <1>1
  <2>2. {m.head["ready"]} \ {Null} = {q[1]}
    BY <1>2, <1>3, <1>4
  <2> QED
    BY <1>8, <2>1, <2>2
<1> HIDE DEF N
<1> DEFINE at(n) == /\ reach[n] \subseteq ToSet(q)
                    /\ \A i \in 1..Len(q) : i <= n + 1 => q[i] \in reach[n]
<1>10. at(0)
  BY <1>1, <1>2, <1>3, <1>9
<1>11. ASSUME NEW n \in 1..N, at(n - 1) PROVE at(n)
  <2>1. reach[n] = next(reach[n - 1])
    BY <1>9
  <2>2. ASSUME NEW e \in reach[n] PROVE e \in ToSet(q)
    <3>1. CASE e \in reach[n - 1]
      BY <1>11, <3>1
    <3>2. CASE e \notin reach[n - 1]
      <4>1. PICK t \in reach[n - 1] : e = m.nextTCB[t] /\ e # Null
        BY <1>6, <2>1, <2>2, <3>2
      <4>2. PICK i \in 1..Len(q) : q[i] = t
        BY <1>3, <1>11, <4>1
      <4>3. i # Len(q) => i \in 1..(Len(q) - 1) /\ i + 1 \in 1..Len(q)
        BY <1>1
      <4> QED
        BY <1>3, <1>4, <4>1, <4>2, <4>3
    <3> QED
      BY <3>1, <3>2
  <2>3. ASSUME NEW i \in 1..Len(q), i <= n + 1 PROVE q[i] \in reach[n]
    <3>1. CASE i <= n
      <4>1. i <= (n - 1) + 1
        BY <1>1, <3>1
      <4>2. q[i] \in reach[n - 1]
        BY <1>11, <4>1
      <4> QED
        BY <2>1, <4>2
    <3>2. CASE ~(i <= n)
      <4>1. i - 1 \in 1..Len(q) /\ i - 1 <= (n - 1) + 1 /\ i - 1 \in 1..(Len(q) - 1) /\ (i - 1) + 1 = i
        BY <1>1, <2>3, <3>2
      <4>2. q[i - 1] \in reach[n - 1] /\ m.nextTCB[q[i - 1]] = q[i]
        BY <1>4, <1>11, <4>1
      <4> QED
        BY <1>3, <1>6, <2>1, <4>2
    <3> QED
      BY <3>1, <3>2
  <2> QED
    BY <2>2, <2>3
<1>12. at(N)
  <2> HIDE DEF at
  <2> DEFINE good == {n \in 0..N : at(n)}
  <2>1. good \in SUBSET (0..N) /\ 0 \in good
    BY <1>1, <1>10
  <2>2. \A n \in 1..N : n - 1 \in good => n \in good
    BY <1>1, <1>11
  <2>3. N \in good
    BY <1>1, <2>1, <2>2, Climbs
  <2> QED
    BY <2>3
<1>13. \A i \in 1..Len(q) : q[i] \in reach[N]
  <2>1. \A i \in 1..Len(q) : i <= N + 1
    BY <1>1
  <2> QED
    BY <1>12, <2>1
<1> QED
  BY <1>3, <1>5, <1>12, <1>13 DEF N

(* A thread that is ready, linked once more, and then another one.          *)
FirstOf(q, k) == {q[i] : i \in 1..k}

LEMMA RestartFinds ==
  ASSUME NEW m, NEW q, NEW w, Good(m, q, w), OnceEach(q), NEW k \in 1..Len(q)
  PROVE  /\ Found(PutLink(m, q[k]), "ready") = ToSet(q)
         /\ \A u \in Thread \ ToSet(q) :
              Found(PutLink(PutLink(m, q[k]), u), "ready") = FirstOf(q, k) \cup {u}
<1> DEFINE n == Len(q)
           r == Link(m, "ready", q[k])
<1>1. /\ q \in Seq(Thread) /\ IsInjective(q) /\ m \in Links /\ "ready" \in Lists
      /\ n \in Nat /\ 1 \in 1..n /\ n \in 1..n
      /\ \A i \in 1..n : q[i] \in Thread /\ q[i] \in ToSet(q)
      /\ \A i, j \in 1..n : q[i] = q[j] => i = j
  BY ListNames, LenProperties, DistinctPlaces DEF Good, OnceEach
<1>2. q # <<>>
  BY <1>1, EmptySeq
<1>3. /\ m.head["ready"] = q[1] /\ m.tail["ready"] = q[n]
      /\ \A i \in 1..n : m.nextTCB[q[i]] = IF i = n THEN Null ELSE q[i + 1]
      /\ \A t \in Thread : t \notin ToSet(q) => m.nextTCB[t] = Null
  BY <1>2 DEF Good, Readies, Spelled
<1>4. m.head["ready"] # Null
  BY <1>1, <1>3, NullApart
<1>5. PutLink(m, q[k]) = r
  BY <1>1, NullApart DEF PutLink
<1>6. Linked(m, "ready", q[k], r)
  BY <1>1, LinkMaps
<1> HIDE DEF r
<1>7. /\ r \in Links /\ r.head = m.head /\ r.nextTCB = [m.nextTCB EXCEPT ![q[n]] = q[k]]
      /\ r.tail["ready"] = q[k]
  BY <1>1, <1>3, <1>4, <1>6 DEF Linked, Links
<1>8. /\ r.nextTCB[q[n]] = q[k]
      /\ \A t \in Thread : t # q[n] => r.nextTCB[t] = m.nextTCB[t]
  BY <1>1, <1>7 DEF Links
<1>9. \A i \in 1..(n - 1) : r.nextTCB[q[i]] = q[i + 1]
  <2> TAKE i \in 1..(n - 1)
  <2>1. i \in 1..n /\ i # n
    BY <1>1
  <2> QED
    BY <1>1, <1>3, <1>8, <2>1
<1>10. Leads(r.head["ready"], r.nextTCB, q)
  BY <1>1, <1>3, <1>7, <1>8, <1>9 DEF Leads
<1>11. Found(r, "ready") = ToSet(q)
  BY <1>2, <1>7, <1>10, FoundIs
<1>12. ASSUME NEW u \in Thread, u \notin ToSet(q)
       PROVE  Found(PutLink(r, u), "ready") = FirstOf(q, k) \cup {u}
  <2> DEFINE x == Link(r, "ready", u)
             a == SubSeq(q, 1, k)
             p == Append(a, u)
  <2>1. PutLink(r, u) = x
    BY NullApart DEF PutLink
  <2>2. Linked(r, "ready", u, x)
    BY <1>1, <1>7, LinkMaps
  <2> HIDE DEF x
  <2>3. /\ x \in Links /\ x.head = m.head /\ x.nextTCB = [r.nextTCB EXCEPT ![q[k]] = u]
    BY <1>4, <1>7, <2>2 DEF Linked
  <2>4. /\ x.nextTCB[q[k]] = u
        /\ \A t \in Thread : t # q[k] => x.nextTCB[t] = r.nextTCB[t]
    BY <1>1, <1>7, <2>3 DEF Links
  <2>5. /\ a \in Seq(Thread) /\ Len(a) = k /\ IsInjective(a) /\ ToSet(a) \subseteq ToSet(q)
    <3>1. k \in 0..Len(q)
      BY <1>1
    <3> QED
      BY <1>1, <3>1, SplitList
  <2>6. \A i \in 1..k : a[i] = q[i]
    <3>1. \A i \in 1..k : q[i] \in Thread
      BY <1>1
    <3>2. \A i \in 1..(k - 1 + 1) : a[i] = q[1 + i - 1]
      BY <3>1, SubSeqProperties
    <3>3. k - 1 + 1 = k /\ \A i \in 1..k : 1 + i - 1 = i
      OBVIOUS
    <3> HIDE DEF a
    <3> QED
      BY <3>2, <3>3
  <2> HIDE DEF a
  <2>7. /\ p \in Seq(Thread) /\ ToSet(p) = ToSet(a) \cup {u} /\ IsInjective(p)
        /\ Len(p) = k + 1 /\ p[k + 1] = u /\ \A i \in 1..k : p[i] = a[i]
    <3>1. u \notin ToSet(a)
      BY <1>12, <2>5
    <3> QED
      BY <2>5, <3>1, AppendList, AppendProperties
  <2> HIDE DEF p
  <2>8. \A i \in 1..k : p[i] = q[i]
    BY <2>6, <2>7
  <2>9. ASSUME NEW i \in 1..(Len(p) - 1) PROVE x.nextTCB[p[i]] = p[i + 1]
    <3>1. i \in 1..k /\ i \in 1..n
      BY <1>1, <2>7
    <3>2. CASE i = k
      BY <2>4, <2>7, <2>8, <3>1, <3>2
    <3>3. CASE i # k
      <4>1. i \in 1..(n - 1) /\ i + 1 \in 1..k
        BY <1>1, <3>1, <3>3
      <4>2. q[i] # q[k] /\ q[i] \in Thread
        BY <1>1, <3>1, <3>3
      <4> QED
        BY <1>9, <2>4, <2>8, <3>1, <4>1, <4>2
    <3> QED
      BY <3>2, <3>3
  <2>10. x.nextTCB[p[Len(p)]] = Null
    BY <1>1, <1>3, <1>8, <1>12, <2>4, <2>7
  <2>11. x.head["ready"] = p[1]
    BY <1>1, <1>3, <2>3, <2>8
  <2>12. Leads(x.head["ready"], x.nextTCB, p)
    BY <2>9, <2>10, <2>11 DEF Leads
  <2>13. OnceEach(p) /\ p # <<>>
    <3>1. Len(p) # 0
      BY <2>7
    <3> QED
      BY <2>7, <3>1, EmptySeq DEF OnceEach
  <2>14. Found(x, "ready") = ToSet(p)
    BY <2>3, <2>12, <2>13, FoundIs
  <2>15. ToSet(a) = FirstOf(q, k)
    <3>1. DOMAIN a = 1..k
      BY <2>5, LenProperties
    <3> QED
      BY <2>6, <3>1 DEF ToSet, FirstOf
  <2> QED
    BY <2>1, <2>7, <2>14, <2>15
<1> QED
  BY <1>5, <1>11, <1>12

(* Linking a ready thread once more loses nobody, but the next put cuts off *)
(* exactly those behind it: in whatever state, for any number of threads.   *)
THEOREM RestartAlwaysCuts == ObjectsSpec => []RestartCutsBehind
<1>1. ObjectsInv => RestartCutsBehind
  <2> SUFFICES ASSUME ObjectsInv PROVE RestartCutsBehind
    OBVIOUS
  <2>1. Good(links, ready, waiters) /\ OnceEach(ready)
    BY ListsOf DEF ObjectsInv
  <2>2. DOMAIN ready = 1..Len(ready)
    BY <2>1, LenProperties DEF OnceEach
  <2>3. ASSUME NEW k \in 1..Len(ready)
        PROVE  /\ Found(PutLink(links, ready[k]), "ready") = ToSet(ready)
               /\ \A u \in Thread \ ToSet(ready) :
                    Found(PutLink(PutLink(links, ready[k]), u), "ready")
                      = FirstOf(ready, k) \cup {u}
    BY <2>1, RestartFinds
  <2> QED
    BY <2>2, <2>3 DEF RestartCutsBehind, FirstOf
<1> QED
  BY <1>1, ObjectsInductive, PTL

-------------------------------------------------------------------------------
(***************************************************************************)
(* Trap.  Every step but a firing of the timer is a step of Kernel         *)
(* followed by Return and Acknowledge, so there is one lemma for each part *)
(* of TrapInv and not one for each system call.                            *)
(***************************************************************************)

Unsliced ==
  /\ OwnCode /\ RegistersKept /\ OneTickPerInterrupt
  /\ \A t \in Threads : suspendedIn[t] # "timer"

TrapInv ==
  /\ TrapTypeOK
  /\ IdleIntact /\ suspendedIn[Idle] # "waiting"
  /\ ~sliced => Unsliced

(* A trap for `scause` that suspends the running thread, if it switches, in  *)
(* `place`: what the lemmas use of the step of Kernel inside it.            *)
Trapped(scause, place) ==
  /\ Return(scause, place) /\ Acknowledge(scause)
  /\ running \in Threads /\ running' \in Threads
  /\ \/ <<scause, place>> = <<"ecall", "trailing">>
     \/ <<scause, place>> = <<"ecall", "waiting">> /\ running # Idle
     \/ <<scause, place>> = <<"timer", "timer">>

-------------------------------------------------------------------------------
(* Every step of Trap is one of Kernel, or leaves its variables alone. *)
LEMMA StepsOfKernel ==
  ASSUME TrapNext
  PROVE  Next \/ UNCHANGED vars
<1>1. CASE DispatchingCall
  BY <1>1 DEF DispatchingCall, Next
<1>2. CASE WaitingCall
  BY <1>2 DEF WaitingCall, Next
<1>3. CASE Tick
  BY <1>3 DEF Next
<1>4. CASE TimerFires
  BY <1>4 DEF TimerFires
<1> QED
  BY <1>1, <1>2, <1>3, <1>4 DEF TrapNext

(* The trap handler runs the kernel: forgetting the saved registers, every  *)
(* behaviour of Trap is one of Kernel, so what is proved of Kernel holds of *)
(* it.                                                                      *)
THEOREM TrapRunsKernel == TrapSpec => Spec
<1>1. TrapInit => Init
  BY DEF TrapInit
<1>2. [TrapNext]_trapVars => [Next]_vars
  <2>1. CASE TrapNext
    BY <2>1, StepsOfKernel
  <2>2. CASE UNCHANGED trapVars
    BY <2>2 DEF trapVars
  <2> QED
    BY <2>1, <2>2
<1> QED
  BY <1>1, <1>2, PTL DEF TrapSpec, Spec

-------------------------------------------------------------------------------
(* Every step but a firing of the timer is a trap. *)
LEMMA EveryTrap ==
  ASSUME TrapNext, ~TimerFires, TypeOK, TypeOK'
  PROVE  \E scause, place : Trapped(scause, place)
<1>1. running \in Threads /\ running' \in Threads
  BY DEF TypeOK, Threads
<1>2. CASE DispatchingCall /\ Return("ecall", "trailing") /\ Acknowledge("ecall")
  BY <1>1, <1>2 DEF Trapped
<1>3. CASE WaitingCall /\ Return("ecall", "waiting") /\ Acknowledge("ecall")
  <2>1. running # Idle
    BY <1>3 DEF WaitingCall, SemWait, SemSignal, TimeSleep
  <2> QED
    BY <1>1, <1>3, <2>1 DEF Trapped
<1>4. CASE Tick /\ Return("timer", "timer") /\ Acknowledge("timer")
  BY <1>1, <1>4 DEF Trapped
<1> QED
  BY <1>2, <1>3, <1>4 DEF TrapNext

(* A trap keeps the types of what is saved across it. *)
LEMMA TrappedTypes ==
  ASSUME NEW scause, NEW place, Trapped(scause, place), TrapTypeOK
  PROVE  TrapTypeOK'
<1>1. /\ ssip' \in BOOLEAN /\ unserved' \in BOOLEAN /\ sliced' \in BOOLEAN
  BY DEF Trapped, TrapTypeOK, Acknowledge
<1>2. CASE running' = running /\ UNCHANGED threadState
  BY <1>1, <1>2 DEF TrapTypeOK, threadState
<1>3. CASE running' # running
  <2> DEFINE n == running'
  <2>1. place \in {"trailing", "waiting", "timer"}
    BY DEF Trapped
  <2>2. /\ suspendedIn' = [suspendedIn EXCEPT ![running] = place, ![n] = "running"]
        /\ code' = [code EXCEPT ![n] = ResumedCode(n, scause)]
        /\ mode' = [mode EXCEPT ![n] = ResumedMode(n)]
        /\ a0Kept' = [a0Kept EXCEPT ![n] = ResumedA0(n, scause)]
        /\ n \in Threads /\ running \in Threads
    BY <1>3 DEF Trapped, Return
  <2>3. suspendedIn' \in [Threads -> {"new", "running", "trailing", "waiting", "timer"}]
    BY <2>1, <2>2 DEF TrapTypeOK
  <2>4. \A t \in Threads : suspendedIn'[t] = "running" <=> t = running'
    BY <1>3, <2>1, <2>2 DEF TrapTypeOK
  <2>5. ResumedCode(n, scause) \in Threads
    BY <2>2 DEF ResumedCode, TrapTypeOK
  <2>6. ResumedMode(n) \in {"U", "S"}
    BY <2>2 DEF ResumedMode, StartMode, TrapTypeOK
  <2>7. ResumedA0(n, scause) \in BOOLEAN
    BY DEF ResumedA0
  <2>8. /\ code' \in [Threads -> Threads]
        /\ mode' \in [Threads -> {"U", "S"}]
        /\ a0Kept' \in [Threads -> BOOLEAN]
    BY <2>2, <2>5, <2>6, <2>7 DEF TrapTypeOK
  <2> QED
    BY <1>1, <2>3, <2>4, <2>8 DEF TrapTypeOK
<1> QED
  BY <1>2, <1>3 DEF Trapped, Return

(* The idle thread makes no call that waits, so it never reads the sepc and *)
(* sstatus of another thread's trap.                                        *)
LEMMA TrappedIdle ==
  ASSUME NEW scause, NEW place, Trapped(scause, place), TrapTypeOK,
         IdleIntact, suspendedIn[Idle] # "waiting"
  PROVE  IdleIntact' /\ suspendedIn'[Idle] # "waiting"
<1>1. CASE UNCHANGED threadState
  BY <1>1 DEF IdleIntact, threadState
<1>2. CASE running' # running
  <2>1. Idle \in Threads
    BY DEF Threads
  <2>2. /\ suspendedIn' = [suspendedIn EXCEPT ![running] = place, ![running'] = "running"]
        /\ code' = [code EXCEPT ![running'] = ResumedCode(running', scause)]
        /\ mode' = [mode EXCEPT ![running'] = ResumedMode(running')]
    BY <1>2 DEF Trapped, Return
  <2>3. suspendedIn'[Idle] # "waiting"
    BY <2>1, <2>2 DEF Trapped, TrapTypeOK
  <2>4. ResumedCode(Idle, scause) = Idle /\ ResumedMode(Idle) = "S"
    BY DEF ResumedCode, ResumedMode, StartMode, IdleIntact
  <2>5. code'[Idle] = Idle /\ mode'[Idle] = "S"
    BY <2>1, <2>2, <2>4 DEF IdleIntact, TrapTypeOK
  <2> QED
    BY <2>3, <2>5 DEF IdleIntact
<1> QED
  BY <1>1, <1>2 DEF Trapped, Return

(* Without a slice that has ended, nobody is suspended in the timer's       *)
(* dispatch: whoever waited goes on behind an ecall, everybody else has     *)
(* saved what it needs.                                                     *)
LEMMA TrappedUnsliced ==
  ASSUME NEW scause, NEW place, Trapped(scause, place), TrapTypeOK,
         ~sliced => Unsliced, ~sliced'
  PROVE  Unsliced'
<1>1. ~sliced /\ ~(scause = "timer" /\ running' # running)
  BY DEF Trapped, Acknowledge, TrapTypeOK
<1>2. OwnCode /\ RegistersKept /\ OneTickPerInterrupt
      /\ \A t \in Threads : suspendedIn[t] # "timer"
  BY <1>1 DEF Unsliced
<1>3. OneTickPerInterrupt'
  <2>1. running' \in Threads
    BY DEF Trapped
  <2>2. Acknowledges(scause) <=> scause = "timer"
    BY <1>1, <1>2, <2>1 DEF Acknowledges
  <2> QED
    BY <1>2, <2>2 DEF Trapped, Acknowledge, OneTickPerInterrupt, TrapTypeOK
<1>4. CASE UNCHANGED threadState
  BY <1>2, <1>3, <1>4 DEF threadState, Unsliced, OwnCode, RegistersKept
<1>5. CASE running' # running
  <2> DEFINE n == running'
  <2>1. /\ suspendedIn' = [suspendedIn EXCEPT ![running] = place, ![n] = "running"]
        /\ code' = [code EXCEPT ![n] = ResumedCode(n, scause)]
        /\ a0Kept' = [a0Kept EXCEPT ![n] = ResumedA0(n, scause)]
        /\ n \in Threads /\ place # "timer" /\ scause # "timer"
    BY <1>1, <1>5 DEF Trapped, Return
  <2>2. \A t \in Threads : suspendedIn'[t] # "timer"
    BY <1>2, <2>1 DEF TrapTypeOK
  <2>3. ResumedCode(n, scause) = n
    BY <1>2, <2>1 DEF ResumedCode, OwnCode
  <2>4. ResumedA0(n, scause)
    BY <1>2, <2>1 DEF ResumedA0
  <2>5. OwnCode'
    BY <1>2, <2>1, <2>3 DEF OwnCode, TrapTypeOK
  <2>6. RegistersKept'
    BY <1>2, <2>1, <2>4 DEF RegistersKept, TrapTypeOK
  <2> QED
    BY <1>3, <2>2, <2>5, <2>6 DEF Unsliced
<1> QED
  BY <1>4, <1>5 DEF Trapped, Return

(* At the start nobody is suspended and no slice has ended. *)
LEMMA TrapInitial ==
  ASSUME TrapInit
  PROVE  TrapInv
<1>1. Main \in Threads /\ Idle \in Threads /\ Main # Idle
  BY KernelAssumption DEF KernelAssumption, Threads
<1>2. \A t \in Threads : StartMode(t) \in {"U", "S"}
  BY DEF StartMode
<1>3. running = Main
  BY DEF TrapInit, Init
<1>4. TrapTypeOK
  BY <1>1, <1>2, <1>3 DEF TrapInit, TrapTypeOK
<1>5. IdleIntact /\ suspendedIn[Idle] # "waiting"
  BY <1>1 DEF TrapInit, IdleIntact, StartMode
<1>6. Unsliced
  BY <1>1 DEF TrapInit, Unsliced, OwnCode, RegistersKept, OneTickPerInterrupt
<1> QED
  BY <1>4, <1>5, <1>6 DEF TrapInv

(* The parts of the invariant come together. *)
LEMMA TrapStep ==
  ASSUME TrapInv, TypeOK, TypeOK', [TrapNext]_trapVars
  PROVE  TrapInv'
<1>1. CASE UNCHANGED trapVars
  BY <1>1 DEF trapVars, vars, threadState, timerState, TrapInv, TrapTypeOK, IdleIntact,
              Unsliced, OwnCode, RegistersKept, OneTickPerInterrupt
<1>2. CASE TimerFires
  BY <1>2 DEF TimerFires, vars, threadState, TrapInv, TrapTypeOK, IdleIntact,
              Unsliced, OwnCode, RegistersKept, OneTickPerInterrupt
<1>3. CASE TrapNext /\ ~TimerFires
  <2>1. PICK scause, place : Trapped(scause, place)
    BY <1>3, EveryTrap
  <2>2. TrapTypeOK'
    BY <2>1, TrappedTypes DEF TrapInv
  <2>3. IdleIntact' /\ suspendedIn'[Idle] # "waiting"
    BY <2>1, TrappedIdle DEF TrapInv
  <2>4. ~sliced' => Unsliced'
    BY <2>1, TrappedUnsliced DEF TrapInv
  <2> QED
    BY <2>2, <2>3, <2>4 DEF TrapInv
<1> QED
  BY <1>1, <1>2, <1>3

(* What is saved for a suspended thread is as TrapInv says in every state. *)
THEOREM TrapInductive == TrapSpec => []TrapInv
<1>1. TrapInit => TrapInv
  BY TrapInitial
<1>2. TrapInv /\ TypeOK /\ TypeOK' /\ [TrapNext]_trapVars => TrapInv'
  BY TrapStep
<1> QED
  BY <1>1, <1>2, TrapRunsKernel, TypeCorrect, PTL DEF TrapSpec

(* The state the trap handler keeps of each thread has its type, and the    *)
(* one thread that is not suspended in the handler is the running one.      *)
THEOREM TrapTypeCorrect == TrapSpec => []TrapTypeOK
<1>1. TrapInv => TrapTypeOK
  BY DEF TrapInv
<1> QED
  BY <1>1, TrapInductive, PTL

(* However the other threads wait, sleep and are preempted, the handler     *)
(* returns to the idle thread in its own loop and in supervisor mode.       *)
THEOREM IdleReturns == TrapSpec => []IdleIntact
<1>1. TrapInv => IdleIntact
  BY DEF TrapInv
<1> QED
  BY <1>1, TrapInductive, PTL

(* Whatever goes wrong with sepc, a0 or the timer's pending bit, a time     *)
(* slice has ended with a switch before.                                    *)
THEOREM SlicesToBlame == TrapSpec => []SoundUntilSliced
<1>1. TrapInv => SoundUntilSliced
  BY DEF TrapInv, Unsliced, SoundUntilSliced
<1> QED
  BY <1>1, TrapInductive, PTL
===============================================================================
