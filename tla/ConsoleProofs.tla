----------------------------- MODULE ConsoleProofs -----------------------------
(***************************************************************************)
(* Theorems about Console.tla, for any number of threads and any capacity. *)
(*                                                                         *)
(* The two semaphores of a buffer are called by what they count, "space"   *)
(* and "item".  Every step waits on one of them, signals one of them, or   *)
(* leaves them alone (`Waits`, `Signals`, the lemmas named Quiet); so      *)
(* there is one lemma for each of these and each part of the invariant.    *)
(* From the invariant follows the refinement: each buffer implements the   *)
(* channel of Channel.tla.                                                 *)
(***************************************************************************)
EXTENDS Console, Lemmas

Sems == {"space", "item"}
Value(k, b) == IF k = "space" THEN space[b] ELSE item[b]
Waiters(k, b) == IF k = "space" THEN spaceWaiters[b] ELSE itemWaiters[b]

PutPlace(b) == IF b = "in" THEN "interrupt" ELSE "putc"
GetPlace(b) == IF b = "in" THEN "getc" ELSE "transmit"
WaitPlace(k, b) == IF k = "space" THEN PutPlace(b) ELSE GetPlace(b)

Queueable == User \cup {Con}
Runnable == (ToSet(ready) \cup {running}) \ {Idle}

(* Who is where, and what a thread carries that is about to put. *)
Roles ==
  /\ at[Con] \in {"polling", "transmit"}
  /\ at[Idle] \in {"outside", "interrupt", "polling"}
  /\ \A t \in User : at[t] # "transmit"
  /\ \A t \in Threads : at[t] \in {"putc", "interrupt"} => ch[t] \in Char

AccountOf(b) ==
  /\ Value("space", b) + Value("item", b) + CountIn(Threads, at, PutPlace(b))
       + CountIn(Threads, at, GetPlace(b)) = Cap
  /\ (head[b] + Value("item", b) + CountIn(Threads, at, GetPlace(b))) % Cap = tail[b]

(* A list of waiters: none twice, as many as the value says, nobody that    *)
(* runs; only the idle thread may go on when it should wait.                *)
ListOf(k, b) ==
  /\ IsInjective(Waiters(k, b))
  /\ Len(Waiters(k, b)) = IF Value(k, b) < 0 THEN -Value(k, b) ELSE 0
  /\ \A t \in ToSet(Waiters(k, b)) :
       IF t = Idle THEN k = "space" /\ b = "in"
       ELSE at[t] = WaitPlace(k, b) /\ t \notin Runnable

HartPart == IsInjective(ready) /\ running \notin ToSet(ready)

Away == \A t \in Threads : at[t] = "away" => t \notin Runnable

(* Everybody is somewhere. *)
Placed ==
  \A t \in Queueable :
    \/ t \in Runnable
    \/ at[t] = "away"
    \/ \E k \in Sems, b \in Buffers : t \in ToSet(Waiters(k, b))

Account == \A b \in Buffers : AccountOf(b)
Lists == \A k \in Sems, b \in Buffers : ListOf(k, b)

Inv == TypeOK /\ Roles /\ Account /\ HartPart /\ Lists /\ Away /\ Placed

-------------------------------------------------------------------------------
(* What a step does to the semaphores and lists; q is the ready queue it    *)
(* leaves or dispatches from.                                               *)
OthersKept(k, b) ==
  \A j \in Sems, c \in Buffers : <<j, c>> # <<k, b>> =>
    Value(j, c)' = Value(j, c) /\ Waiters(j, c)' = Waiters(j, c)

Dispatched(q) == running' = NextOf(q) /\ ready' = RestOf(q)

Stays(q) ==
  \/ running' = running /\ ready' = q
  \/ q # <<>> /\ running' = Head(q) /\ ready' = Put(Tail(q), running)

Waits(k, b) ==
  /\ at' = [at EXCEPT ![running] = WaitPlace(k, b)]
  /\ running = Idle => k = "space" /\ b = "in" /\ Idle \notin ToSet(Waiters(k, b))
  /\ running \in Threads /\ at[running] \in {"outside", "polling"}
  /\ Value(k, b)' = Value(k, b) - 1
  /\ OthersKept(k, b)
  /\ \/ /\ Value(k, b) - 1 < 0
        /\ Waiters(k, b)' = Append(Waiters(k, b), running)
        /\ Dispatched(ready)
     \/ /\ Value(k, b) - 1 >= 0
        /\ Waiters(k, b)' = Waiters(k, b)
        /\ UNCHANGED <<running, ready>>

(* The thread at WaitPlace of the other semaphore signals this one. *)
Signals(k, b, place) ==
  /\ at' = [at EXCEPT ![running] = place]
  /\ place \in {"outside", "polling"}
  /\ running \in Threads
  /\ at[running] = IF k = "space" THEN GetPlace(b) ELSE PutPlace(b)
  /\ Value(k, b)' = Value(k, b) + 1
  /\ Waiters(k, b)' = WaitersAfterSignal(Value(k, b), Waiters(k, b))
  /\ OthersKept(k, b)
  /\ Stays(ReadyAfterSignal(Value(k, b), Waiters(k, b)))

-------------------------------------------------------------------------------
(* What the assumption on the constants says of the sets of threads. *)
LEMMA Facts ==
  /\ IsFiniteSet(Threads) /\ Con \in Threads /\ Idle \in Threads
  /\ Idle \notin Queueable /\ Con # Idle /\ Con \notin User
  /\ Threads = Queueable \cup {Idle} /\ Queueable \subseteq Threads
  /\ Cap \in Nat \ {0}
<1>1. /\ IsFiniteSet(User) /\ Con \notin User /\ Idle \notin User \cup {Con}
      /\ Cap \in Nat \ {0}
  BY ConsoleAssumption DEF ConsoleAssumption
<1>2. IsFiniteSet((User \cup {Con}) \cup {Idle})
  BY <1>1, FS_AddElement
<1>3. Threads = (User \cup {Con}) \cup {Idle}
  BY DEF Threads
<1> QED
  BY <1>1, <1>2, <1>3 DEF Queueable

(* The set of those that run or will: what each way of going on does to it. *)
LEMMA StaysRunnable ==
  ASSUME NEW q \in Seq(Queueable), IsInjective(q), running \in Threads,
         running \notin ToSet(q), Stays(q)
  PROVE  /\ HartPart' /\ running' \in Threads /\ ready' \in Seq(Queueable)
         /\ Runnable' = (ToSet(q) \cup {running}) \ {Idle}
<1>1. CASE running' = running /\ ready' = q
  BY <1>1 DEF HartPart, Runnable
<1>2. CASE q # <<>> /\ running' = Head(q) /\ ready' = Put(Tail(q), running)
  <2> DEFINE h == Head(q)
             u == Tail(q)
  <2>1. /\ h \in Queueable /\ u \in Seq(Queueable)
        /\ ToSet(q) = {h} \cup ToSet(u) /\ IsInjective(u) /\ h \notin ToSet(u)
    BY <1>2, HeadList
  <2> HIDE DEF h, u
  <2>2. running' = h /\ ready' = Put(u, running) /\ h \in Threads
    BY <1>2, <2>1, Facts DEF h, u
  <2>3. CASE running = Idle
    <3>1. ready' = u
      BY <2>2, <2>3 DEF Put
    <3> QED
      BY <2>1, <2>2, <2>3, <3>1 DEF HartPart, Runnable
  <2>4. CASE running # Idle
    <3>1. ready' = Append(u, running) /\ running \in Queueable
      BY <2>2, <2>4, Facts DEF Put
    <3>2. /\ ready' \in Seq(Queueable) /\ ToSet(ready') = ToSet(u) \cup {running}
          /\ IsInjective(ready')
      BY <2>1, <3>1, AppendList
    <3> QED
      BY <2>1, <2>2, <2>4, <3>2 DEF HartPart, Runnable
  <2> QED
    BY <2>3, <2>4
<1> QED
  BY <1>1, <1>2 DEF Stays

(* A dispatch takes the running thread out of those that run or will. *)
LEMMA DispatchedRunnable ==
  ASSUME TypeOK, HartPart, Dispatched(ready)
  PROVE  /\ HartPart' /\ running' \in Threads /\ ready' \in Seq(Queueable)
         /\ Runnable' = Runnable \ {running}
<1>1. ready \in Seq(Queueable) /\ IsInjective(ready) /\ running \notin ToSet(ready)
  BY DEF TypeOK, HartPart, Queueable
<1>2. CASE ready = <<>>
  <2>1. running' = Idle /\ ready' = <<>> /\ ToSet(<<>>) = {} /\ IsInjective(<<>>)
    BY <1>2, EmptyList DEF Dispatched, NextOf, RestOf
  <2> QED
    BY <1>2, <2>1, Facts DEF HartPart, Runnable
<1>3. CASE ready # <<>>
  <2>1. running' = Head(ready) /\ ready' = Tail(ready)
    BY <1>3 DEF Dispatched, NextOf, RestOf
  <2>2. /\ Head(ready) \in Queueable /\ Tail(ready) \in Seq(Queueable)
        /\ ToSet(ready) = {Head(ready)} \cup ToSet(Tail(ready))
        /\ IsInjective(Tail(ready)) /\ Head(ready) \notin ToSet(Tail(ready))
    BY <1>1, <1>3, HeadList
  <2>3. Idle \notin ToSet(ready)
    BY <1>1, ListElements, Facts
  <2>4. Runnable' = ToSet(ready) \ {Idle}
    BY <2>1, <2>2 DEF Runnable
  <2> QED
    BY <1>1, <2>1, <2>2, <2>3, <2>4, Facts DEF HartPart, Runnable
<1> QED
  BY <1>2, <1>3

(* A thread that waits is put behind those that wait already; it is in no   *)
(* other list, because it was running.                                      *)
LEMMA WaitsLists ==
  ASSUME Inv, NEW k \in Sems, NEW b \in Buffers, Waits(k, b)
  PROVE  /\ HartPart' /\ running' \in Threads /\ ready' \in Seq(Queueable)
         /\ Lists' /\ Away' /\ Placed'
<1>1. /\ running \in Threads /\ at \in [Threads -> Places]
      /\ Waiters(k, b) \in Seq(Threads) /\ Value(k, b) \in Int
      /\ Len(Waiters(k, b)) \in Nat
  BY LenProperties DEF Inv, TypeOK, Waiters, Value, Sems
<1>2. /\ at'[running] = WaitPlace(k, b)
      /\ \A t \in Threads \ {running} : at'[t] = at[t]
      /\ at'[running] # "away" /\ at[running] # "away"
  BY <1>1 DEF Waits, WaitPlace, PutPlace, GetPlace
<1>3. ListOf(k, b)
  BY DEF Inv, Lists
<1>4. running \notin ToSet(Waiters(k, b))
  BY <1>3 DEF ListOf, Runnable, Waits
<1>5. \A j \in Sems, c \in Buffers : ToSet(Waiters(j, c)) \subseteq Threads
  BY ListElements DEF Inv, TypeOK, Waiters
<1>6. CASE /\ Value(k, b) - 1 < 0
           /\ Waiters(k, b)' = Append(Waiters(k, b), running)
           /\ Dispatched(ready)
  <2>1. /\ HartPart' /\ running' \in Threads /\ ready' \in Seq(Queueable)
        /\ Runnable' = Runnable \ {running}
    BY <1>6, DispatchedRunnable DEF Inv
  <2>2. /\ ToSet(Waiters(k, b)') = ToSet(Waiters(k, b)) \cup {running}
        /\ IsInjective(Waiters(k, b)')
        /\ Len(Waiters(k, b)') = Len(Waiters(k, b)) + 1
    BY <1>1, <1>3, <1>4, <1>6, AppendList, AppendProperties DEF ListOf
  <2>3. ListOf(k, b)'
    <3>1. Len(Waiters(k, b)') = -(Value(k, b)') /\ Value(k, b)' < 0
      BY <1>1, <1>3, <1>6, <2>2 DEF ListOf, Waits
    <3>2. ASSUME NEW t \in ToSet(Waiters(k, b)')
          PROVE  IF t = Idle THEN k = "space" /\ b = "in"
                 ELSE at'[t] = WaitPlace(k, b) /\ t \notin Runnable'
      BY <1>2, <1>3, <1>5, <2>1, <2>2 DEF ListOf, Waits
    <3> QED
      BY <2>2, <3>1, <3>2 DEF ListOf
  <2>4. ASSUME NEW j \in Sems, NEW c \in Buffers, <<j, c>> # <<k, b>>
        PROVE  ListOf(j, c)'
    <3>1. Value(j, c)' = Value(j, c) /\ Waiters(j, c)' = Waiters(j, c)
      BY <2>4 DEF Waits, OthersKept
    <3>2. ListOf(j, c)
      BY DEF Inv, Lists
    <3>3. ASSUME NEW t \in ToSet(Waiters(j, c)), t # Idle
          PROVE  at'[t] = at[t] /\ t \notin Runnable'
      <4>1. t # running /\ t \in Threads
        BY <1>5, <3>2, <3>3 DEF ListOf, Runnable
      <4> QED
        BY <1>2, <2>1, <3>2, <3>3, <4>1 DEF ListOf
    <3> QED
      BY <3>1, <3>2, <3>3 DEF ListOf
  <2>5. Lists'
    BY <2>3, <2>4 DEF Lists
  <2>6. Away'
    BY <1>2, <2>1 DEF Inv, Away
  <2>7. Placed'
    <3> SUFFICES ASSUME NEW t \in Queueable, t \notin Runnable', at'[t] # "away"
                 PROVE  \E j \in Sems, c \in Buffers : t \in ToSet(Waiters(j, c)')
      BY DEF Placed
    <3>1. CASE t = running
      BY <2>2, <3>1
    <3>2. CASE t # running
      <4>1. PICK j \in Sems, c \in Buffers : t \in ToSet(Waiters(j, c))
        BY <1>2, <2>1, <3>2, Facts DEF Inv, Placed
      <4>2. t \in ToSet(Waiters(j, c)')
        BY <2>2, <4>1 DEF Waits, OthersKept
      <4> QED
        BY <4>2
    <3> QED
      BY <3>1, <3>2
  <2> QED
    BY <2>1, <2>5, <2>6, <2>7
<1>7. CASE /\ Value(k, b) - 1 >= 0
           /\ Waiters(k, b)' = Waiters(k, b)
           /\ UNCHANGED <<running, ready>>
  <2>1. Runnable' = Runnable /\ HartPart'
    BY <1>7 DEF Runnable, Inv, HartPart
  <2>2. ASSUME NEW j \in Sems, NEW c \in Buffers
        PROVE  /\ Waiters(j, c)' = Waiters(j, c)
               /\ Value(j, c)' < 0 <=> Value(j, c) < 0
               /\ Value(j, c) < 0 => Value(j, c)' = Value(j, c)
    <3>1. CASE <<j, c>> = <<k, b>>
      BY <1>1, <1>7, <3>1 DEF Waits
    <3>2. CASE <<j, c>> # <<k, b>>
      BY <3>2 DEF Waits, OthersKept
    <3> QED
      BY <3>1, <3>2
  <2>3. ASSUME NEW j \in Sems, NEW c \in Buffers
        PROVE  ListOf(j, c)'
    <3>1. ListOf(j, c) /\ Value(j, c) \in Int
      BY DEF Inv, Lists, TypeOK, Value
    <3>2. ASSUME NEW t \in ToSet(Waiters(j, c)), t # Idle
          PROVE  at'[t] = at[t]
      BY <1>2, <1>5, <3>1, <3>2 DEF ListOf, Runnable
    <3>3. Len(Waiters(j, c)') = IF Value(j, c)' < 0 THEN -(Value(j, c)') ELSE 0
      BY <2>2, <3>1 DEF ListOf
    <3> QED
      BY <2>1, <2>2, <3>1, <3>2, <3>3 DEF ListOf
  <2>4. Away'
    BY <1>2, <2>1 DEF Inv, Away
  <2>5. Placed'
    BY <1>2, <2>1, <2>2, Facts DEF Inv, Placed
  <2> QED
    BY <1>1, <1>7, <2>1, <2>3, <2>4, <2>5 DEF Lists, Inv, TypeOK, Queueable
<1> QED
  BY <1>6, <1>7 DEF Waits

(* A signal makes the first waiter ready, unless that is the idle thread. *)
LEMMA SignalsQueue ==
  ASSUME Inv, NEW k \in Sems, NEW b \in Buffers
  PROVE  LET q == ReadyAfterSignal(Value(k, b), Waiters(k, b))
             w == WaitersAfterSignal(Value(k, b), Waiters(k, b))
         IN  /\ q \in Seq(Queueable) /\ IsInjective(q) /\ running \notin ToSet(q)
             /\ w \in Seq(Threads) /\ IsInjective(w)
             /\ Len(w) = IF Value(k, b) + 1 < 0 THEN -(Value(k, b) + 1) ELSE 0
             /\ ToSet(w) \subseteq ToSet(Waiters(k, b))
             /\ ToSet(q) \cap ToSet(w) = {}
             /\ ToSet(q) = ToSet(ready) \cup (ToSet(Waiters(k, b)) \ (ToSet(w) \cup {Idle}))
<1> DEFINE v == Value(k, b)
           l == Waiters(k, b)
           q == ReadyAfterSignal(v, l)
           w == WaitersAfterSignal(v, l)
<1>1. /\ v \in Int /\ l \in Seq(Threads) /\ Len(l) \in Nat /\ ListOf(k, b)
      /\ ready \in Seq(Queueable) /\ IsInjective(ready) /\ running \notin ToSet(ready)
  BY LenProperties DEF Inv, Lists, HartPart, TypeOK, Value, Waiters, Queueable
<1>2. Len(l) = (IF v < 0 THEN -v ELSE 0) /\ IsInjective(l)
  BY <1>1 DEF ListOf
<1>3. \A t \in ToSet(l) : t = Idle \/ (t # running /\ t \notin ToSet(ready))
  BY <1>1 DEF ListOf, Runnable
<1>4. ToSet(l) \subseteq Threads /\ ToSet(ready) \subseteq Queueable
  BY <1>1, ListElements
<1>5. (v + 1 <= 0 /\ l # <<>>) <=> v < 0
  <2>1. l # <<>> <=> Len(l) # 0
    BY <1>1, EmptySeq
  <2> QED
    BY <1>1, <1>2, <2>1
<1>6. CASE v < 0
  <2> DEFINE h == Head(l)
             u == Tail(l)
  <2>1. /\ h \in Threads /\ u \in Seq(Threads) /\ Len(u) = Len(l) - 1
        /\ ToSet(l) = {h} \cup ToSet(u) /\ IsInjective(u) /\ h \notin ToSet(u)
    BY <1>1, <1>2, <1>5, <1>6, HeadList
  <2>2. q = Put(ready, h) /\ w = u
    BY <1>5, <1>6 DEF ReadyAfterSignal, WaitersAfterSignal
  <2> HIDE DEF h, u, l, v, q, w
  <2>3. Len(w) = IF v + 1 < 0 THEN -(v + 1) ELSE 0
    BY <1>1, <1>2, <1>6, <2>1, <2>2
  <2>4. CASE h = Idle
    <3>1. q = ready
      BY <2>2, <2>4 DEF Put
    <3>2. ToSet(ready) \cap ToSet(w) = {}
      BY <1>3, <1>4, <2>1, <2>2, Facts
    <3> QED
      BY <1>1, <2>1, <2>2, <2>3, <2>4, <3>1, <3>2 DEF l, v, q, w
  <2>5. CASE h # Idle
    <3>1. q = Append(ready, h) /\ h \in Queueable /\ h \notin ToSet(ready) /\ h # running
      BY <1>3, <2>1, <2>2, <2>5, Facts DEF Put
    <3>2. /\ q \in Seq(Queueable) /\ ToSet(q) = ToSet(ready) \cup {h}
          /\ IsInjective(q)
      BY <1>1, <3>1, AppendList
    <3>3. ToSet(q) \cap ToSet(w) = {}
      BY <1>3, <1>4, <2>1, <2>2, <3>2, Facts
    <3>4. ToSet(l) \ (ToSet(w) \cup {Idle}) = {h}
      BY <2>1, <2>2, <2>5, <1>4
    <3> QED
      BY <1>1, <2>1, <2>2, <2>3, <3>1, <3>2, <3>3, <3>4 DEF l, v, q, w
  <2> QED
    BY <2>4, <2>5
<1>7. CASE ~(v < 0)
  <2>1. q = ready /\ w = l
    BY <1>5, <1>7 DEF ReadyAfterSignal, WaitersAfterSignal
  <2>2. Len(w) = IF v + 1 < 0 THEN -(v + 1) ELSE 0
    BY <1>1, <1>2, <1>7, <2>1
  <2>3. ToSet(q) \cap ToSet(w) = {}
    BY <1>3, <1>4, <2>1, Facts
  <2> HIDE DEF l, v, q, w
  <2> QED
    BY <1>1, <1>2, <2>1, <2>2, <2>3 DEF l, v, q, w
<1> QED
  BY <1>6, <1>7

(* A signal moves at most one thread from a list to the ready queue. *)
LEMMA SignalsLists ==
  ASSUME Inv, NEW k \in Sems, NEW b \in Buffers, NEW place, Signals(k, b, place)
  PROVE  /\ HartPart' /\ running' \in Threads /\ ready' \in Seq(Queueable)
         /\ Lists' /\ Away' /\ Placed'
<1> DEFINE q == ReadyAfterSignal(Value(k, b), Waiters(k, b))
           w == WaitersAfterSignal(Value(k, b), Waiters(k, b))
<1>1. /\ q \in Seq(Queueable) /\ IsInjective(q) /\ running \notin ToSet(q)
      /\ w \in Seq(Threads) /\ IsInjective(w)
      /\ Len(w) = IF Value(k, b) + 1 < 0 THEN -(Value(k, b) + 1) ELSE 0
      /\ ToSet(w) \subseteq ToSet(Waiters(k, b))
      /\ ToSet(q) \cap ToSet(w) = {}
      /\ ToSet(q) = ToSet(ready) \cup (ToSet(Waiters(k, b)) \ (ToSet(w) \cup {Idle}))
  BY SignalsQueue
<1> HIDE DEF q, w
<1>2. /\ Waiters(k, b)' = w /\ Value(k, b)' = Value(k, b) + 1 /\ running \in Threads
      /\ Stays(q) /\ place \in {"outside", "polling"}
  BY DEF Signals, q, w
<1>3. /\ HartPart' /\ running' \in Threads /\ ready' \in Seq(Queueable)
      /\ Runnable' = (ToSet(q) \cup {running}) \ {Idle}
  BY <1>1, <1>2, StaysRunnable
<1>4. /\ at'[running] = place
      /\ \A t \in Threads \ {running} : at'[t] = at[t]
  BY <1>2 DEF Inv, TypeOK, Signals
<1>5. at[running] # "away"
  BY DEF Signals, GetPlace, PutPlace
<1>6. \A j \in Sems, c \in Buffers : ToSet(Waiters(j, c)) \subseteq Threads /\ ListOf(j, c)
  BY ListElements DEF Inv, TypeOK, Waiters, Lists
<1>7. ListOf(k, b)'
  <2>1. ASSUME NEW t \in ToSet(w)
        PROVE  IF t = Idle THEN k = "space" /\ b = "in"
               ELSE at'[t] = WaitPlace(k, b) /\ t \notin Runnable'
    <3>1. t \in ToSet(Waiters(k, b)) /\ t \in Threads /\ t \notin ToSet(q)
      BY <1>1, <1>6
    <3>2. t # Idle => t # running
      BY <1>6, <3>1 DEF ListOf, Runnable
    <3> QED
      BY <1>3, <1>4, <1>6, <3>1, <3>2 DEF ListOf
  <2> QED
    BY <1>1, <1>2, <2>1 DEF ListOf
<1>8. ASSUME NEW j \in Sems, NEW c \in Buffers, <<j, c>> # <<k, b>>
      PROVE  ListOf(j, c)'
  <2>1. Value(j, c)' = Value(j, c) /\ Waiters(j, c)' = Waiters(j, c)
    BY <1>8 DEF Signals, OthersKept
  <2>2. ASSUME NEW t \in ToSet(Waiters(j, c)), t # Idle
        PROVE  at'[t] = at[t] /\ t \notin Runnable'
    <3>1. t \in Threads /\ t # running /\ t \notin ToSet(ready) /\ at[t] = WaitPlace(j, c)
      BY <1>6, <2>2 DEF ListOf, Runnable
    <3>2. t \notin ToSet(Waiters(k, b))
      <4>1. WaitPlace(j, c) # WaitPlace(k, b)
        BY <1>8 DEF WaitPlace, PutPlace, GetPlace, Sems, Buffers
      <4> QED
        BY <1>6, <2>2, <3>1, <4>1 DEF ListOf
    <3> QED
      BY <1>1, <1>3, <1>4, <3>1, <3>2
  <2> QED
    BY <1>6, <2>1, <2>2 DEF ListOf
<1>9. Away'
  <2> SUFFICES ASSUME NEW t \in Threads, at'[t] = "away"
               PROVE  t \notin Runnable'
    BY DEF Away
  <2>1. t # running /\ at[t] = "away"
    BY <1>2, <1>4
  <2>2. t \notin ToSet(Waiters(k, b)) \/ t = Idle
    BY <1>6, <2>1 DEF ListOf, WaitPlace, PutPlace, GetPlace
  <2>3. t \notin Runnable
    BY <2>1 DEF Inv, Away
  <2> QED
    BY <1>1, <1>3, <2>1, <2>2, <2>3 DEF Runnable
<1>10. Placed'
  <2> SUFFICES ASSUME NEW t \in Queueable, t \notin Runnable', at'[t] # "away"
               PROVE  \E j \in Sems, c \in Buffers : t \in ToSet(Waiters(j, c)')
    BY DEF Placed
  <2>1. t \in Threads /\ t # Idle /\ t # running /\ t \notin ToSet(q)
    BY <1>3, Facts
  <2>2. PICK j \in Sems, c \in Buffers : t \in ToSet(Waiters(j, c))
    BY <1>1, <1>4, <2>1 DEF Inv, Placed, Runnable
  <2>3. CASE <<j, c>> = <<k, b>>
    BY <1>1, <1>2, <2>1, <2>2, <2>3
  <2>4. CASE <<j, c>> # <<k, b>>
    BY <2>2, <2>4 DEF Signals, OthersKept
  <2> QED
    BY <2>3, <2>4
<1> QED
  BY <1>3, <1>7, <1>8, <1>9, <1>10 DEF Lists

(* A step that leaves the semaphores alone moves only the running thread,   *)
(* or one that was away.                                                    *)
LEMMA QuietLists ==
  ASSUME Inv, UNCHANGED semVars, NEW m \in Threads, NEW place, at' = [at EXCEPT ![m] = place],
         m = running \/ at[m] = "away",
         \A t \in Queueable : t \in Runnable' => t \in Runnable \/ t = m
  PROVE  Lists'
<1> SUFFICES ASSUME NEW j \in Sems, NEW c \in Buffers
             PROVE  ListOf(j, c)'
  BY DEF Lists
<1>1. Value(j, c)' = Value(j, c) /\ Waiters(j, c)' = Waiters(j, c)
  BY DEF semVars, Value, Waiters
<1>2. ListOf(j, c) /\ ToSet(Waiters(j, c)) \subseteq Threads
  BY ListElements DEF Inv, Lists, TypeOK, Waiters
<1>3. ASSUME NEW t \in ToSet(Waiters(j, c)), t # Idle
      PROVE  at'[t] = at[t] /\ t \notin Runnable'
  <2>1. t \in Queueable /\ t \notin Runnable /\ at[t] # "away"
    BY <1>2, <1>3, Facts DEF ListOf, WaitPlace, PutPlace, GetPlace
  <2>2. t # m
    BY <1>3, <2>1 DEF Runnable
  <2> QED
    BY <2>1, <2>2, Facts DEF Inv, TypeOK
<1> QED
  BY <1>1, <1>2, <1>3 DEF ListOf

(* A thread that stays, in the queue or on the hart. *)
LEMMA QuietStays ==
  ASSUME Inv, UNCHANGED semVars, NEW place \in Places, place # "away",
         at[running] # "away", at' = [at EXCEPT ![running] = place], Stays(ready)
  PROVE  /\ HartPart' /\ running' \in Threads /\ ready' \in Seq(Queueable)
         /\ Lists' /\ Away' /\ Placed'
<1>1. /\ running \in Threads /\ ready \in Seq(Queueable)
      /\ IsInjective(ready) /\ running \notin ToSet(ready)
  BY DEF Inv, TypeOK, HartPart, Queueable
<1>2. /\ HartPart' /\ running' \in Threads /\ ready' \in Seq(Queueable)
      /\ Runnable' = Runnable
  BY <1>1, StaysRunnable DEF Runnable
<1>3. Lists'
  BY <1>1, <1>2, QuietLists
<1>4. \A t \in Threads : at'[t] = "away" <=> at[t] = "away"
  BY <1>1 DEF Inv, TypeOK
<1>5. Away'
  BY <1>2, <1>4 DEF Inv, Away
<1>6. \A j \in Sems, c \in Buffers : Waiters(j, c)' = Waiters(j, c)
  BY DEF semVars, Waiters
<1>7. Placed'
  BY <1>2, <1>4, <1>6, Facts DEF Inv, Placed
<1> QED
  BY <1>2, <1>3, <1>5, <1>7

(* A thread that goes to sleep is in no list. *)
LEMMA LeaveLists ==
  ASSUME Inv, Leave
  PROVE  /\ HartPart' /\ running' \in Threads /\ ready' \in Seq(Queueable)
         /\ Lists' /\ Away' /\ Placed'
<1>1. /\ running \in Threads /\ running # Idle /\ UNCHANGED semVars
      /\ at' = [at EXCEPT ![running] = "away"] /\ Dispatched(ready)
  BY Facts DEF Inv, TypeOK, Leave, Dispatched, Queueable
<1>2. /\ HartPart' /\ running' \in Threads /\ ready' \in Seq(Queueable)
      /\ Runnable' = Runnable \ {running}
  BY <1>1, DispatchedRunnable DEF Inv
<1>3. Lists'
  BY <1>1, <1>2, QuietLists
<1>4. at'[running] = "away" /\ \A t \in Threads \ {running} : at'[t] = at[t]
  BY <1>1 DEF Inv, TypeOK
<1>5. Away'
  BY <1>2, <1>4 DEF Inv, Away
<1>6. \A j \in Sems, c \in Buffers : Waiters(j, c)' = Waiters(j, c)
  BY <1>1 DEF semVars, Waiters
<1>7. Placed'
  BY <1>2, <1>4, <1>6, Facts DEF Inv, Placed
<1> QED
  BY <1>2, <1>3, <1>5, <1>7

(* A thread that comes back is made ready; it was in no list. *)
LEMMA WakeLists ==
  ASSUME Inv, NEW t \in User, Wake(t)
  PROVE  /\ HartPart' /\ running' \in Threads /\ ready' \in Seq(Queueable)
         /\ Lists' /\ Away' /\ Placed'
<1>1. /\ t \in Queueable /\ t \in Threads /\ t # Idle /\ at[t] = "away" /\ running \in Threads
      /\ running' = running /\ ready' = Append(ready, t) /\ UNCHANGED semVars
      /\ at' = [at EXCEPT ![t] = "outside"] /\ ready \in Seq(Queueable)
  BY Facts DEF Inv, TypeOK, Wake, Put, Queueable
<1>2. t \notin Runnable /\ t # running /\ t \notin ToSet(ready)
  BY <1>1 DEF Inv, Away, Runnable
<1>3. /\ ready' \in Seq(Queueable) /\ ToSet(ready') = ToSet(ready) \cup {t}
      /\ IsInjective(ready')
  BY <1>1, <1>2, AppendList DEF Inv, HartPart
<1>4. HartPart' /\ Runnable' = Runnable \cup {t}
  BY <1>1, <1>2, <1>3 DEF Inv, HartPart, Runnable
<1>5. Lists'
  BY <1>1, <1>4, QuietLists
<1>6. at'[t] = "outside" /\ \A u \in Threads \ {t} : at'[u] = at[u]
  BY <1>1 DEF Inv, TypeOK
<1>7. Away'
  BY <1>4, <1>6 DEF Inv, Away
<1>8. \A j \in Sems, c \in Buffers : Waiters(j, c)' = Waiters(j, c)
  BY <1>1 DEF semVars, Waiters
<1>9. Placed'
  BY <1>4, <1>6, <1>8, Facts DEF Inv, Placed
<1> QED
  BY <1>1, <1>3, <1>4, <1>5, <1>7, <1>9

-------------------------------------------------------------------------------
(* How many threads are about to put, and to get, after one has moved. *)
LEMMA CountsMove ==
  ASSUME Inv, NEW m \in Threads, NEW place \in Places, at' = [at EXCEPT ![m] = place],
         NEW p
  PROVE  /\ CountIn(Threads, at, p) \in Nat /\ CountIn(Threads, at', p) \in Nat
         /\ CountIn(Threads, at', p) = CountIn(Threads, at, p)
               - (IF at[m] = p THEN 1 ELSE 0) + (IF place = p THEN 1 ELSE 0)
<1> DEFINE F == {t \in Threads : at[t] = p}
           G == {t \in Threads : at'[t] = p}
<1>1. /\ IsFiniteSet(F) /\ Cardinality(F) \in Nat /\ CountIn(Threads, at, p) = Cardinality(F)
      /\ Cardinality(G) \in Nat /\ CountIn(Threads, at', p) = Cardinality(G)
  <2>1. IsFiniteSet(Threads)
    BY Facts
  <2>2. IsFiniteSet(F) /\ CountIn(Threads, at, p) \in Nat
    BY <2>1, CountType
  <2>3. CountIn(Threads, at', p) \in Nat
    BY <2>1, CountType
  <2> QED
    BY <2>2, <2>3 DEF CountIn
<1>2. at'[m] = place /\ \A t \in Threads \ {m} : at'[t] = at[t]
  BY DEF Inv, TypeOK
<1>3. CASE at[m] = p /\ place # p
  <2>1. G = F \ {m} /\ m \in F
    BY <1>2, <1>3
  <2> HIDE DEF F, G
  <2>2. Cardinality(G) = Cardinality(F) - 1
    BY <1>1, <2>1, FS_RemoveElement
  <2> QED
    BY <1>1, <1>3, <2>2
<1>4. CASE at[m] # p /\ place = p
  <2>1. G = F \cup {m} /\ m \notin F
    BY <1>2, <1>4
  <2> HIDE DEF F, G
  <2>2. Cardinality(G) = Cardinality(F) + 1
    BY <1>1, <2>1, FS_AddElement
  <2> QED
    BY <1>1, <1>4, <2>2
<1>5. CASE (at[m] = p) <=> (place = p)
  <2>1. G = F
    BY <1>2, <1>5
  <2> HIDE DEF F, G
  <2> QED
    BY <1>1, <1>5, <2>1
<1> QED
  BY <1>3, <1>4, <1>5

(* A thread that waits gives up a unit, or is promised the next one. *)
LEMMA WaitsAccount ==
  ASSUME Inv, NEW k \in Sems, NEW b \in Buffers, Waits(k, b), UNCHANGED <<head, tail>>
  PROVE  Account'
<1> SUFFICES ASSUME NEW c \in Buffers
             PROVE  AccountOf(c)'
  BY DEF Account
<1> DEFINE P == CountIn(Threads, at, PutPlace(c))
           G == CountIn(Threads, at, GetPlace(c))
           S == Value("space", c)
           I == Value("item", c)
<1>1. AccountOf(c) /\ S \in Int /\ I \in Int /\ head[c] \in Nat
  BY DEF Inv, Account, TypeOK, Value
<1>2. /\ running \in Threads /\ at' = [at EXCEPT ![running] = WaitPlace(k, b)]
      /\ WaitPlace(k, b) \in Places
      /\ at[running] # PutPlace(c) /\ at[running] # GetPlace(c)
  BY DEF Waits, WaitPlace, PutPlace, GetPlace, Places
<1>3. /\ P \in Nat /\ G \in Nat
      /\ P' = P + (IF WaitPlace(k, b) = PutPlace(c) THEN 1 ELSE 0)
      /\ G' = G + (IF WaitPlace(k, b) = GetPlace(c) THEN 1 ELSE 0)
  <2>1. /\ P \in Nat
        /\ P' = P - (IF at[running] = PutPlace(c) THEN 1 ELSE 0)
                  + (IF WaitPlace(k, b) = PutPlace(c) THEN 1 ELSE 0)
    BY <1>2, CountsMove
  <2>2. /\ G \in Nat
        /\ G' = G - (IF at[running] = GetPlace(c) THEN 1 ELSE 0)
                  + (IF WaitPlace(k, b) = GetPlace(c) THEN 1 ELSE 0)
    BY <1>2, CountsMove
  <2> HIDE DEF P, G
  <2> QED
    BY <1>2, <2>1, <2>2
<1>4. /\ WaitPlace(k, b) = PutPlace(c) <=> k = "space" /\ b = c
      /\ WaitPlace(k, b) = GetPlace(c) <=> k = "item" /\ b = c
  BY DEF WaitPlace, PutPlace, GetPlace, Sems, Buffers
<1>5. /\ S' = S - (IF k = "space" /\ b = c THEN 1 ELSE 0)
      /\ I' = I - (IF k = "item" /\ b = c THEN 1 ELSE 0)
  <2>1. "space" \in Sems /\ "item" \in Sems /\ "space" # "item"
    BY DEF Sems
  <2> QED
    BY <1>1, <2>1 DEF Waits, OthersKept, Sems
<1> HIDE DEF P, G, S, I
<1>6. S' + I' + P' + G' = S + I + P + G
  BY <1>1, <1>3, <1>4, <1>5 DEF Sems
<1>7. head[c] + I' + G' = head[c] + I + G
  BY <1>1, <1>3, <1>4, <1>5
<1> QED
  BY <1>1, <1>6, <1>7 DEF AccountOf, P, G, S, I

(* A character is stored, and the next free cell is one further. *)
LEMMA StoresAccount ==
  ASSUME Inv, NEW b \in Buffers, NEW place, Signals("item", b, place),
         head' = head, tail' = [tail EXCEPT ![b] = (@ + 1) % Cap]
  PROVE  Account'
<1> SUFFICES ASSUME NEW c \in Buffers
             PROVE  AccountOf(c)'
  BY DEF Account
<1> DEFINE P == CountIn(Threads, at, PutPlace(c))
           G == CountIn(Threads, at, GetPlace(c))
           S == Value("space", c)
           I == Value("item", c)
<1>1. AccountOf(c) /\ S \in Int /\ I \in Int /\ head[c] \in Nat
  BY DEF Inv, Account, TypeOK, Value
<1>2. /\ running \in Threads /\ at' = [at EXCEPT ![running] = place] /\ place \in Places
      /\ place # PutPlace(c) /\ place # GetPlace(c) /\ at[running] # GetPlace(c)
      /\ at[running] = PutPlace(c) <=> b = c
  BY DEF Signals, PutPlace, GetPlace, Places, Buffers
<1>3. /\ P \in Nat /\ G \in Nat /\ G' = G
      /\ P' = P - (IF b = c THEN 1 ELSE 0)
  <2>0. running \in Threads /\ place \in Places /\ at' = [at EXCEPT ![running] = place]
    BY <1>2
  <2>1. /\ P \in Nat
        /\ P' = P - (IF at[running] = PutPlace(c) THEN 1 ELSE 0)
                  + (IF place = PutPlace(c) THEN 1 ELSE 0)
    BY <2>0, CountsMove
  <2>2. /\ G \in Nat
        /\ G' = G - (IF at[running] = GetPlace(c) THEN 1 ELSE 0)
                  + (IF place = GetPlace(c) THEN 1 ELSE 0)
    BY <2>0, CountsMove
  <2> HIDE DEF P, G
  <2> QED
    BY <1>2, <2>1, <2>2
<1>4. S' = S /\ I' = I + (IF b = c THEN 1 ELSE 0)
  BY <1>1 DEF Signals, OthersKept, Sems
<1>5. tail'[c] = IF b = c THEN (tail[c] + 1) % Cap ELSE tail[c]
  BY DEF Inv, TypeOK
<1> HIDE DEF P, G, S, I
<1>6. S' + I' + P' + G' = S + I + P + G
  BY <1>1, <1>3, <1>4
<1>7. (head[c] + I' + G') % Cap = tail'[c]
  <2> DEFINE x == head[c] + I + G
  <2>1. x \in Int /\ x % Cap = tail[c]
    BY <1>1, <1>3 DEF AccountOf, I, G
  <2>2. head[c] + I' + G' = IF b = c THEN x + 1 ELSE x
    BY <1>1, <1>3, <1>4
  <2> HIDE DEF x
  <2>3. ((x % Cap) + 1) % Cap = (x + 1) % Cap
    <3>1. Cap \in Nat \ {0}
      BY Facts
    <3> QED
      BY <2>1, <3>1, ModSucc
  <2> QED
    BY <1>5, <2>1, <2>2, <2>3
<1> QED
  BY <1>1, <1>6, <1>7 DEF AccountOf, P, G, S, I

(* A character is taken from the cell at the head. *)
LEMMA TakesAccount ==
  ASSUME Inv, NEW b \in Buffers, NEW place, Signals("space", b, place),
         tail' = tail, head' = [head EXCEPT ![b] = (@ + 1) % Cap]
  PROVE  Account'
<1> SUFFICES ASSUME NEW c \in Buffers
             PROVE  AccountOf(c)'
  BY DEF Account
<1> DEFINE P == CountIn(Threads, at, PutPlace(c))
           G == CountIn(Threads, at, GetPlace(c))
           S == Value("space", c)
           I == Value("item", c)
<1>1. AccountOf(c) /\ S \in Int /\ I \in Int /\ head[c] \in Nat
  BY DEF Inv, Account, TypeOK, Value
<1>2. /\ running \in Threads /\ at' = [at EXCEPT ![running] = place] /\ place \in Places
      /\ place # PutPlace(c) /\ place # GetPlace(c) /\ at[running] # PutPlace(c)
      /\ at[running] = GetPlace(c) <=> b = c
  BY DEF Signals, PutPlace, GetPlace, Places, Buffers
<1>3. /\ P \in Nat /\ G \in Nat /\ P' = P
      /\ G' = G - (IF b = c THEN 1 ELSE 0)
  <2>0. running \in Threads /\ place \in Places /\ at' = [at EXCEPT ![running] = place]
    BY <1>2
  <2>1. /\ P \in Nat
        /\ P' = P - (IF at[running] = PutPlace(c) THEN 1 ELSE 0)
                  + (IF place = PutPlace(c) THEN 1 ELSE 0)
    BY <2>0, CountsMove
  <2>2. /\ G \in Nat
        /\ G' = G - (IF at[running] = GetPlace(c) THEN 1 ELSE 0)
                  + (IF place = GetPlace(c) THEN 1 ELSE 0)
    BY <2>0, CountsMove
  <2> HIDE DEF P, G
  <2> QED
    BY <1>2, <2>1, <2>2
<1>4. I' = I /\ S' = S + (IF b = c THEN 1 ELSE 0)
  BY <1>1 DEF Signals, OthersKept, Sems
<1>5. head'[c] = IF b = c THEN (head[c] + 1) % Cap ELSE head[c]
  BY DEF Inv, TypeOK
<1> HIDE DEF P, G, S, I
<1>6. S' + I' + P' + G' = S + I + P + G
  BY <1>1, <1>3, <1>4
<1>7. (head'[c] + I' + G') % Cap = tail[c]
  <2> DEFINE x == head[c] + 1
             y == I + G - 1
  <2>1. (head[c] + I + G) % Cap = tail[c]
    BY <1>1 DEF AccountOf, I, G
  <2>2. ((x % Cap) + y) % Cap = (x + y) % Cap
    <3>1. x \in Int /\ y \in Int /\ Cap \in Nat \ {0}
      BY <1>1, <1>3, Facts
    <3> HIDE DEF x, y
    <3> QED
      BY <3>1, ModAdd
  <2>3. x + y = head[c] + I + G /\ x % Cap \in Int
    BY <1>1, <1>3, ModType, Facts
  <2>4. head'[c] + I' + G' = IF b = c THEN (x % Cap) + y ELSE head[c] + I + G
    BY <1>1, <1>3, <1>4, <1>5, <2>3
  <2> QED
    BY <2>1, <2>2, <2>3, <2>4
<1> QED
  BY <1>1, <1>6, <1>7 DEF AccountOf, P, G, S, I

(* No semaphore, and nobody enters or leaves a put or a get. *)
LEMMA QuietAccount ==
  ASSUME Inv, UNCHANGED <<semVars, head, tail>>, NEW m \in Threads, NEW place \in Places,
         at' = [at EXCEPT ![m] = place],
         \/ {at[m], place} \subseteq {"outside", "polling", "away"}
         \/ place = at[m]
  PROVE  Account'
<1> SUFFICES ASSUME NEW c \in Buffers
             PROVE  AccountOf(c)'
  BY DEF Account
<1>1. AccountOf(c)
  BY DEF Inv, Account
<1>2. /\ CountIn(Threads, at', PutPlace(c)) = CountIn(Threads, at, PutPlace(c))
      /\ CountIn(Threads, at', GetPlace(c)) = CountIn(Threads, at, GetPlace(c))
  <2>0. m \in Threads /\ place \in Places /\ at' = [at EXCEPT ![m] = place]
    OBVIOUS
  <2>1. CountIn(Threads, at', PutPlace(c)) = CountIn(Threads, at, PutPlace(c))
           - (IF at[m] = PutPlace(c) THEN 1 ELSE 0) + (IF place = PutPlace(c) THEN 1 ELSE 0)
    BY <2>0, CountsMove
  <2>2. CountIn(Threads, at', GetPlace(c)) = CountIn(Threads, at, GetPlace(c))
           - (IF at[m] = GetPlace(c) THEN 1 ELSE 0) + (IF place = GetPlace(c) THEN 1 ELSE 0)
    BY <2>0, CountsMove
  <2>3. /\ CountIn(Threads, at, PutPlace(c)) \in Nat
        /\ CountIn(Threads, at, GetPlace(c)) \in Nat
    BY CountType, Facts
  <2>4. /\ at[m] = PutPlace(c) <=> place = PutPlace(c)
        /\ at[m] = GetPlace(c) <=> place = GetPlace(c)
    BY DEF PutPlace, GetPlace
  <2> QED
    BY <2>1, <2>2, <2>3, <2>4
<1>3. UNCHANGED <<Value("space", c), Value("item", c)>>
  BY DEF semVars, Value
<1> QED
  BY <1>1, <1>2, <1>3 DEF AccountOf

-------------------------------------------------------------------------------
(* The second parts of put and get, and the waits of the first ones, are    *)
(* steps of the kinds above.                                                *)
LEMMA WaitSpaceKind ==
  ASSUME Inv, NEW b \in Buffers, NEW place, place = PutPlace(b), WaitSpace(b, place),
         running = Idle => b = "in" /\ Idle \notin ToSet(spaceWaiters["in"]),
         at[running] \in {"outside", "polling"}
  PROVE  /\ Waits("space", b)
         /\ space' \in [Buffers -> Int] /\ spaceWaiters' \in [Buffers -> Seq(Threads)]
         /\ item' = item /\ itemWaiters' = itemWaiters
<1>1. /\ running \in Threads /\ space \in [Buffers -> Int]
      /\ spaceWaiters \in [Buffers -> Seq(Threads)] /\ spaceWaiters[b] \in Seq(Threads)
  BY DEF Inv, TypeOK
<1>2. /\ space' = [space EXCEPT ![b] = @ - 1] /\ item' = item /\ itemWaiters' = itemWaiters
      /\ at' = [at EXCEPT ![running] = place]
      /\ \/ /\ space[b] - 1 < 0
            /\ spaceWaiters' = [spaceWaiters EXCEPT ![b] = Append(@, running)]
            /\ Dispatched(ready)
         \/ space[b] - 1 >= 0 /\ UNCHANGED <<spaceWaiters, running, ready>>
  BY DEF WaitSpace, Dispatched
<1>3. Append(spaceWaiters[b], running) \in Seq(Threads)
  BY <1>1, AppendProperties
<1>4. OthersKept("space", b) /\ Value("space", b)' = Value("space", b) - 1
  BY <1>1, <1>2 DEF OthersKept, Sems, Value, Waiters
<1>5. \/ /\ Value("space", b) - 1 < 0
         /\ Waiters("space", b)' = Append(Waiters("space", b), running)
         /\ Dispatched(ready)
      \/ /\ Value("space", b) - 1 >= 0
         /\ Waiters("space", b)' = Waiters("space", b)
         /\ UNCHANGED <<running, ready>>
  BY <1>1, <1>2 DEF Value, Waiters
<1>6. Waits("space", b)
  BY <1>1, <1>2, <1>4, <1>5 DEF Waits, WaitPlace, Waiters
<1>7. space' \in [Buffers -> Int]
  BY <1>1, <1>2
<1>8. spaceWaiters' \in [Buffers -> Seq(Threads)]
  <2>1. \/ spaceWaiters' = [spaceWaiters EXCEPT ![b] = Append(spaceWaiters[b], running)]
        \/ spaceWaiters' = spaceWaiters
    BY <1>2
  <2> QED
    BY <1>1, <1>3, <2>1
<1> QED
  BY <1>2, <1>6, <1>7, <1>8

(* The same for the wait on itemAvailable. *)
LEMMA WaitItemKind ==
  ASSUME Inv, NEW b \in Buffers, NEW place, place = GetPlace(b), WaitItem(b, place),
         running # Idle, at[running] \in {"outside", "polling"}
  PROVE  /\ Waits("item", b)
         /\ item' \in [Buffers -> Int] /\ itemWaiters' \in [Buffers -> Seq(Threads)]
         /\ space' = space /\ spaceWaiters' = spaceWaiters
<1>1. /\ running \in Threads /\ item \in [Buffers -> Int]
      /\ itemWaiters \in [Buffers -> Seq(Threads)] /\ itemWaiters[b] \in Seq(Threads)
  BY DEF Inv, TypeOK
<1>2. /\ item' = [item EXCEPT ![b] = @ - 1] /\ space' = space /\ spaceWaiters' = spaceWaiters
      /\ at' = [at EXCEPT ![running] = place]
      /\ \/ /\ item[b] - 1 < 0
            /\ itemWaiters' = [itemWaiters EXCEPT ![b] = Append(@, running)]
            /\ Dispatched(ready)
         \/ item[b] - 1 >= 0 /\ UNCHANGED <<itemWaiters, running, ready>>
  BY DEF WaitItem, Dispatched
<1>3. Append(itemWaiters[b], running) \in Seq(Threads)
  BY <1>1, AppendProperties
<1>4. OthersKept("item", b) /\ Value("item", b)' = Value("item", b) - 1
  BY <1>1, <1>2 DEF OthersKept, Sems, Value, Waiters
<1>5. \/ /\ Value("item", b) - 1 < 0
         /\ Waiters("item", b)' = Append(Waiters("item", b), running)
         /\ Dispatched(ready)
      \/ /\ Value("item", b) - 1 >= 0
         /\ Waiters("item", b)' = Waiters("item", b)
         /\ UNCHANGED <<running, ready>>
  BY <1>1, <1>2 DEF Value, Waiters
<1>6. Waits("item", b)
  BY <1>1, <1>2, <1>4, <1>5 DEF Waits, WaitPlace
<1>7. item' \in [Buffers -> Int]
  BY <1>1, <1>2
<1>8. itemWaiters' \in [Buffers -> Seq(Threads)]
  <2>1. \/ itemWaiters' = [itemWaiters EXCEPT ![b] = Append(itemWaiters[b], running)]
        \/ itemWaiters' = itemWaiters
    BY <1>2
  <2> QED
    BY <1>1, <1>3, <2>1
<1> QED
  BY <1>2, <1>6, <1>7, <1>8

(* The second part of put signals itemAvailable, and keeps types. *)
LEMMA StoreKind ==
  ASSUME Inv, NEW b \in Buffers, NEW place \in {"outside", "polling"}, Store(b),
         at[running] = PutPlace(b), at' = [at EXCEPT ![running] = place],
         Stays(ReadyAfterSignal(item[b], itemWaiters[b]))
  PROVE  /\ Signals("item", b, place)
         /\ item' \in [Buffers -> Int] /\ itemWaiters' \in [Buffers -> Seq(Threads)]
         /\ space' = space /\ spaceWaiters' = spaceWaiters
         /\ buffer' \in [Buffers -> [0..(Cap - 1) -> Char]] /\ tail' \in [Buffers -> 0..(Cap - 1)]
         /\ head' = head /\ taken' = taken
<1>1. /\ running \in Threads /\ item \in [Buffers -> Int]
      /\ itemWaiters \in [Buffers -> Seq(Threads)]
      /\ buffer \in [Buffers -> [0..(Cap - 1) -> Char]]
      /\ tail \in [Buffers -> 0..(Cap - 1)] /\ tail[b] \in 0..(Cap - 1)
  BY DEF Inv, TypeOK
<1>2. ch[running] \in Char
  BY <1>1 DEF Inv, Roles, PutPlace
<1>3. (tail[b] + 1) % Cap \in 0..(Cap - 1)
  <2>1. tail[b] + 1 \in Int /\ Cap \in Nat \ {0}
    BY <1>1, Facts
  <2> QED
    BY <2>1, ModType
<1>4. /\ Value("item", b) = item[b] /\ Waiters("item", b) = itemWaiters[b]
      /\ item' = [item EXCEPT ![b] = @ + 1]
      /\ itemWaiters' = [itemWaiters EXCEPT ![b] = WaitersAfterSignal(item[b], @)]
      /\ space' = space /\ spaceWaiters' = spaceWaiters /\ head' = head /\ taken' = taken
      /\ "item" \in Sems
  BY DEF Store, Value, Waiters, Sems
<1>5. WaitersAfterSignal(item[b], itemWaiters[b]) \in Seq(Threads)
  BY <1>4, SignalsQueue
<1>6. OthersKept("item", b) /\ Value("item", b)' = Value("item", b) + 1
  BY <1>1, <1>4 DEF OthersKept, Sems, Value, Waiters
<1>7. Waiters("item", b)' = WaitersAfterSignal(Value("item", b), Waiters("item", b))
  BY <1>1, <1>4 DEF Waiters
<1>8. Signals("item", b, place)
  BY <1>1, <1>4, <1>6, <1>7 DEF Signals
<1>9. /\ buffer' \in [Buffers -> [0..(Cap - 1) -> Char]]
      /\ tail' \in [Buffers -> 0..(Cap - 1)]
  BY <1>1, <1>2, <1>3 DEF Store
<1>10. item' \in [Buffers -> Int]
  BY <1>1, <1>4
<1>11. itemWaiters' \in [Buffers -> Seq(Threads)]
  <2>1. \/ itemWaiters' = [itemWaiters EXCEPT ![b] = WaitersAfterSignal(item[b], itemWaiters[b])]
        \/ itemWaiters' = itemWaiters
    BY <1>4
  <2> QED
    BY <1>1, <1>5, <2>1
<1> QED
  BY <1>4, <1>8, <1>9, <1>10, <1>11

(* The second part of get signals spaceAvailable, and keeps types. *)
LEMMA TakeKind ==
  ASSUME Inv, NEW b \in Buffers, NEW place \in {"outside", "polling"}, Take(b),
         at[running] = GetPlace(b), at' = [at EXCEPT ![running] = place],
         Stays(ReadyAfterSignal(space[b], spaceWaiters[b]))
  PROVE  /\ Signals("space", b, place)
         /\ space' \in [Buffers -> Int] /\ spaceWaiters' \in [Buffers -> Seq(Threads)]
         /\ item' = item /\ itemWaiters' = itemWaiters
         /\ taken' \in [Buffers -> Char] /\ head' \in [Buffers -> 0..(Cap - 1)]
         /\ buffer' = buffer /\ tail' = tail
<1>1. /\ running \in Threads /\ space \in [Buffers -> Int]
      /\ spaceWaiters \in [Buffers -> Seq(Threads)] /\ taken \in [Buffers -> Char]
      /\ buffer \in [Buffers -> [0..(Cap - 1) -> Char]]
      /\ head \in [Buffers -> 0..(Cap - 1)] /\ head[b] \in 0..(Cap - 1)
  BY DEF Inv, TypeOK
<1>2. (head[b] + 1) % Cap \in 0..(Cap - 1)
  <2>1. head[b] + 1 \in Int /\ Cap \in Nat \ {0}
    BY <1>1, Facts
  <2> QED
    BY <2>1, ModType
<1>3. /\ Value("space", b) = space[b] /\ Waiters("space", b) = spaceWaiters[b]
      /\ space' = [space EXCEPT ![b] = @ + 1]
      /\ spaceWaiters' = [spaceWaiters EXCEPT ![b] = WaitersAfterSignal(space[b], @)]
      /\ item' = item /\ itemWaiters' = itemWaiters /\ buffer' = buffer /\ tail' = tail
      /\ "space" \in Sems
  BY DEF Take, Value, Waiters, Sems
<1>4. WaitersAfterSignal(space[b], spaceWaiters[b]) \in Seq(Threads)
  BY <1>3, SignalsQueue
<1>5. OthersKept("space", b) /\ Value("space", b)' = Value("space", b) + 1
  BY <1>1, <1>3 DEF OthersKept, Sems, Value, Waiters
<1>6. Waiters("space", b)' = WaitersAfterSignal(Value("space", b), Waiters("space", b))
  BY <1>1, <1>3 DEF Waiters
<1>7. Signals("space", b, place)
  BY <1>1, <1>3, <1>5, <1>6 DEF Signals
<1>8. taken' \in [Buffers -> Char] /\ head' \in [Buffers -> 0..(Cap - 1)]
  BY <1>1, <1>2 DEF Take
<1>9. space' \in [Buffers -> Int]
  BY <1>1, <1>3
<1>10. spaceWaiters' \in [Buffers -> Seq(Threads)]
  <2>1. \/ spaceWaiters' = [spaceWaiters EXCEPT ![b] = WaitersAfterSignal(space[b], spaceWaiters[b])]
        \/ spaceWaiters' = spaceWaiters
    BY <1>3
  <2> QED
    BY <1>1, <1>4, <2>1
<1> QED
  BY <1>3, <1>7, <1>8, <1>9, <1>10

-------------------------------------------------------------------------------
(* One thread moves, perhaps with a character. *)
LEMMA MoveRoles ==
  ASSUME Inv, NEW m \in Threads, NEW place \in Places, NEW c \in Char \cup {NoChar},
         at' = [at EXCEPT ![m] = place], ch' = [ch EXCEPT ![m] = c],
         m = Con => place \in {"polling", "transmit"},
         m = Idle => place \in {"outside", "interrupt", "polling"},
         m \in User => place # "transmit",
         place \in {"putc", "interrupt"} => c \in Char
  PROVE  /\ Roles' /\ at' \in [Threads -> Places] /\ ch' \in [Threads -> Char \cup {NoChar}]
<1>1. /\ at \in [Threads -> Places] /\ ch \in [Threads -> Char \cup {NoChar}]
      /\ User \subseteq Threads /\ Con \in Threads /\ Idle \in Threads
  BY Facts DEF Inv, TypeOK, Threads
<1>2. /\ at' \in [Threads -> Places] /\ ch' \in [Threads -> Char \cup {NoChar}]
      /\ \A t \in Threads : /\ at'[t] = IF t = m THEN place ELSE at[t]
                            /\ ch'[t] = IF t = m THEN c ELSE ch[t]
  BY <1>1
<1> QED
  BY <1>1, <1>2 DEF Inv, Roles

(* A thread that moves and carries what it carried. *)
LEMMA SameCharacters ==
  ASSUME Inv, NEW m \in Threads, ch' = ch
  PROVE  ch' = [ch EXCEPT ![m] = ch[m]] /\ ch[m] \in Char \cup {NoChar}
  BY DEF Inv, TypeOK

(* One lemma for each kind of step, and then one for each action. *)
LEMMA WaitsInv ==
  ASSUME Inv, NEW k \in Sems, NEW b \in Buffers, Waits(k, b), UNCHANGED cellVars,
         NEW c \in Char \cup {NoChar}, ch' = [ch EXCEPT ![running] = c],
         k = "space" => c \in Char,
         running = Con => k = "item" /\ b = "out",
         running \in User => k = "space" \/ b = "in",
         running = Idle => k = "space" /\ b = "in",
         space' \in [Buffers -> Int], spaceWaiters' \in [Buffers -> Seq(Threads)],
         item' \in [Buffers -> Int], itemWaiters' \in [Buffers -> Seq(Threads)],
         claimed' \in BOOLEAN
  PROVE  Inv'
<1>1. /\ running \in Threads /\ WaitPlace(k, b) \in Places
      /\ at' = [at EXCEPT ![running] = WaitPlace(k, b)]
  BY DEF Waits, WaitPlace, PutPlace, GetPlace, Places
<1>2. /\ HartPart' /\ running' \in Threads /\ ready' \in Seq(User \cup {Con})
      /\ Lists' /\ Away' /\ Placed'
  BY WaitsLists DEF Queueable
<1>3. Account'
  BY WaitsAccount DEF cellVars
<1>4. Roles' /\ at' \in [Threads -> Places] /\ ch' \in [Threads -> Char \cup {NoChar}]
  <2> DEFINE p == WaitPlace(k, b)
  <2>1. /\ running = Con => p \in {"polling", "transmit"}
        /\ running = Idle => p \in {"outside", "interrupt", "polling"}
        /\ running \in User => p # "transmit"
        /\ p \in {"putc", "interrupt"} => c \in Char
    BY DEF WaitPlace, PutPlace, GetPlace, Sems, Buffers
  <2>2. p \in Places /\ at' = [at EXCEPT ![running] = p]
    BY <1>1
  <2> HIDE DEF p
  <2> QED
    BY <1>1, <2>1, <2>2, MoveRoles
<1>5. TypeOK'
  BY <1>2, <1>4 DEF Inv, TypeOK, cellVars
<1> QED
  BY <1>2, <1>3, <1>4, <1>5 DEF Inv

(* The second part of put, of putc and of the interrupt. *)
LEMMA StoreInv ==
  ASSUME Inv, NEW b \in Buffers, NEW place \in {"outside", "polling"}, Store(b),
         at[running] = PutPlace(b), at' = [at EXCEPT ![running] = place],
         place = "outside" => running \in User, ch' = [ch EXCEPT ![running] = NoChar],
         Stays(ReadyAfterSignal(item[b], itemWaiters[b])), UNCHANGED claimed
  PROVE  Inv'
<1>1. /\ Signals("item", b, place) /\ "item" \in Sems
      /\ item' \in [Buffers -> Int] /\ itemWaiters' \in [Buffers -> Seq(Threads)]
      /\ space' = space /\ spaceWaiters' = spaceWaiters
      /\ buffer' \in [Buffers -> [0..(Cap - 1) -> Char]] /\ tail' \in [Buffers -> 0..(Cap - 1)]
      /\ head' = head /\ taken' = taken
  BY StoreKind DEF Sems
<1>2. /\ HartPart' /\ running' \in Threads /\ ready' \in Seq(User \cup {Con})
      /\ Lists' /\ Away' /\ Placed'
  BY <1>1, SignalsLists DEF Queueable
<1>3. Account'
  <2>1. tail' = [tail EXCEPT ![b] = (@ + 1) % Cap]
    BY DEF Store
  <2> QED
    BY <1>1, <2>1, StoresAccount
<1>4. Roles' /\ at' \in [Threads -> Places] /\ ch' \in [Threads -> Char \cup {NoChar}]
  <2>1. /\ running \in Threads /\ place \in Places /\ NoChar \in Char \cup {NoChar}
        /\ running = Con => place \in {"polling", "transmit"}
        /\ running = Idle => place \in {"outside", "interrupt", "polling"}
        /\ running \in User => place # "transmit"
        /\ place \notin {"putc", "interrupt"}
    BY Facts DEF Inv, TypeOK, Places
  <2>2. at' = [at EXCEPT ![running] = place] /\ ch' = [ch EXCEPT ![running] = NoChar]
    OBVIOUS
  <2> QED
    BY <2>1, <2>2, MoveRoles
<1>5. TypeOK'
  BY <1>1, <1>2, <1>4 DEF Inv, TypeOK
<1> QED
  BY <1>2, <1>3, <1>4, <1>5 DEF Inv

(* The second part of get, of getc and of the console thread. *)
LEMMA TakeInv ==
  ASSUME Inv, NEW b \in Buffers, NEW place \in {"outside", "polling"}, Take(b),
         at[running] = GetPlace(b), at' = [at EXCEPT ![running] = place],
         place = "outside" => running # Con, ch' = ch,
         Stays(ReadyAfterSignal(space[b], spaceWaiters[b])), UNCHANGED claimed
  PROVE  Inv'
<1>1. /\ Signals("space", b, place) /\ "space" \in Sems
      /\ space' \in [Buffers -> Int] /\ spaceWaiters' \in [Buffers -> Seq(Threads)]
      /\ item' = item /\ itemWaiters' = itemWaiters
      /\ taken' \in [Buffers -> Char] /\ head' \in [Buffers -> 0..(Cap - 1)]
      /\ buffer' = buffer /\ tail' = tail
  BY TakeKind DEF Sems
<1>2. /\ HartPart' /\ running' \in Threads /\ ready' \in Seq(User \cup {Con})
      /\ Lists' /\ Away' /\ Placed'
  BY <1>1, SignalsLists DEF Queueable
<1>3. Account'
  <2>1. head' = [head EXCEPT ![b] = (@ + 1) % Cap]
    BY DEF Take
  <2> QED
    BY <1>1, <2>1, TakesAccount
<1>4. Roles' /\ at' \in [Threads -> Places] /\ ch' \in [Threads -> Char \cup {NoChar}]
  <2>1. /\ running \in Threads /\ place \in Places
        /\ running = Con => place \in {"polling", "transmit"}
        /\ running = Idle => place \in {"outside", "interrupt", "polling"}
        /\ running \in User => place # "transmit"
        /\ place \notin {"putc", "interrupt"}
    BY Facts DEF Inv, TypeOK, Places
  <2>2. at' = [at EXCEPT ![running] = place]
    OBVIOUS
  <2>3. ch' = [ch EXCEPT ![running] = ch[running]] /\ ch[running] \in Char \cup {NoChar}
    BY <2>1, SameCharacters
  <2> QED
    BY <2>1, <2>2, <2>3, MoveRoles
<1>5. TypeOK'
  BY <1>1, <1>2, <1>4 DEF Inv, TypeOK
<1> QED
  BY <1>2, <1>3, <1>4, <1>5 DEF Inv

(* A step that leaves buffers and semaphores alone, when it keeps the lists. *)
LEMMA QuietInv ==
  ASSUME Inv, UNCHANGED <<ch, cellVars, semVars>>, claimed' \in BOOLEAN,
         NEW m \in Threads, NEW place \in Places, at' = [at EXCEPT ![m] = place],
         \/ {at[m], place} \subseteq {"outside", "polling", "away"} /\ m \in User
         \/ {at[m], place} \subseteq {"outside", "polling"} /\ m # Con
         \/ place = at[m],
         HartPart', running' \in Threads, ready' \in Seq(Queueable), Lists', Away', Placed'
  PROVE  Inv'
<1>1. Account'
  BY QuietAccount DEF cellVars, semVars
<1>2. Roles' /\ at' \in [Threads -> Places] /\ ch' \in [Threads -> Char \cup {NoChar}]
  <2> DEFINE c == ch[m]
  <2>1. ch' = [ch EXCEPT ![m] = c] /\ c \in Char \cup {NoChar}
    BY SameCharacters
  <2>2. /\ m = Con => place \in {"polling", "transmit"}
        /\ m = Idle => place \in {"outside", "interrupt", "polling"}
        /\ m \in User => place # "transmit"
        /\ place \in {"putc", "interrupt"} => c \in Char
    BY Facts DEF Inv, Roles, Queueable
  <2>3. m \in Threads /\ place \in Places /\ at' = [at EXCEPT ![m] = place]
    OBVIOUS
  <2> HIDE DEF c
  <2> QED
    BY <2>1, <2>2, <2>3, MoveRoles
<1>3. TypeOK'
  BY <1>2 DEF Inv, TypeOK, cellVars, semVars, Queueable
<1> QED
  BY <1>1, <1>2, <1>3 DEF Inv

(* Where the running thread is says which thread it may be. *)
LEMMA RunningPlace ==
  ASSUME Inv
  PROVE  /\ running \in Threads /\ at[running] \in Places
         /\ running \in Threads \ {Con, Idle} <=> running \in User
         /\ at[running] \in {"outside", "interrupt"} => running # Con
         /\ at[running] \in {"putc", "getc"} => running \in User
         /\ at[running] = "transmit" => running = Con
         /\ ch[running] \in Char \cup {NoChar}
<1>1. running \in Threads /\ at[running] \in Places /\ ch[running] \in Char \cup {NoChar}
  BY DEF Inv, TypeOK
<1>2. Threads = User \cup {Con, Idle} /\ Con \notin User /\ Idle \notin User
  BY Facts DEF Threads, Queueable
<1> QED
  BY <1>1, <1>2 DEF Inv, Roles

(* putc, up to its wait for space. *)
LEMMA PutcInv ==
  ASSUME Inv, NEW c \in Char, Putc(c)
  PROVE  Inv'
<1>1. /\ running \in User /\ running # Idle /\ running # Con /\ at[running] = "outside"
      /\ ch' = [ch EXCEPT ![running] = c] /\ WaitSpace("out", "putc") /\ UNCHANGED cellVars
      /\ claimed' \in BOOLEAN
  BY Facts DEF Putc, Queueable, Inv, TypeOK
<1>2. "out" \in Buffers /\ "putc" = PutPlace("out") /\ "space" \in Sems /\ c \in Char \cup {NoChar}
  BY DEF Buffers, PutPlace, Sems
<1>3. /\ Waits("space", "out")
      /\ space' \in [Buffers -> Int] /\ spaceWaiters' \in [Buffers -> Seq(Threads)]
      /\ item' = item /\ itemWaiters' = itemWaiters
  BY <1>1, <1>2, WaitSpaceKind
<1>4. item' \in [Buffers -> Int] /\ itemWaiters' \in [Buffers -> Seq(Threads)]
  BY <1>3 DEF Inv, TypeOK
<1> QED
  BY <1>1, <1>2, <1>3, <1>4, WaitsInv

(* A character that has arrived, up to the wait for space. *)
LEMMA ReceivesInv ==
  ASSUME Inv, NEW c \in Char, Receives(c), at[running] \in {"outside", "polling"},
         running # Con, UNCHANGED cellVars, claimed' \in BOOLEAN
  PROVE  Inv'
<1>1. /\ ch' = [ch EXCEPT ![running] = c] /\ WaitSpace("in", "interrupt")
      /\ running = Idle => Idle \notin ToSet(spaceWaiters["in"])
  BY DEF Receives
<1>2. "in" \in Buffers /\ "interrupt" = PutPlace("in") /\ "space" \in Sems /\ c \in Char \cup {NoChar}
  BY DEF Buffers, PutPlace, Sems
<1>3. /\ Waits("space", "in")
      /\ space' \in [Buffers -> Int] /\ spaceWaiters' \in [Buffers -> Seq(Threads)]
      /\ item' = item /\ itemWaiters' = itemWaiters
  BY <1>1, <1>2, WaitSpaceKind
<1>4. item' \in [Buffers -> Int] /\ itemWaiters' \in [Buffers -> Seq(Threads)]
  BY <1>3 DEF Inv, TypeOK
<1> QED
  BY <1>1, <1>2, <1>3, <1>4, WaitsInv

(* getc, up to its wait for a character. *)
LEMMA GetcInv ==
  ASSUME Inv, Getc
  PROVE  Inv'
<1> DEFINE c == ch[running]
<1>1. /\ running \in User /\ running # Idle /\ running # Con /\ at[running] = "outside"
      /\ WaitItem("in", "getc") /\ UNCHANGED cellVars
      /\ ch' = ch /\ claimed' \in BOOLEAN
  BY Facts DEF Getc, Queueable, Inv, TypeOK
<1>2. "in" \in Buffers /\ "getc" = GetPlace("in") /\ "item" \in Sems /\ "item" # "space"
  BY DEF Buffers, GetPlace, Sems
<1>3. /\ Waits("item", "in")
      /\ item' \in [Buffers -> Int] /\ itemWaiters' \in [Buffers -> Seq(Threads)]
      /\ space' = space /\ spaceWaiters' = spaceWaiters
  BY <1>1, <1>2, WaitItemKind
<1>4. space' \in [Buffers -> Int] /\ spaceWaiters' \in [Buffers -> Seq(Threads)]
  BY <1>3 DEF Inv, TypeOK
<1>5. c \in Char \cup {NoChar} /\ ch' = [ch EXCEPT ![running] = c]
  BY <1>1, RunningPlace, SameCharacters
<1> HIDE DEF c
<1> QED
  BY <1>1, <1>2, <1>3, <1>4, <1>5, WaitsInv

(* The console thread, up to its wait for a character. *)
LEMMA ConPollsInv ==
  ASSUME Inv, ConPolls
  PROVE  Inv'
<1> DEFINE c == ch[running]
<1>1. /\ running = Con /\ running # Idle /\ running \notin User /\ at[running] = "polling"
      /\ WaitItem("out", "transmit") /\ UNCHANGED cellVars
      /\ ch' = ch /\ claimed' \in BOOLEAN
  BY Facts DEF ConPolls, Inv, TypeOK
<1>2. "out" \in Buffers /\ "transmit" = GetPlace("out") /\ "item" \in Sems /\ "item" # "space"
  BY DEF Buffers, GetPlace, Sems
<1>3. /\ Waits("item", "out")
      /\ item' \in [Buffers -> Int] /\ itemWaiters' \in [Buffers -> Seq(Threads)]
      /\ space' = space /\ spaceWaiters' = spaceWaiters
  BY <1>1, <1>2, WaitItemKind
<1>4. space' \in [Buffers -> Int] /\ spaceWaiters' \in [Buffers -> Seq(Threads)]
  BY <1>3 DEF Inv, TypeOK
<1>5. c \in Char \cup {NoChar} /\ ch' = [ch EXCEPT ![running] = c]
  BY <1>1, RunningPlace, SameCharacters
<1> HIDE DEF c
<1> QED
  BY <1>1, <1>2, <1>3, <1>4, <1>5, WaitsInv

(* putc, behind its wait. *)
LEMMA PutcEndsInv ==
  ASSUME Inv, PutcEnds
  PROVE  Inv'
<1>1. /\ "out" \in Buffers /\ at[running] = PutPlace("out") /\ running \in User
      /\ Stays(ReadyAfterSignal(item["out"], itemWaiters["out"]))
  BY RunningPlace DEF PutcEnds, Buffers, PutPlace, Stays
<1>2. /\ Store("out") /\ at' = [at EXCEPT ![running] = "outside"]
      /\ ch' = [ch EXCEPT ![running] = NoChar] /\ UNCHANGED claimed
      /\ "outside" \in {"outside", "polling"}
  BY DEF PutcEnds
<1> QED
  BY <1>1, <1>2, StoreInv

(* The interrupt, behind its wait. *)
LEMMA InterruptStoresInv ==
  ASSUME Inv, InterruptStores
  PROVE  Inv'
<1>1. /\ "in" \in Buffers /\ at[running] = PutPlace("in")
      /\ Stays(ReadyAfterSignal(item["in"], itemWaiters["in"]))
  BY DEF InterruptStores, Buffers, PutPlace, Stays
<1>2. /\ Store("in") /\ at' = [at EXCEPT ![running] = "polling"]
      /\ ch' = [ch EXCEPT ![running] = NoChar] /\ UNCHANGED claimed
      /\ "polling" \in {"outside", "polling"} /\ "polling" # "outside"
  BY DEF InterruptStores
<1> QED
  BY <1>1, <1>2, StoreInv

(* getc, behind its wait, with its trailing dispatch. *)
LEMMA GetcEndsInv ==
  ASSUME Inv, GetcEnds
  PROVE  Inv'
<1>1. /\ "in" \in Buffers /\ at[running] = GetPlace("in") /\ running # Con
      /\ Stays(ReadyAfterSignal(space["in"], spaceWaiters["in"]))
  BY RunningPlace, Facts DEF GetcEnds, Buffers, GetPlace, Stays
<1>2. /\ Take("in") /\ at' = [at EXCEPT ![running] = "outside"] /\ ch' = ch /\ UNCHANGED claimed
      /\ "outside" \in {"outside", "polling"}
  BY DEF GetcEnds
<1> QED
  BY <1>1, <1>2, TakeInv

(* The console thread, behind its wait. *)
LEMMA ConTransmitsInv ==
  ASSUME Inv, ConTransmits
  PROVE  Inv'
<1>1. /\ "out" \in Buffers /\ at[running] = GetPlace("out")
      /\ Stays(ReadyAfterSignal(space["out"], spaceWaiters["out"]))
  BY DEF ConTransmits, Buffers, GetPlace, Stays
<1>2. /\ Take("out") /\ at' = [at EXCEPT ![running] = "polling"] /\ ch' = ch /\ UNCHANGED claimed
      /\ "polling" \in {"outside", "polling"} /\ "polling" # "outside"
  BY DEF ConTransmits
<1> QED
  BY <1>1, <1>2, TakeInv

(* The interrupt's loop: another character, or its end. *)
LEMMA InterruptPollsInv ==
  ASSUME Inv, InterruptPolls
  PROVE  Inv'
<1>1. CASE (\E c \in Char : Receives(c)) /\ UNCHANGED <<cellVars, claimed>>
  <2>1. /\ running # Con /\ at[running] \in {"outside", "polling"} /\ UNCHANGED cellVars
        /\ claimed' \in BOOLEAN
    BY <1>1 DEF InterruptPolls, Inv, TypeOK
  <2> QED
    BY <1>1, <2>1, ReceivesInv
<1>2. CASE /\ claimed' = FALSE
           /\ at' = [at EXCEPT ![running] = "outside"]
           /\ UNCHANGED <<running, ready, ch, cellVars, semVars>>
  <2>1. /\ running \in Threads /\ running # Con /\ at[running] = "polling" /\ "outside" \in Places
        /\ Stays(ready) /\ UNCHANGED semVars /\ at' = [at EXCEPT ![running] = "outside"]
    BY <1>2 DEF InterruptPolls, Inv, TypeOK, Places, Stays
  <2>2. /\ HartPart' /\ running' \in Threads /\ ready' \in Seq(Queueable)
      /\ Lists' /\ Away' /\ Placed'
    BY <2>1, QuietStays
  <2>3. UNCHANGED <<ch, cellVars, semVars>> /\ claimed' \in BOOLEAN
    BY <1>2
  <2>4. {at[running], "outside"} \subseteq {"outside", "polling"}
    BY <2>1
  <2> QED
    BY <2>1, <2>2, <2>3, <2>4, QuietInv
<1> QED
  BY <1>1, <1>2 DEF InterruptPolls

(* The end of a time slice. *)
LEMMA PreemptInv ==
  ASSUME Inv, Preempt
  PROVE  Inv'
<1> DEFINE p == at[running]
<1>1. /\ running \in Threads /\ p = "outside" /\ p \in Places
      /\ Stays(ready) /\ UNCHANGED <<ch, cellVars, semVars>> /\ claimed' \in BOOLEAN
      /\ at' = [at EXCEPT ![running] = p]
  BY RunningPlace DEF Preempt, Inv, TypeOK, Stays
<1> HIDE DEF p
<1>2. p = at[running] /\ UNCHANGED semVars /\ p # "away" /\ at[running] # "away"
  BY <1>1 DEF p
<1>3. /\ HartPart' /\ running' \in Threads /\ ready' \in Seq(Queueable)
      /\ Lists' /\ Away' /\ Placed'
  BY <1>1, <1>2, QuietStays
<1> QED
  BY <1>1, <1>2, <1>3, QuietInv

(* A thread goes to sleep. *)
LEMMA LeaveInv ==
  ASSUME Inv, Leave
  PROVE  Inv'
<1>1. /\ running \in Threads /\ running \in User /\ at[running] = "outside" /\ "away" \in Places
      /\ at' = [at EXCEPT ![running] = "away"]
      /\ UNCHANGED <<ch, cellVars, semVars>> /\ claimed' \in BOOLEAN
      /\ {at[running], "away"} \subseteq {"outside", "polling", "away"}
  BY DEF Leave, Inv, TypeOK, Places
<1>2. /\ HartPart' /\ running' \in Threads /\ ready' \in Seq(Queueable)
      /\ Lists' /\ Away' /\ Placed'
  BY LeaveLists
<1> QED
  BY <1>1, <1>2, QuietInv

(* A thread comes back. *)
LEMMA WakeInv ==
  ASSUME Inv, NEW t \in User, Wake(t)
  PROVE  Inv'
<1>1. /\ t \in Threads /\ at[t] = "away" /\ "outside" \in Places
      /\ at' = [at EXCEPT ![t] = "outside"]
      /\ UNCHANGED <<ch, cellVars, semVars>> /\ claimed' \in BOOLEAN
      /\ {at[t], "outside"} \subseteq {"outside", "polling", "away"}
  BY DEF Wake, Inv, TypeOK, Places, Threads
<1>2. /\ HartPart' /\ running' \in Threads /\ ready' \in Seq(Queueable)
      /\ Lists' /\ Away' /\ Placed'
  BY WakeLists
<1> QED
  BY <1>1, <1>2, QuietInv

-------------------------------------------------------------------------------
(* A sequence of all elements of a set, each once. *)
LEMMA AllOnce ==
  ASSUME NEW S, IsFiniteSet(S), S # {}, NEW q \in SetToSeqs(S)
  PROVE  q \in Seq(S) /\ IsInjective(q) /\ ToSet(q) = S /\ q # <<>>
<1> DEFINE n == Cardinality(S)
<1>1. n \in Nat /\ n # 0
  BY FS_CardinalityType, FS_EmptySet
<1>2. q \in [1..n -> S] /\ \A i, j \in 1..n : i # j => q[i] # q[j]
  BY DEF SetToSeqs
<1> HIDE DEF n
<1>3. q \in Seq(S) /\ Len(q) = n /\ DOMAIN q = 1..n
  <2>1. q \in Seq(S)
    BY <1>1, <1>2, SeqDef
  <2>2. DOMAIN q = 1..n /\ DOMAIN q = 1..Len(q) /\ Len(q) \in Nat
    BY <1>2, <2>1, LenProperties
  <2> QED
    BY <1>1, <2>1, <2>2
<1>4. IsInjective(q)
  BY <1>2, <1>3 DEF IsInjective
<1>5. q \in Injection(1..n, S)
  BY <1>2, <1>3, <1>4 DEF Injection, IsInjective
<1>6. Cardinality(1..n) = n
  BY <1>1, FS_Interval
<1>7. q \in Surjection(1..n, S)
  BY <1>5, <1>6, FS_Injection DEF n
<1>8. ToSet(q) = S
  BY <1>2, <1>3, <1>7 DEF Surjection, ToSet
<1> QED
  BY <1>1, <1>3, <1>4, <1>8

(* At first only the console thread is in the console, waiting for a        *)
(* character; the others are on the hart or ready.                          *)
LEMMA InitInv ==
  ASSUME Init
  PROVE  Inv
<1>1. PICK q \in SetToSeqs(User) : running = Head(q) /\ ready = Tail(q)
  BY DEF Init
<1>2. /\ q \in Seq(User) /\ IsInjective(q) /\ ToSet(q) = User /\ q # <<>>
  <2>1. IsFiniteSet(User) /\ User # {}
    BY ConsoleAssumption DEF ConsoleAssumption
  <2> QED
    BY <2>1, AllOnce
<1>3. /\ running \in User /\ ready \in Seq(User) /\ User = {running} \cup ToSet(ready)
      /\ IsInjective(ready) /\ running \notin ToSet(ready)
  BY <1>1, <1>2, HeadList
<1>4. ready \in Seq(Queueable)
  <2>1. User \subseteq Queueable
    BY DEF Queueable
  <2> QED
    BY <1>3, <2>1, SeqMonotonic
<1>5. /\ running \in Threads /\ HartPart /\ Runnable = User
  BY <1>3, Facts DEF HartPart, Runnable, Threads, Queueable
<1>6. /\ at = [t \in Threads |-> IF t = Con THEN "transmit" ELSE "outside"]
      /\ head = [b \in Buffers |-> 0] /\ tail = [b \in Buffers |-> 0]
      /\ space = [b \in Buffers |-> Cap]
      /\ item = [b \in Buffers |-> IF b = "out" THEN -1 ELSE 0]
      /\ spaceWaiters = [b \in Buffers |-> <<>>]
      /\ itemWaiters = [b \in Buffers |-> IF b = "out" THEN <<Con>> ELSE <<>>]
  BY DEF Init
<1>7. <<Con>> \in Seq(Threads) /\ <<>> \in Seq(Threads) /\ 0 \in 0..(Cap - 1)
  BY Facts
<1>8. TypeOK
  <2>1. /\ at \in [Threads -> Places] /\ ch \in [Threads -> Char \cup {NoChar}]
        /\ claimed \in BOOLEAN
    BY DEF Init, Places
  <2>2. /\ taken \in [Buffers -> Char] /\ buffer \in [Buffers -> [0..(Cap - 1) -> Char]]
    BY DEF Init
  <2>3. /\ head \in [Buffers -> 0..(Cap - 1)] /\ tail \in [Buffers -> 0..(Cap - 1)]
        /\ space \in [Buffers -> Int] /\ item \in [Buffers -> Int]
    BY <1>6, <1>7, Facts
  <2>4. /\ spaceWaiters \in [Buffers -> Seq(Threads)]
        /\ itemWaiters \in [Buffers -> Seq(Threads)]
    BY <1>6, <1>7
  <2> QED
    BY <1>4, <1>5, <2>1, <2>2, <2>3, <2>4 DEF TypeOK, Queueable
<1>9. Roles
  BY <1>6, Facts DEF Roles, Threads
<1>10. Account
  <2> SUFFICES ASSUME NEW b \in Buffers
               PROVE  AccountOf(b)
    BY DEF Account
  <2>1. {t \in Threads : at[t] = PutPlace(b)} = {}
    BY <1>6 DEF PutPlace
  <2>2. {t \in Threads : at[t] = GetPlace(b)} = IF b = "out" THEN {Con} ELSE {}
    BY <1>6, Facts DEF GetPlace, Buffers
  <2>3. CountIn(Threads, at, PutPlace(b)) = 0
    BY <2>1, FS_EmptySet DEF CountIn
  <2>4. CountIn(Threads, at, GetPlace(b)) = IF b = "out" THEN 1 ELSE 0
    BY <2>2, FS_EmptySet, FS_Singleton DEF CountIn
  <2>5. /\ Value("space", b) = Cap /\ Value("item", b) = (IF b = "out" THEN -1 ELSE 0)
        /\ head[b] = 0 /\ tail[b] = 0
    BY <1>6 DEF Value
  <2>6. 0 % Cap = 0
    BY <1>7, Facts, ModSmall
  <2> QED
    BY <2>3, <2>4, <2>5, <2>6, Facts DEF AccountOf
<1>11. Lists
  <2> SUFFICES ASSUME NEW k \in Sems, NEW b \in Buffers
               PROVE  ListOf(k, b)
    BY DEF Lists
  <2>1. CASE k = "item" /\ b = "out"
    <3>1. Waiters(k, b) = <<Con>> /\ Value(k, b) = -1
      BY <1>6, <2>1 DEF Waiters, Value, Buffers
    <3>2. ToSet(<<Con>>) = {Con} /\ IsInjective(<<Con>>) /\ Len(<<Con>>) = 1
      BY DEF ToSet, IsInjective
    <3>3. Con # Idle /\ Con \notin Runnable /\ at[Con] = WaitPlace(k, b)
      BY <1>5, <1>6, <2>1, Facts DEF WaitPlace, GetPlace
    <3>4. Len(Waiters(k, b)) = IF Value(k, b) < 0 THEN -Value(k, b) ELSE 0
      <4>1. \A v \in Int, n \in Nat : v + 1 = 0 /\ n = 1 => n = IF v < 0 THEN -v ELSE 0
        OBVIOUS
      <4>2. Len(Waiters(k, b)) = 1 /\ Value(k, b) \in Int /\ Value(k, b) + 1 = 0 /\ 1 \in Nat
        BY <3>1, <3>2
      <4> QED
        BY <4>1, <4>2
    <3>5. \A t \in ToSet(Waiters(k, b)) : t # Idle /\ at[t] = WaitPlace(k, b) /\ t \notin Runnable
      BY <3>1, <3>2, <3>3
    <3> QED
      BY <3>1, <3>2, <3>4, <3>5 DEF ListOf
  <2>2. CASE ~(k = "item" /\ b = "out")
    <3>1. Waiters(k, b) = <<>> /\ Value(k, b) \in Nat /\ Len(<<>>) = 0
      BY <1>6, <2>2, Facts DEF Waiters, Value, Sems
    <3> QED
      BY <3>1, EmptyList DEF ListOf
  <2> QED
    BY <2>1, <2>2
<1>12. Away
  BY <1>6 DEF Away
<1>13. Placed
  <2>1. Con \in ToSet(Waiters("item", "out")) /\ "item" \in Sems /\ "out" \in Buffers
    BY <1>6 DEF Waiters, Buffers, Sems, ToSet
  <2> QED
    BY <1>5, <2>1 DEF Placed, Queueable
<1> QED
  BY <1>5, <1>8, <1>9, <1>10, <1>11, <1>12, <1>13 DEF Inv

(* The invariant, for all threads and capacities, whatever arrives. *)
THEOREM ConsoleInductive == Spec => []Inv
<1>1. Init => Inv
  BY InitInv
<1>2. Inv /\ [Next]_vars => Inv'
  <2> SUFFICES ASSUME Inv, [Next]_vars
               PROVE  Inv'
    OBVIOUS
  <2>1. ASSUME NEW c \in Char, Putc(c) PROVE Inv'
    BY <2>1, PutcInv
  <2>2. ASSUME NEW c \in Char, ConsoleInterrupt(c) PROVE Inv'
    <3>1. at[running] = "outside" /\ Receives(c) /\ UNCHANGED cellVars /\ claimed' \in BOOLEAN
      BY <2>2 DEF ConsoleInterrupt
    <3>2. running # Con /\ at[running] \in {"outside", "polling"}
      BY <3>1, RunningPlace
    <3> QED
      BY <3>1, <3>2, ReceivesInv
  <2>3. ASSUME NEW t \in User, Wake(t) PROVE Inv'
    BY <2>3, WakeInv
  <2>4. CASE UNCHANGED vars
    BY <2>4 DEF vars, hartVars, cellVars, semVars, Inv, TypeOK, Roles, Account, AccountOf,
                HartPart, Lists, ListOf, Away, Placed, Runnable, Value, Waiters
  <2> QED
    BY <2>1, <2>2, <2>3, <2>4, PutcEndsInv, GetcInv, GetcEndsInv, InterruptStoresInv,
       InterruptPollsInv, ConPollsInv, ConTransmitsInv, PreemptInv, LeaveInv DEF Next
<1> QED
  BY <1>1, <1>2, PTL DEF Spec

(* Every variable keeps its type; no index leaves its buffer. *)
THEOREM ConsoleTypeCorrect == Spec => []TypeOK
  BY ConsoleInductive, PTL DEF Inv

(* The two semaphores of a buffer and its indices always agree, whoever is  *)
(* suspended inside put or get and however full or empty the buffer is.     *)
THEOREM SemaphoresAgree == Spec => []Accounting
<1>1. Inv => Accounting
  <2> SUFFICES ASSUME Inv, NEW b \in Buffers
               PROVE  /\ space[b] + item[b] + Cardinality(Putting(b)) + Cardinality(Getting(b)) = Cap
                      /\ (head[b] + item[b] + Cardinality(Getting(b))) % Cap = tail[b]
    BY DEF Accounting
  <2>1. /\ Cardinality(Putting(b)) = CountIn(Threads, at, PutPlace(b))
        /\ Cardinality(Getting(b)) = CountIn(Threads, at, GetPlace(b))
    BY DEF Putting, Getting, CountIn, PutPlace, GetPlace
  <2>2. AccountOf(b) /\ Value("space", b) = space[b] /\ Value("item", b) = item[b]
    BY DEF Inv, Account, Value
  <2> QED
    BY <2>1, <2>2 DEF AccountOf
<1> QED
  BY <1>1, ConsoleInductive, PTL

(* No thread is lost in the console, and none waits without the value of    *)
(* its semaphore showing it.                                                *)
THEOREM NobodyLost == Spec => []Found
<1>1. Inv => Found
  <2> SUFFICES ASSUME Inv
               PROVE  Found
    OBVIOUS
  <2> DEFINE lists == {spaceWaiters[b] : b \in Buffers} \cup {itemWaiters[b] : b \in Buffers}
  <2>1. ASSUME NEW t \in User \cup {Con}
        PROVE  \/ t = running
               \/ t \in ToSet(ready)
               \/ at[t] = "away"
               \/ \E l \in lists : t \in ToSet(l)
    <3>1. ASSUME NEW k \in Sems, NEW b \in Buffers
          PROVE  Waiters(k, b) \in lists
      BY <3>1 DEF Waiters
    <3> HIDE DEF lists
    <3> QED
      BY <2>1, <3>1 DEF Inv, Placed, Runnable, Queueable
  <2>2. ASSUME NEW b \in Buffers
        PROVE  /\ Len(spaceWaiters[b]) = IF space[b] < 0 THEN -space[b] ELSE 0
               /\ Len(itemWaiters[b]) = IF item[b] < 0 THEN -item[b] ELSE 0
    <3>1. ListOf("space", b) /\ ListOf("item", b)
      BY DEF Inv, Lists, Sems
    <3> QED
      BY <3>1 DEF ListOf, Value, Waiters
  <2> QED
    BY <2>1, <2>2 DEF Found
<1> QED
  BY <1>1, ConsoleInductive, PTL

-------------------------------------------------------------------------------
(* The refinement: what each step does to the contents of a buffer. *)
Stored(b) == Value("item", b) + CountIn(Threads, at, GetPlace(b))

Sends(b) ==
  \E c \in Char : /\ Len(Contents(b)) < Cap
                  /\ Contents(b)' = Append(Contents(b), c)
                  /\ UNCHANGED taken[b]

Reads(b) ==
  /\ Contents(b) # <<>>
  /\ taken[b]' = Head(Contents(b))
  /\ Contents(b)' = Tail(Contents(b))

Keeps(b) == UNCHANGED <<Contents(b), taken[b]>>

(* The contents are the stored cells from head on, before and after a step. *)
LEMMA ContentsRing ==
  ASSUME NEW b \in Buffers
  PROVE  /\ Contents(b) = Ring(Cap, buffer[b], head[b], Stored(b))
         /\ Contents(b)' = Ring(Cap, buffer'[b], head'[b], Stored(b)')
<1>1. /\ Cardinality(Getting(b)) = CountIn(Threads, at, GetPlace(b))
      /\ Cardinality(Getting(b))' = CountIn(Threads, at', GetPlace(b))
  BY DEF Getting, CountIn, GetPlace
<1>2. Value("item", b) = item[b] /\ Value("item", b)' = item'[b]
  BY DEF Value
<1>3. Contents(b) = Ring(Cap, buffer[b], head[b], Stored(b))
  BY <1>1, <1>2 DEF Contents, Ring, Stored
<1>4. Contents(b)' = Ring(Cap, buffer'[b], head'[b], Stored(b)')
  BY <1>1, <1>2 DEF Contents, Ring, Stored
<1> QED
  BY <1>3, <1>4

(* Whoever is linked into a list is where the list's threads are, so as     *)
(* many threads are there as the value says, and the running one besides.   *)
LEMMA Promised ==
  ASSUME Inv, NEW k \in Sems, NEW b \in Buffers, Idle \notin ToSet(Waiters(k, b))
  PROVE  LET n == CountIn(Threads, at, WaitPlace(k, b))
         IN  /\ n \in Nat /\ Value(k, b) \in Int
             /\ Value(k, b) + n >= 0
             /\ at[running] = WaitPlace(k, b) => Value(k, b) + n >= 1
<1> DEFINE l == Waiters(k, b)
           v == Value(k, b)
           F == {t \in Threads : at[t] = WaitPlace(k, b)}
           G == F \ {running}
<1>1. /\ v \in Int /\ l \in Seq(Threads) /\ IsInjective(l) /\ running \in Threads
      /\ Len(l) = (IF v < 0 THEN -v ELSE 0)
  BY DEF Inv, TypeOK, Lists, ListOf, Value, Waiters
<1>2. IsFiniteSet(F) /\ Cardinality(F) \in Nat /\ CountIn(Threads, at, WaitPlace(k, b)) = Cardinality(F)
  <2>1. IsFiniteSet(Threads)
    BY Facts
  <2>2. IsFiniteSet(F) /\ CountIn(Threads, at, WaitPlace(k, b)) \in Nat
    BY <2>1, CountType
  <2> QED
    BY <2>2 DEF CountIn
<1>3. ToSet(l) \subseteq G
  <2>1. ToSet(l) \subseteq Threads
    BY <1>1, ListElements
  <2> QED
    BY <2>1 DEF Inv, Lists, ListOf, Runnable
<1>4. IsFiniteSet(G) /\ Cardinality(G) \in Nat
      /\ Cardinality(G) = IF at[running] = WaitPlace(k, b) THEN Cardinality(F) - 1 ELSE Cardinality(F)
  <2>1. running \in F <=> at[running] = WaitPlace(k, b)
    BY <1>1
  <2> HIDE DEF F
  <2> QED
    BY <1>2, <2>1, FS_RemoveElement, FS_CardinalityType
<1> HIDE DEF G, F, l, v
<1>5. Len(l) <= Cardinality(G)
  <2>1. Len(l) \in Nat /\ DOMAIN l = 1..Len(l) /\ l \in [1..Len(l) -> Threads]
    BY <1>1, LenProperties
  <2>2. \A i \in 1..Len(l) : l[i] \in G
    BY <1>3, <2>1 DEF ToSet
  <2>3. l \in Injection(1..Len(l), G)
    BY <1>1, <2>1, <2>2 DEF Injection, IsInjective
  <2>4. Cardinality(1..Len(l)) <= Cardinality(G)
    BY <1>4, <2>3, FS_Injection
  <2>5. Cardinality(1..Len(l)) = Len(l)
    BY <2>1, FS_Interval
  <2> QED
    BY <2>4, <2>5
<1>6. /\ v + Cardinality(F) >= 0
      /\ at[running] = WaitPlace(k, b) => v + Cardinality(F) >= 1
  BY <1>1, <1>2, <1>4, <1>5
<1> QED
  BY <1>1, <1>2, <1>6 DEF v

(* How much is stored: never less than nothing, and what a put or a get finds. *)
LEMMA StoredType ==
  ASSUME Inv, NEW b \in Buffers
  PROVE  /\ Stored(b) \in Nat
         /\ (head[b] + Stored(b)) % Cap = tail[b]
         /\ at[running] = GetPlace(b) => Stored(b) >= 1
         /\ at[running] = PutPlace(b) /\ Idle \notin ToSet(Waiters("space", b)) => Stored(b) < Cap
<1> DEFINE P == CountIn(Threads, at, PutPlace(b))
           G == CountIn(Threads, at, GetPlace(b))
           S == Value("space", b)
           I == Value("item", b)
<1>1. "space" \in Sems /\ "item" \in Sems /\ "item" # "space"
  BY DEF Sems
<1>2. Idle \notin ToSet(Waiters("item", b))
  BY <1>1 DEF Inv, Lists, ListOf
<1>3. G \in Nat /\ I \in Int /\ I + G >= 0 /\ (at[running] = GetPlace(b) => I + G >= 1)
  <2>1. GetPlace(b) = WaitPlace("item", b)
    BY <1>1 DEF WaitPlace
  <2> QED
    BY <1>1, <1>2, <2>1, Promised
<1>4. ASSUME at[running] = PutPlace(b), Idle \notin ToSet(Waiters("space", b))
      PROVE  P \in Nat /\ S \in Int /\ S + P >= 1
  <2>1. PutPlace(b) = WaitPlace("space", b)
    BY <1>1 DEF WaitPlace
  <2> QED
    BY <1>1, <1>4, <2>1, Promised
<1>5. S + I + P + G = Cap /\ (head[b] + I + G) % Cap = tail[b] /\ head[b] \in Nat
  BY DEF Inv, Account, AccountOf, TypeOK
<1>6. Stored(b) = I + G
  BY DEF Stored
<1> HIDE DEF P, G, S, I
<1>7. I + G \in Nat /\ head[b] + (I + G) = head[b] + I + G
  BY <1>3, <1>5
<1>8. ASSUME at[running] = PutPlace(b), Idle \notin ToSet(Waiters("space", b))
      PROVE  I + G < Cap
  BY <1>3, <1>4, <1>5, <1>8, Facts
<1> QED
  BY <1>3, <1>5, <1>6, <1>7, <1>8

(* How many threads are about to get, after one has moved. *)
LEMMA GettingMove ==
  ASSUME Inv, NEW b \in Buffers, NEW m \in Threads, NEW place \in Places,
         at' = [at EXCEPT ![m] = place]
  PROVE  /\ CountIn(Threads, at, GetPlace(b)) \in Nat
         /\ CountIn(Threads, at', GetPlace(b)) = CountIn(Threads, at, GetPlace(b))
               - (IF at[m] = GetPlace(b) THEN 1 ELSE 0) + (IF place = GetPlace(b) THEN 1 ELSE 0)
<1>1. m \in Threads /\ place \in Places /\ at' = [at EXCEPT ![m] = place]
  OBVIOUS
<1>2. CountIn(Threads, at, GetPlace(b)) \in Nat
  BY CountType, Facts
<1>3. CountIn(Threads, at', GetPlace(b)) = CountIn(Threads, at, GetPlace(b))
         - (IF at[m] = GetPlace(b) THEN 1 ELSE 0) + (IF place = GetPlace(b) THEN 1 ELSE 0)
  BY <1>1, CountsMove
<1> QED
  BY <1>2, <1>3

(* A thread that moves and changes itemAvailable the other way. *)
LEMMA KeepsContents ==
  ASSUME Inv, NEW b \in Buffers, NEW m \in Threads, NEW place \in Places,
         at' = [at EXCEPT ![m] = place],
         buffer'[b] = buffer[b], head'[b] = head[b], taken'[b] = taken[b],
         Value("item", b)' = Value("item", b)
            + (IF at[m] = GetPlace(b) THEN 1 ELSE 0) - (IF place = GetPlace(b) THEN 1 ELSE 0)
  PROVE  Keeps(b)
<1> DEFINE G == CountIn(Threads, at, GetPlace(b))
           I == Value("item", b)
<1>1. /\ G \in Nat
      /\ G' = G - (IF at[m] = GetPlace(b) THEN 1 ELSE 0) + (IF place = GetPlace(b) THEN 1 ELSE 0)
  BY GettingMove
<1>2. I \in Int /\ I' = I + (IF at[m] = GetPlace(b) THEN 1 ELSE 0)
                          - (IF place = GetPlace(b) THEN 1 ELSE 0)
  BY DEF Inv, TypeOK, Value
<1>3. Stored(b) = I + G /\ Stored(b)' = I' + G'
  BY DEF Stored
<1> HIDE DEF G, I
<1>4. Stored(b)' = Stored(b)
  BY <1>1, <1>2, <1>3
<1>5. Contents(b)' = Contents(b)
  BY <1>4, ContentsRing
<1> QED
  BY <1>5 DEF Keeps

(* The second part of put sends on its channel and leaves the other alone. *)
LEMMA StoreSends ==
  ASSUME Inv, NEW b \in Buffers, NEW place \in {"outside", "polling"}, Store(b),
         at[running] = PutPlace(b), at' = [at EXCEPT ![running] = place]
  PROVE  /\ Idle \notin ToSet(Waiters("space", b)) => Sends(b)
         /\ \A c \in Buffers \ {b} : Keeps(c)
<1>1. /\ running \in Threads /\ place \in Places /\ ch[running] \in Char
      /\ place # GetPlace(b) /\ at[running] # GetPlace(b)
      /\ at' = [at EXCEPT ![running] = place]
  BY DEF Inv, TypeOK, Roles, Places, PutPlace, GetPlace
<1>2. /\ head' = head /\ taken' = taken
      /\ buffer' = [buffer EXCEPT ![b][tail[b]] = ch[running]]
      /\ item' = [item EXCEPT ![b] = @ + 1]
  BY DEF Store
<1>3. ASSUME Idle \notin ToSet(Waiters("space", b))
      PROVE  Sends(b)
  <2> DEFINE f == buffer[b]
             g == buffer'[b]
             h == head[b]
             n == Stored(b)
             c == ch[running]
  <2>1. /\ n \in Nat /\ n < Cap /\ tail[b] = (h + n) % Cap
    BY <1>3, StoredType
  <2>2. /\ f \in [0..(Cap - 1) -> Char] /\ h \in Int /\ h \in 0..(Cap - 1)
        /\ Cap \in Nat \ {0} /\ c \in Char
    BY <1>1, Facts DEF Inv, TypeOK
  <2>3. g = [f EXCEPT ![(h + n) % Cap] = c]
    BY <1>2, <2>1 DEF Inv, TypeOK
  <2>4. Stored(b)' = n + 1
    <3> DEFINE G == CountIn(Threads, at, GetPlace(b))
               I == Value("item", b)
    <3>1. /\ G \in Nat
          /\ G' = G - (IF at[running] = GetPlace(b) THEN 1 ELSE 0)
                    + (IF place = GetPlace(b) THEN 1 ELSE 0)
      BY <1>1, CountsMove
    <3>2. I \in Int /\ I' = I + 1
      BY <1>2 DEF Inv, TypeOK, Value
    <3>3. n = I + G /\ Stored(b)' = I' + G'
      BY DEF Stored
    <3> HIDE DEF G, I, n
    <3> QED
      BY <1>1, <3>1, <3>2, <3>3
  <2>5. Contents(b) = Ring(Cap, f, h, n) /\ Contents(b)' = Ring(Cap, g, h, n + 1)
    BY <1>2, <2>4, ContentsRing
  <2> HIDE DEF f, g, h, n, c
  <2>6. Ring(Cap, g, h, n + 1) = Append(Ring(Cap, f, h, n), c)
    <3>1. /\ Cap \in Nat \ {0} /\ f \in Cells(Cap, Char) /\ h \in Int
          /\ n \in 0..(Cap - 1) /\ c \in Char
      BY <2>1, <2>2 DEF Cells
    <3>2. StoreAppends(Cap, f, h, n, c)
      BY <3>1, RingStore, Zenon
    <3> QED
      BY <2>3, <3>2 DEF StoreAppends, StoredBehind
  <2>7. Len(Ring(Cap, f, h, n)) = n
    BY <2>1, <2>2, RingLen, Zenon DEF Cells
  <2>8. UNCHANGED taken[b]
    BY <1>2
  <2> QED
    BY <2>1, <2>2, <2>5, <2>6, <2>7, <2>8 DEF Sends
<1>4. ASSUME NEW c \in Buffers \ {b}
      PROVE  Keeps(c)
  <2>1. /\ buffer'[c] = buffer[c] /\ head'[c] = head[c] /\ taken'[c] = taken[c]
        /\ Value("item", c)' = Value("item", c) /\ Value("item", c) \in Int
    BY <1>2 DEF Inv, TypeOK, Value
  <2>2. place # GetPlace(c) /\ at[running] # GetPlace(c)
    BY DEF GetPlace, PutPlace
  <2>3. Value("item", c)' = Value("item", c)
           + (IF at[running] = GetPlace(c) THEN 1 ELSE 0) - (IF place = GetPlace(c) THEN 1 ELSE 0)
    BY <2>1, <2>2
  <2> QED
    BY <1>1, <2>1, <2>3, KeepsContents
<1> QED
  BY <1>3, <1>4

(* The second part of get receives on its channel and leaves the other alone. *)
LEMMA TakeReads ==
  ASSUME Inv, NEW b \in Buffers, NEW place \in {"outside", "polling"}, Take(b),
         at[running] = GetPlace(b), at' = [at EXCEPT ![running] = place]
  PROVE  /\ Reads(b)
         /\ \A c \in Buffers \ {b} : Keeps(c)
<1>1. /\ running \in Threads /\ place \in Places /\ place # GetPlace(b)
      /\ at' = [at EXCEPT ![running] = place]
  BY DEF Inv, TypeOK, Places, GetPlace
<1>2. /\ buffer' = buffer /\ item' = item
      /\ taken' = [taken EXCEPT ![b] = buffer[b][head[b]]]
      /\ head' = [head EXCEPT ![b] = (@ + 1) % Cap]
  BY DEF Take
<1>3. Reads(b)
  <2> DEFINE f == buffer[b]
             h == head[b]
             n == Stored(b)
  <2>1. n \in Nat \ {0}
    BY StoredType
  <2>2. f \in [0..(Cap - 1) -> Char] /\ h \in 0..(Cap - 1) /\ Cap \in Nat \ {0}
    BY Facts DEF Inv, TypeOK
  <2>3. taken'[b] = f[h] /\ buffer'[b] = f /\ head'[b] = (h + 1) % Cap
    BY <1>2 DEF Inv, TypeOK
  <2>4. Stored(b)' = n - 1
    <3> DEFINE G == CountIn(Threads, at, GetPlace(b))
               I == Value("item", b)
    <3>1. /\ G \in Nat
          /\ G' = G - (IF at[running] = GetPlace(b) THEN 1 ELSE 0)
                    + (IF place = GetPlace(b) THEN 1 ELSE 0)
      BY <1>1, CountsMove
    <3>2. I \in Int /\ I' = I
      BY <1>2 DEF Inv, TypeOK, Value
    <3>3. n = I + G /\ Stored(b)' = I' + G'
      BY DEF Stored
    <3> HIDE DEF G, I, n
    <3> QED
      BY <1>1, <3>1, <3>2, <3>3
  <2>5. Contents(b) = Ring(Cap, f, h, n) /\ Contents(b)' = Ring(Cap, f, (h + 1) % Cap, n - 1)
    BY <2>3, <2>4, ContentsRing
  <2> HIDE DEF f, h, n
  <2>6. /\ Ring(Cap, f, h, n) # <<>> /\ Head(Ring(Cap, f, h, n)) = f[h]
        /\ Ring(Cap, f, (h + 1) % Cap, n - 1) = Tail(Ring(Cap, f, h, n))
    <3>1. Cap \in Nat \ {0} /\ f \in Cells(Cap, Char) /\ h \in 0..(Cap - 1) /\ n \in Nat \ {0}
      BY <2>1, <2>2 DEF Cells
    <3> QED
      BY <3>1, RingTake, Zenon
  <2> QED
    BY <2>3, <2>5, <2>6 DEF Reads
<1>4. ASSUME NEW c \in Buffers \ {b}
      PROVE  Keeps(c)
  <2>1. /\ buffer'[c] = buffer[c] /\ head'[c] = head[c] /\ taken'[c] = taken[c]
        /\ Value("item", c)' = Value("item", c) /\ Value("item", c) \in Int
    BY <1>2 DEF Inv, TypeOK, Value
  <2>2. place # GetPlace(c) /\ at[running] # GetPlace(c)
    BY DEF GetPlace, Buffers
  <2>3. Value("item", c)' = Value("item", c)
           + (IF at[running] = GetPlace(c) THEN 1 ELSE 0) - (IF place = GetPlace(c) THEN 1 ELSE 0)
    BY <2>1, <2>2
  <2> QED
    BY <1>1, <2>1, <2>3, KeepsContents
<1> QED
  BY <1>3, <1>4

(* A step without put or get keeps what is under way. *)
LEMMA QuietKeeps ==
  ASSUME Inv, NEW b \in Buffers, NEW m \in Threads, NEW place \in Places,
         at' = [at EXCEPT ![m] = place], UNCHANGED cellVars, item' = item,
         at[m] \notin {"getc", "transmit"}, place \notin {"getc", "transmit"}
  PROVE  Keeps(b)
<1>1. /\ buffer'[b] = buffer[b] /\ head'[b] = head[b] /\ taken'[b] = taken[b]
      /\ Value("item", b)' = Value("item", b) /\ Value("item", b) \in Int
  BY DEF cellVars, Inv, TypeOK, Value
<1>2. at[m] # GetPlace(b) /\ place # GetPlace(b)
  BY DEF GetPlace
<1>3. Value("item", b)' = Value("item", b)
         + (IF at[m] = GetPlace(b) THEN 1 ELSE 0) - (IF place = GetPlace(b) THEN 1 ELSE 0)
  BY <1>1, <1>2
<1>4. at' = [at EXCEPT ![m] = place]
  OBVIOUS
<1> QED
  BY <1>1, <1>3, <1>4, KeepsContents

(* A character is promised to a thread that waits for one: it stays. *)
LEMMA WaitItemKeeps ==
  ASSUME Inv, NEW d \in Buffers, WaitItem(d, GetPlace(d)), UNCHANGED cellVars,
         at[running] \in {"outside", "polling"}, NEW b \in Buffers
  PROVE  Keeps(b)
<1> DEFINE place == GetPlace(d)
<1>1. /\ running \in Threads /\ place \in Places /\ at' = [at EXCEPT ![running] = place]
      /\ item' = [item EXCEPT ![d] = @ - 1]
  BY DEF Inv, TypeOK, Places, GetPlace, WaitItem
<1>2. buffer'[b] = buffer[b] /\ head'[b] = head[b] /\ taken'[b] = taken[b]
  BY DEF cellVars
<1>3. at[running] # GetPlace(b) /\ (place = GetPlace(b) <=> b = d)
  BY DEF GetPlace, Buffers
<1> HIDE DEF place
<1>4. /\ Value("item", b) \in Int
      /\ Value("item", b)' = IF b = d THEN Value("item", b) - 1 ELSE Value("item", b)
  BY <1>1 DEF Inv, TypeOK, Value
<1>5. Value("item", b)' = Value("item", b)
         + (IF at[running] = GetPlace(b) THEN 1 ELSE 0) - (IF place = GetPlace(b) THEN 1 ELSE 0)
  BY <1>3, <1>4
<1> QED
  BY <1>1, <1>2, <1>5, KeepsContents

(* A character that waits for space is not yet under way. *)
LEMMA ReceivesKeeps ==
  ASSUME Inv, NEW c \in Char, Receives(c), UNCHANGED cellVars,
         at[running] \in {"outside", "polling"}, NEW b \in Buffers
  PROVE  Keeps(b)
<1>1. /\ running \in Threads /\ "interrupt" \in Places /\ item' = item
      /\ at' = [at EXCEPT ![running] = "interrupt"]
  BY DEF Receives, WaitSpace, Inv, TypeOK, Places
<1>2. at[running] \notin {"getc", "transmit"} /\ "interrupt" \notin {"getc", "transmit"}
  OBVIOUS
<1> QED
  BY <1>1, <1>2, QuietKeeps

(* Every step is one of a channel's, for either buffer, but when an         *)
(* interrupt stores that the idle thread may not have waited in.            *)
LEMMA ChannelSteps ==
  ASSUME Inv, [Next]_vars, NEW b \in Buffers
  PROVE  \/ Sends(b) \/ Reads(b) \/ Keeps(b)
         \/ b = "in" /\ at[running] = "interrupt" /\ Idle \in ToSet(spaceWaiters["in"])
<1>1. ASSUME NEW c \in Char, Putc(c) PROVE Keeps(b)
  <2>1. /\ running \in Threads /\ "putc" \in Places /\ item' = item /\ UNCHANGED cellVars
        /\ at' = [at EXCEPT ![running] = "putc"]
    BY <1>1 DEF Putc, WaitSpace, Inv, TypeOK, Places
  <2>2. at[running] \notin {"getc", "transmit"} /\ "putc" \notin {"getc", "transmit"}
    BY <1>1 DEF Putc
  <2> QED
    BY <2>1, <2>2, QuietKeeps
<1>2. ASSUME NEW c \in Char, ConsoleInterrupt(c) PROVE Keeps(b)
  <2>1. Receives(c) /\ UNCHANGED cellVars /\ at[running] \in {"outside", "polling"}
    BY <1>2 DEF ConsoleInterrupt
  <2> QED
    BY <2>1, ReceivesKeeps
<1>3. CASE PutcEnds
  <2>1. /\ "out" \in Buffers /\ at[running] = PutPlace("out") /\ Store("out")
        /\ at' = [at EXCEPT ![running] = "outside"] /\ "outside" \in {"outside", "polling"}
    BY <1>3 DEF PutcEnds, Buffers, PutPlace
  <2>2. Idle \notin ToSet(Waiters("space", "out"))
    BY DEF Inv, Lists, ListOf, Sems, Buffers
  <2>3. Sends("out") /\ \A c \in Buffers \ {"out"} : Keeps(c)
    BY <2>1, <2>2, StoreSends
  <2> QED
    BY <2>3
<1>4. CASE InterruptStores
  <2>1. /\ "in" \in Buffers /\ at[running] = PutPlace("in") /\ Store("in")
        /\ at' = [at EXCEPT ![running] = "polling"] /\ "polling" \in {"outside", "polling"}
        /\ at[running] = "interrupt"
    BY <1>4 DEF InterruptStores, Buffers, PutPlace
  <2>2. /\ Idle \notin ToSet(Waiters("space", "in")) => Sends("in")
        /\ \A c \in Buffers \ {"in"} : Keeps(c)
    BY <2>1, StoreSends
  <2> QED
    BY <2>1, <2>2 DEF Waiters
<1>5. CASE Getc
  <2>1. "in" \in Buffers /\ WaitItem("in", GetPlace("in")) /\ UNCHANGED cellVars
        /\ at[running] \in {"outside", "polling"}
    BY <1>5 DEF Getc, Buffers, GetPlace
  <2> QED
    BY <2>1, WaitItemKeeps
<1>6. CASE GetcEnds
  <2>1. /\ "in" \in Buffers /\ at[running] = GetPlace("in") /\ Take("in")
        /\ at' = [at EXCEPT ![running] = "outside"] /\ "outside" \in {"outside", "polling"}
    BY <1>6 DEF GetcEnds, Buffers, GetPlace
  <2>2. Reads("in") /\ \A c \in Buffers \ {"in"} : Keeps(c)
    BY <2>1, TakeReads
  <2> QED
    BY <2>2
<1>7. CASE InterruptPolls
  <2>1. CASE (\E c \in Char : Receives(c)) /\ UNCHANGED <<cellVars, claimed>>
    <3>1. at[running] \in {"outside", "polling"}
      BY <1>7 DEF InterruptPolls
    <3> QED
      BY <2>1, <3>1, ReceivesKeeps
  <2>2. CASE /\ claimed' = FALSE
             /\ at' = [at EXCEPT ![running] = "outside"]
             /\ UNCHANGED <<running, ready, ch, cellVars, semVars>>
    <3>1. /\ running \in Threads /\ "outside" \in Places /\ item' = item /\ UNCHANGED cellVars
          /\ at' = [at EXCEPT ![running] = "outside"]
      BY <2>2 DEF semVars, Inv, TypeOK, Places
    <3>2. at[running] \notin {"getc", "transmit"} /\ "outside" \notin {"getc", "transmit"}
      BY <1>7 DEF InterruptPolls
    <3> QED
      BY <3>1, <3>2, QuietKeeps
  <2> QED
    BY <1>7, <2>1, <2>2 DEF InterruptPolls
<1>8. CASE ConPolls
  <2>1. "out" \in Buffers /\ WaitItem("out", GetPlace("out")) /\ UNCHANGED cellVars
        /\ at[running] \in {"outside", "polling"}
    BY <1>8 DEF ConPolls, Buffers, GetPlace
  <2> QED
    BY <2>1, WaitItemKeeps
<1>9. CASE ConTransmits
  <2>1. /\ "out" \in Buffers /\ at[running] = GetPlace("out") /\ Take("out")
        /\ at' = [at EXCEPT ![running] = "polling"] /\ "polling" \in {"outside", "polling"}
    BY <1>9 DEF ConTransmits, Buffers, GetPlace
  <2>2. Reads("out") /\ \A c \in Buffers \ {"out"} : Keeps(c)
    BY <2>1, TakeReads
  <2> QED
    BY <2>2
<1>10. CASE Preempt \/ UNCHANGED vars
  <2>1. at' = at /\ UNCHANGED cellVars /\ item' = item
    BY <1>10 DEF Preempt, vars, hartVars, semVars
  <2>2. Contents(b)' = Contents(b) /\ taken[b]' = taken[b]
    BY <2>1 DEF Contents, Getting, cellVars
  <2> QED
    BY <2>2 DEF Keeps
<1>11. CASE Leave
  <2>1. /\ running \in Threads /\ "away" \in Places /\ item' = item /\ UNCHANGED cellVars
        /\ at' = [at EXCEPT ![running] = "away"]
    BY <1>11 DEF Leave, semVars, Inv, TypeOK, Places
  <2>2. at[running] \notin {"getc", "transmit"} /\ "away" \notin {"getc", "transmit"}
    BY <1>11 DEF Leave
  <2> QED
    BY <2>1, <2>2, QuietKeeps
<1>12. ASSUME NEW t \in User, Wake(t) PROVE Keeps(b)
  <2>1. /\ t \in Threads /\ "outside" \in Places /\ item' = item /\ UNCHANGED cellVars
        /\ at' = [at EXCEPT ![t] = "outside"]
    BY <1>12 DEF Wake, semVars, Inv, TypeOK, Places, Threads
  <2>2. at[t] \notin {"getc", "transmit"} /\ "outside" \notin {"getc", "transmit"}
    BY <1>12 DEF Wake
  <2> QED
    BY <2>1, <2>2, QuietKeeps
<1> QED
  BY <1>1, <1>2, <1>3, <1>4, <1>5, <1>6, <1>7, <1>8, <1>9, <1>10, <1>11, <1>12 DEF Next

(* The buffers are empty at first. *)
LEMMA InitEmpty ==
  ASSUME Init, NEW b \in Buffers
  PROVE  Contents(b) = <<>> /\ taken[b] \in Char
<1>1. Inv
  BY InitInv
<1>2. item = [c \in Buffers |-> IF c = "out" THEN -1 ELSE 0]
  BY DEF Init
<1>3. taken[b] \in Char
  BY <1>1 DEF Inv, TypeOK
<1>4. /\ Len(Contents(b)) = Stored(b) /\ Contents(b) \in Seq(Char)
  <2>1. Stored(b) \in Nat
    BY <1>1, StoredType
  <2>2. Cap \in Nat \ {0} /\ buffer[b] \in Cells(Cap, Char) /\ head[b] \in Int
    BY <1>1, Facts DEF Inv, TypeOK, Cells
  <2>3. Contents(b) = Ring(Cap, buffer[b], head[b], Stored(b))
    BY ContentsRing
  <2> DEFINE f == buffer[b]
             h == head[b]
             n == Stored(b)
  <2>4. /\ n \in Nat /\ Cap \in Nat \ {0} /\ f \in Cells(Cap, Char) /\ h \in Int
        /\ Contents(b) = Ring(Cap, f, h, n)
    BY <2>1, <2>2, <2>3
  <2> HIDE DEF f, h, n
  <2>5. Len(Ring(Cap, f, h, n)) = n
    BY <2>4, RingLen, Zenon
  <2>6. Ring(Cap, f, h, n) \in Seq(Char)
    BY <2>4, RingSeq, Zenon
  <2> QED
    BY <2>4, <2>5, <2>6 DEF n
<1>5. Stored(b) = 0
  <2>1. at = [t \in Threads |-> IF t = Con THEN "transmit" ELSE "outside"]
    BY DEF Init
  <2>2. {t \in Threads : at[t] = GetPlace(b)} = IF b = "out" THEN {Con} ELSE {}
    BY <2>1, Facts DEF GetPlace, Buffers
  <2>3. CountIn(Threads, at, GetPlace(b)) = IF b = "out" THEN 1 ELSE 0
    BY <2>2, FS_EmptySet, FS_Singleton DEF CountIn
  <2>4. Value("item", b) = IF b = "out" THEN -1 ELSE 0
    BY <1>2 DEF Value
  <2> QED
    BY <2>3, <2>4 DEF Stored
<1> QED
  BY <1>3, <1>4, <1>5, EmptySeq

(* What threads put with putc is transmitted in order, each character once, *)
(* and never more than the capacity is under way: the output buffer         *)
(* implements the channel.                                                  *)
THEOREM OutputIsChannel == Spec => OutputInOrder
<1>1. "out" \in Buffers
  BY DEF Buffers
<1>2. Init => OutChannel!Init
  BY <1>1, InitEmpty DEF OutChannel!Init
<1>3. Inv /\ [Next]_vars => [OutChannel!Next]_<<Contents("out"), taken["out"]>>
  <2> SUFFICES ASSUME Inv, [Next]_vars
               PROVE  [OutChannel!Next]_<<Contents("out"), taken["out"]>>
    OBVIOUS
  <2>1. Sends("out") \/ Reads("out") \/ Keeps("out")
    BY <1>1, ChannelSteps
  <2> QED
    BY <2>1 DEF Sends, Reads, Keeps, OutChannel!Next, OutChannel!Send, OutChannel!Receive
<1> QED
  BY <1>2, <1>3, ConsoleInductive, PTL DEF Spec, OutputInOrder, OutChannel!Spec

-------------------------------------------------------------------------------
(* For the input buffer.  At most one thread is in the console interrupt,   *)
(* and only while it is claimed.  The idle thread, linked into the list of  *)
(* waiters for space, is the first of them, and whoever is interrupted      *)
(* after it waits behind it: so only the idle thread itself can store a     *)
(* character while it is linked.                                            *)
Inside(t) == t # Con /\ at[t] \in {"interrupt", "polling"}

Solo ==
  /\ \A t, u \in Threads : Inside(t) /\ Inside(u) => t = u
  /\ \A t \in Threads : Inside(t) => claimed

IdleWaits == Idle \in ToSet(spaceWaiters["in"])

IdleFirst == IdleWaits => Head(spaceWaiters["in"]) = Idle

Behind ==
  IdleWaits => \A t \in Threads \ {Idle} :
                 at[t] = "interrupt" => t \in ToSet(spaceWaiters["in"])

InputInv == Solo /\ IdleFirst /\ Behind

(* Nobody enters the interrupt, and nobody is taken off the list. *)
LEMMA QuietInput ==
  ASSUME Inv, InputInv, claimed' = claimed, spaceWaiters'["in"] = spaceWaiters["in"],
         NEW m \in Threads, NEW place \in Places, at' = [at EXCEPT ![m] = place],
         m = Con \/ place \notin {"interrupt", "polling"} \/ (Inside(m) /\ place = "polling"),
         m = Con => place # "interrupt"
  PROVE  InputInv'
<1>1. at'[m] = place /\ \A t \in Threads \ {m} : at'[t] = at[t]
  BY DEF Inv, TypeOK
<1>2. \A t \in Threads : Inside(t)' => Inside(t)
  BY <1>1 DEF Inside
<1>3. Solo'
  BY <1>2 DEF InputInv, Solo
<1>4. \A t \in Threads : at'[t] = "interrupt" => at[t] = "interrupt"
  BY <1>1
<1>5. IdleFirst' /\ Behind'
  BY <1>4 DEF InputInv, IdleFirst, Behind, IdleWaits
<1> QED
  BY <1>3, <1>5 DEF InputInv

(* A thread enters the interrupt, or takes another character in it. *)
LEMMA ReceivesInput ==
  ASSUME Inv, InputInv, NEW c \in Char, Receives(c), running # Con,
         at[running] \in {"outside", "polling"},
         \/ at[running] = "outside" /\ ~claimed /\ claimed' = TRUE
         \/ at[running] = "polling" /\ claimed' = claimed
  PROVE  InputInv'
<1> DEFINE l == spaceWaiters["in"]
<1>1. /\ running \in Threads /\ l \in Seq(Threads) /\ space["in"] \in Int
      /\ at'[running] = "interrupt" /\ \A t \in Threads \ {running} : at'[t] = at[t]
      /\ running = Idle => ~IdleWaits
      /\ \/ space["in"] - 1 < 0 /\ spaceWaiters'["in"] = Append(l, running)
         \/ space["in"] - 1 >= 0 /\ spaceWaiters'["in"] = l
  BY DEF Inv, TypeOK, Receives, WaitSpace, Buffers, IdleWaits
<1>2. /\ Len(l) = (IF space["in"] < 0 THEN -space["in"] ELSE 0)
      /\ \A t \in ToSet(l) : t # Idle => at[t] = "interrupt" /\ t \notin Runnable
  <2>1. ListOf("space", "in")
    BY DEF Inv, Lists, Sems, Buffers
  <2> QED
    BY <2>1 DEF ListOf, Value, Waiters, WaitPlace, PutPlace
<1>3. ToSet(l) \subseteq Threads
  BY <1>1, ListElements
<1>4. \A t \in Threads : Inside(t) => t = running
  BY <1>1 DEF InputInv, Solo, Inside
<1>5. claimed'
  BY <1>1 DEF InputInv, Solo, Inside
<1>6. \A t \in Threads : Inside(t)' => t = running
  BY <1>1, <1>4 DEF Inside
<1>7. Solo'
  BY <1>5, <1>6 DEF Solo
<1>8. at[Con] # "interrupt"
  BY DEF Inv, Roles
<1>9. \A t \in ToSet(l) : t = Idle
  BY <1>2, <1>3, <1>4, <1>8 DEF Inside
<1>10. CASE IdleWaits
  <2>1. l # <<>> /\ Len(l) \in Nat /\ Len(l) # 0
    BY <1>1, <1>10, EmptyList, EmptySeq DEF IdleWaits
  <2>2. spaceWaiters'["in"] = Append(l, running)
    BY <1>1, <1>2, <2>1
  <2>3. /\ ToSet(Append(l, running)) = ToSet(l) \cup {running}
        /\ Head(Append(l, running)) = Head(l)
    <3>1. /\ Append(l, running) \in Seq(Threads) /\ Append(l, running) # <<>>
          /\ Append(l, running)[1] = l[1]
      BY <1>1, <2>1, AppendProperties, EmptySeq
    <3> QED
      BY <1>1, <2>1, <3>1, AppendList
  <2>4. IdleFirst'
    BY <1>10, <2>2, <2>3 DEF InputInv, IdleFirst
  <2>5. Behind'
    BY <1>6, <1>8, <1>1, <2>2, <2>3, Facts DEF Behind, Inside
  <2> QED
    BY <1>7, <2>4, <2>5 DEF InputInv
<1>11. CASE ~IdleWaits /\ running = Idle
  <2>1. l = <<>>
    <3>1. ToSet(l) = {}
      BY <1>9, <1>11 DEF IdleWaits
    <3> QED
      BY <1>1, <3>1, HeadList
  <2>2. spaceWaiters'["in"] = <<Idle>> \/ spaceWaiters'["in"] = <<>>
    BY <1>1, <1>11, <2>1
  <2>3. IdleFirst'
    BY <2>2, EmptyList DEF IdleFirst, IdleWaits
  <2>4. Behind'
    BY <1>6, <1>8, <1>1, <1>11, Facts DEF Behind, Inside
  <2> QED
    BY <1>7, <2>3, <2>4 DEF InputInv
<1>12. CASE ~IdleWaits /\ running # Idle
  <2>1. ~IdleWaits'
    <3>1. ToSet(Append(l, running)) = ToSet(l) \cup {running}
      BY <1>1, AppendList
    <3> QED
      BY <1>1, <1>12, <3>1 DEF IdleWaits
  <2> QED
    BY <1>7, <2>1 DEF InputInv, IdleFirst, Behind
<1> QED
  BY <1>10, <1>11, <1>12

(* A getc takes the first waiter off: the idle thread, if it is linked. *)
LEMMA TakeInput ==
  ASSUME Inv, InputInv, GetcEnds
  PROVE  InputInv'
<1> DEFINE l == spaceWaiters["in"]
           w == WaitersAfterSignal(space["in"], l)
<1>1. /\ running \in Threads /\ l \in Seq(Threads) /\ claimed' = claimed
      /\ at'[running] = "outside" /\ \A t \in Threads \ {running} : at'[t] = at[t]
      /\ spaceWaiters'["in"] = w
  BY DEF Inv, TypeOK, GetcEnds, Take, Buffers
<1>2. IsInjective(l)
  BY DEF Inv, Lists, ListOf, Sems, Buffers, Waiters
<1>3. \A t \in Threads : Inside(t)' => Inside(t)
  BY <1>1 DEF Inside
<1>4. Solo'
  BY <1>1, <1>3 DEF InputInv, Solo
<1>5. CASE w = l
  <2>1. \A t \in Threads : at'[t] = "interrupt" => at[t] = "interrupt"
    BY <1>1
  <2>2. IdleFirst' /\ Behind'
    BY <1>1, <1>5, <2>1 DEF InputInv, IdleFirst, Behind, IdleWaits
  <2> QED
    BY <1>4, <2>2 DEF InputInv
<1>6. CASE w = Tail(l) /\ l # <<>>
  <2>1. ToSet(l) = {Head(l)} \cup ToSet(Tail(l)) /\ Head(l) \notin ToSet(Tail(l))
    BY <1>1, <1>2, <1>6, HeadList
  <2>2. ~IdleWaits'
    BY <1>1, <1>6, <2>1 DEF InputInv, IdleFirst, IdleWaits
  <2> QED
    BY <1>4, <2>2 DEF InputInv, IdleFirst, Behind
<1> QED
  BY <1>5, <1>6 DEF WaitersAfterSignal

(* Nobody is in the interrupt at first. *)
LEMMA InitInput ==
  ASSUME Init
  PROVE  InputInv
<1>1. /\ at = [t \in Threads |-> IF t = Con THEN "transmit" ELSE "outside"]
      /\ spaceWaiters["in"] = <<>>
  BY DEF Init, Buffers
<1>2. ~IdleWaits
  BY <1>1, EmptyList DEF IdleWaits
<1> QED
  BY <1>1, <1>2 DEF InputInv, Solo, IdleFirst, Behind, Inside

(* Every step keeps the order of the waiters for space. *)
LEMMA InputStep ==
  ASSUME Inv, InputInv, [Next]_vars
  PROVE  InputInv'
<1>1. ASSUME NEW c \in Char, Putc(c) PROVE InputInv'
  <2>1. /\ running \in Threads /\ "putc" \in Places /\ claimed' = claimed
        /\ at' = [at EXCEPT ![running] = "putc"] /\ spaceWaiters'["in"] = spaceWaiters["in"]
    BY <1>1 DEF Putc, WaitSpace, Inv, TypeOK, Places, Buffers
  <2>2. "putc" \notin {"interrupt", "polling"}
    OBVIOUS
  <2> QED
    BY <2>1, <2>2, QuietInput
<1>2. ASSUME NEW c \in Char, ConsoleInterrupt(c) PROVE InputInv'
  <2>1. /\ Receives(c) /\ at[running] = "outside" /\ ~claimed /\ claimed' = TRUE
        /\ running # Con /\ at[running] \in {"outside", "polling"}
    BY <1>2, RunningPlace DEF ConsoleInterrupt
  <2> QED
    BY <2>1, ReceivesInput
<1>3. CASE PutcEnds
  <2>1. /\ running \in Threads /\ "outside" \in Places /\ claimed' = claimed
        /\ at' = [at EXCEPT ![running] = "outside"] /\ spaceWaiters'["in"] = spaceWaiters["in"]
    BY <1>3 DEF PutcEnds, Store, Inv, TypeOK, Places
  <2>2. "outside" \notin {"interrupt", "polling"}
    OBVIOUS
  <2> QED
    BY <2>1, <2>2, QuietInput
<1>4. CASE InterruptStores
  <2>1. /\ running \in Threads /\ "polling" \in Places /\ claimed' = claimed
        /\ at' = [at EXCEPT ![running] = "polling"] /\ spaceWaiters'["in"] = spaceWaiters["in"]
    BY <1>4 DEF InterruptStores, Store, Inv, TypeOK, Places
  <2>2. Inside(running) /\ "polling" # "interrupt"
    BY <1>4, RunningPlace DEF InterruptStores, Inside
  <2> QED
    BY <2>1, <2>2, QuietInput
<1>5. CASE Getc
  <2>1. /\ running \in Threads /\ "getc" \in Places /\ claimed' = claimed
        /\ at' = [at EXCEPT ![running] = "getc"] /\ spaceWaiters'["in"] = spaceWaiters["in"]
    BY <1>5 DEF Getc, WaitItem, Inv, TypeOK, Places
  <2>2. "getc" \notin {"interrupt", "polling"}
    OBVIOUS
  <2> QED
    BY <2>1, <2>2, QuietInput
<1>6. CASE InterruptPolls
  <2>1. CASE (\E c \in Char : Receives(c)) /\ UNCHANGED <<cellVars, claimed>>
    <3>1. running # Con /\ at[running] = "polling" /\ claimed' = claimed
          /\ at[running] \in {"outside", "polling"}
      BY <1>6, <2>1 DEF InterruptPolls
    <3> QED
      BY <2>1, <3>1, ReceivesInput
  <2>2. CASE /\ claimed' = FALSE
             /\ at' = [at EXCEPT ![running] = "outside"]
             /\ UNCHANGED <<running, ready, ch, cellVars, semVars>>
    <3>1. /\ running \in Threads /\ Inside(running) /\ at'[running] = "outside"
          /\ \A t \in Threads \ {running} : at'[t] = at[t]
          /\ spaceWaiters' = spaceWaiters
      BY <1>6, <2>2 DEF InterruptPolls, Inside, Inv, TypeOK, semVars
    <3>2. \A t \in Threads : ~Inside(t)'
      BY <3>1 DEF InputInv, Solo, Inside
    <3>3. Solo' /\ IdleFirst' /\ Behind'
      BY <3>1, <3>2 DEF InputInv, Solo, IdleFirst, Behind, IdleWaits
    <3> QED
      BY <3>3 DEF InputInv
  <2> QED
    BY <1>6, <2>1, <2>2 DEF InterruptPolls
<1>7. CASE ConPolls
  <2>1. /\ Con \in Threads /\ "transmit" \in Places /\ claimed' = claimed
        /\ at' = [at EXCEPT ![Con] = "transmit"] /\ spaceWaiters'["in"] = spaceWaiters["in"]
    BY <1>7, Facts DEF ConPolls, WaitItem, Places
  <2>2. "transmit" # "interrupt"
    OBVIOUS
  <2> QED
    BY <2>1, <2>2, QuietInput
<1>8. CASE ConTransmits
  <2>1. /\ Con \in Threads /\ "polling" \in Places /\ claimed' = claimed
        /\ at' = [at EXCEPT ![Con] = "polling"] /\ spaceWaiters'["in"] = spaceWaiters["in"]
    BY <1>8, Facts DEF ConTransmits, Take, Places, Buffers, Inv, TypeOK
  <2>2. "polling" # "interrupt"
    OBVIOUS
  <2> QED
    BY <2>1, <2>2, QuietInput
<1>9. CASE Preempt \/ UNCHANGED vars
  <2>1. at' = at /\ spaceWaiters' = spaceWaiters /\ claimed' = claimed
    BY <1>9 DEF Preempt, vars, hartVars, semVars
  <2> QED
    BY <2>1 DEF InputInv, Solo, IdleFirst, Behind, IdleWaits, Inside
<1>10. CASE Leave
  <2>1. /\ running \in Threads /\ "away" \in Places /\ claimed' = claimed
        /\ at' = [at EXCEPT ![running] = "away"] /\ spaceWaiters'["in"] = spaceWaiters["in"]
    BY <1>10 DEF Leave, semVars, Inv, TypeOK, Places
  <2>2. "away" \notin {"interrupt", "polling"}
    OBVIOUS
  <2> QED
    BY <2>1, <2>2, QuietInput
<1>11. ASSUME NEW t \in User, Wake(t) PROVE InputInv'
  <2>1. /\ t \in Threads /\ "outside" \in Places /\ claimed' = claimed
        /\ at' = [at EXCEPT ![t] = "outside"] /\ spaceWaiters'["in"] = spaceWaiters["in"]
    BY <1>11 DEF Wake, semVars, Places, Threads
  <2>2. "outside" \notin {"interrupt", "polling"}
    OBVIOUS
  <2> QED
    BY <2>1, <2>2, QuietInput
<1> QED
  BY <1>1, <1>2, <1>3, <1>4, <1>5, <1>6, <1>7, <1>8, <1>9, <1>10, <1>11, TakeInput DEF Next

(* One thread at a time is in the console interrupt; and the idle thread,   *)
(* when it waits for space, keeps all others from storing.                  *)
THEOREM InputInductive == Spec => [](Inv /\ InputInv)
<1>1. Init => InputInv
  BY InitInput
<1>2. Inv /\ InputInv /\ [Next]_vars => InputInv'
  BY InputStep
<1> QED
  BY <1>1, <1>2, ConsoleInductive, PTL DEF Spec

(* What arrives is received by getc in order, each character once: the      *)
(* input buffer implements the channel in every step but the one in which   *)
(* the idle thread, blocked in the interrupt, runs on and stores.           *)
THEOREM InputIsChannelButOverrun == Spec => InputInOrderButOverrun
<1>1. "in" \in Buffers
  BY DEF Buffers
<1>2. Init => InChannel!Init
  BY <1>1, InitEmpty DEF InChannel!Init
<1>3. Inv /\ InputInv /\ [Next]_vars
        => [InChannel!Next \/ Overrun]_<<Contents("in"), taken["in"]>>
  <2> SUFFICES ASSUME Inv, InputInv, [Next]_vars
               PROVE  [InChannel!Next \/ Overrun]_<<Contents("in"), taken["in"]>>
    OBVIOUS
  <2>1. CASE Sends("in") \/ Reads("in") \/ Keeps("in")
    BY <2>1 DEF Sends, Reads, Keeps, InChannel!Next, InChannel!Send, InChannel!Receive
  <2>2. CASE at[running] = "interrupt" /\ IdleWaits
    <3>1. ListOf("space", "in") /\ running \in Threads
      BY DEF Inv, Lists, Sems, Buffers, TypeOK
    <3>2. running \notin ToSet(spaceWaiters["in"]) \/ running = Idle
      BY <3>1 DEF ListOf, Waiters, Runnable
    <3>3. running = Idle
      BY <2>2, <3>1, <3>2 DEF InputInv, Behind
    <3> QED
      BY <2>2, <3>3 DEF Overrun, IdleWaits
  <2> QED
    BY <1>1, <2>1, <2>2, ChannelSteps DEF IdleWaits
<1> QED
  BY <1>2, <1>3, InputInductive, PTL DEF Spec, InputInOrderButOverrun
===============================================================================
