----------------------------- MODULE KernelProofs -----------------------------
(***************************************************************************)
(* Proofs that the threads of the kernel are never lost, never linked into *)
(* two lists, and counted correctly by the semaphores, for any number of   *)
(* threads and semaphores, any time slice and any bounds.                  *)
(*                                                                         *)
(* The inductive invariant IInv is the conjunction of five parts, one for  *)
(* each group of variables the actions change together.  Almost every      *)
(* action ends in a dispatch; `Switched` says what a dispatch does to the  *)
(* set of runnable threads, and each action is then an argument about the  *)
(* queue it hands to the dispatch.                                         *)
(*                                                                         *)
(* SleepInv adds what the differences kept in sleepLeft need; with it the  *)
(* kernel is shown to implement AlarmClock.tla.                            *)
(***************************************************************************)
EXTENDS Kernel, Lemmas

WaitLists ==
  /\ waiters \in [Sem -> Seq(Thread)]
  /\ \A s \in Sem : IsInjective(waiters[s])
  /\ \A s, u \in Sem : s # u => ToSet(waiters[s]) \cap ToSet(waiters[u]) = {}
  /\ blocked \subseteq Thread
  /\ blocked = UNION {ToSet(waiters[s]) : s \in Sem}

SemPart ==
  /\ open \subseteq Sem
  /\ val \in [Sem -> Int]
  /\ WaitLists
  /\ ValueCountsWaiters

SleepPart ==
  /\ sleepList \in Seq(Thread)
  /\ IsInjective(sleepList)
  /\ sleeping \subseteq Thread
  /\ sleeping = ToSet(sleepList)

ThreadPart ==
  /\ created \subseteq Thread /\ started \subseteq created
  /\ finished \subseteq Thread

RunPart ==
  /\ running \in Thread \cup {Idle}
  /\ ready \in Seq(Thread)
  /\ IsInjective(ready)
  /\ blocked \cap sleeping = {}
  /\ ToSet(ready) \cap (blocked \cup sleeping) = {}
  /\ running \notin ToSet(ready) \cup blocked \cup sleeping

(* Only started threads are anywhere: a new one is in no list yet. *)
StartedPart ==
  ToSet(ready) \cup blocked \cup sleeping \cup ({running} \ {Idle}) \subseteq started

CounterPart == timeSliceCounter \in 0..(TimeSlice - 1)

IInv == SemPart /\ SleepPart /\ ThreadPart /\ RunPart /\ StartedPart /\ CounterPart

(* What a pass through the handler does with the runnable threads, when q   *)
(* is the ready queue before the dispatch: nobody appears, nobody is lost,  *)
(* and the interrupted thread stays if it can run.                          *)
Switched(q) ==
  /\ running' \in Thread \cup {Idle} /\ ready' \in Seq(Thread)
  /\ IsInjective(ready') /\ running' \notin ToSet(ready')
  /\ ToSet(ready') \cup {running'} \subseteq ToSet(q) \cup {running, Idle}
  /\ ToSet(q) \subseteq ToSet(ready') \cup {running'}
  /\ running # Idle /\ running \notin finished' \cup blocked' \cup sleeping'
       => running \in ToSet(ready') \cup {running'}
  /\ running # Idle /\ running \in blocked' \cup sleeping'
       => running \notin ToSet(ready') \cup {running'}

-------------------------------------------------------------------------------
(* A list of threads never holds the idle thread. *)
LEMMA ListOfThreads ==
  ASSUME NEW q \in Seq(Thread)
  PROVE  ToSet(q) \subseteq Thread /\ Idle \notin ToSet(q)
<1>1. \A i \in DOMAIN q : q[i] \in Thread
  BY LenProperties, ElementOfSeq
<1> QED
  BY <1>1, KernelAssumption DEF ToSet, KernelAssumption

LEMMA DispatchSwitches ==
  ASSUME NEW q \in Seq(Thread), IsInjective(q),
         running \in Thread \cup {Idle}, running \notin ToSet(q),
         Dispatch(q)
  PROVE  Switched(q)
<1> DEFINE canRun == running \notin finished' \cup blocked' \cup sleeping'
           queue == IF canRun THEN Put(q, running) ELSE q
<1>1. running' = NextOf(queue) /\ ready' = RestOf(queue)
  BY DEF Dispatch
<1>2. /\ queue \in Seq(Thread) /\ IsInjective(queue)
      /\ ToSet(q) \subseteq ToSet(queue)
      /\ ToSet(queue) \subseteq ToSet(q) \cup {running}
      /\ running # Idle => (running \in ToSet(queue) <=> canRun)
  <2>1. CASE canRun /\ running # Idle
    <3>1. queue = Append(q, running)
      BY <2>1 DEF Put
    <3>2. running \in Thread
      BY <2>1
    <3>3. /\ Append(q, running) \in Seq(Thread)
          /\ ToSet(Append(q, running)) = ToSet(q) \cup {running}
          /\ IsInjective(Append(q, running))
      BY <3>2, AppendList
    <3> HIDE DEF queue
    <3> QED
      BY <2>1, <3>1, <3>3
  <2>2. CASE ~(canRun /\ running # Idle)
    <3>1. queue = q
      BY <2>2 DEF Put
    <3> QED
      BY <2>2, <3>1
  <2> QED
    BY <2>1, <2>2
<1> HIDE DEF queue
<1>3. CASE queue = <<>>
  <2>1. running' = Idle /\ ready' = <<>>
    BY <1>1, <1>3 DEF NextOf, RestOf
  <2>2. ToSet(queue) = {} /\ ToSet(ready') = {} /\ IsInjective(ready') /\ ready' \in Seq(Thread)
    BY <1>3, <2>1, EmptyList, EmptySeq
  <2> QED
    BY <1>2, <2>1, <2>2 DEF Switched
<1>4. CASE queue # <<>>
  <2>1. running' = Head(queue) /\ ready' = Tail(queue)
    BY <1>1, <1>4 DEF NextOf, RestOf
  <2>2. /\ running' \in Thread /\ ready' \in Seq(Thread)
        /\ ToSet(queue) = {running'} \cup ToSet(ready')
        /\ IsInjective(ready') /\ running' \notin ToSet(ready')
    BY <1>2, <1>4, <2>1, HeadList
  <2> QED
    BY <1>2, <2>2 DEF Switched
<1> QED
  BY <1>3, <1>4

(* A pass through the handler that returns to the thread it interrupted. *)
LEMMA StaySwitches ==
  ASSUME NEW q \in Seq(Thread), IsInjective(q),
         running \in Thread \cup {Idle}, running \notin ToSet(q),
         running \notin blocked' \cup sleeping',
         running' = running, ready' = q
  PROVE  Switched(q)
  BY DEF Switched

LEMMA TrailingSwitches ==
  ASSUME NEW q \in Seq(Thread), IsInjective(q),
         running \in Thread \cup {Idle}, running \notin ToSet(q),
         running \notin blocked' \cup sleeping',
         CounterPart, TrailingDispatch(q)
  PROVE  Switched(q) /\ CounterPart'
<1>1. CASE q # <<>> /\ timeSliceCounter' = 0 /\ Dispatch(q)
  <2>1. CounterPart'
    BY <1>1, KernelAssumption, SMT DEF CounterPart, KernelAssumption
  <2> QED
    BY <1>1, <2>1, DispatchSwitches
<1>2. CASE ready' = q /\ UNCHANGED <<running, timeSliceCounter>>
  BY <1>2, StaySwitches DEF CounterPart
<1> QED
  BY <1>1, <1>2 DEF TrailingDispatch

(* From the queue handed to the dispatch to the places of all threads. *)
LEMMA RunStep ==
  ASSUME NEW q \in Seq(Thread), Switched(q),
         blocked' \subseteq Thread, sleeping' \subseteq Thread,
         blocked' \cap sleeping' = {},
         ToSet(q) \cap (blocked' \cup sleeping') = {},
         ToSet(q) \cup blocked' \cup sleeping' \cup ({running} \ {Idle})
           \subseteq started'
  PROVE  RunPart' /\ StartedPart'
<1>1. Idle \notin Thread
  BY KernelAssumption DEF KernelAssumption
<1>2. \A t \in ToSet(ready') \cup {running'} : t \notin blocked' \cup sleeping'
  BY <1>1 DEF Switched
<1>3. RunPart'
  BY <1>2 DEF RunPart, Switched
<1>4. StartedPart'
  BY ListOfThreads DEF StartedPart, Switched
<1> QED
  BY <1>3, <1>4

(* The same for the threads that must not be lost. *)
LEMMA LostStep ==
  ASSUME NEW q \in Seq(Thread), Switched(q), started' \subseteq Thread,
         started' \ finished'
           \subseteq ToSet(q) \cup {running} \cup blocked' \cup sleeping'
  PROVE  NoThreadLost'
<1>1. Idle \notin Thread
  BY KernelAssumption DEF KernelAssumption
<1> QED
  BY <1>1 DEF NoThreadLost, Switched

-------------------------------------------------------------------------------
(* The semaphores' part of the invariant. *)

(* Replacing the list of one semaphore, with the flags to match. *)
LEMMA NewWaiters ==
  ASSUME SemPart, NEW s \in Sem, NEW w \in Seq(Thread), IsInjective(w),
         \A u \in Sem : u # s => ToSet(w) \cap ToSet(waiters[u]) = {},
         waiters' = [waiters EXCEPT ![s] = w],
         blocked' = (blocked \ ToSet(waiters[s])) \cup ToSet(w)
  PROVE  /\ WaitLists'
         /\ waiters'[s] = w
         /\ \A u \in Sem : u # s => waiters'[u] = waiters[u]
<1>1. /\ waiters'[s] = w
      /\ \A u \in Sem : u # s => waiters'[u] = waiters[u]
      /\ waiters' \in [Sem -> Seq(Thread)]
  BY DEF SemPart, WaitLists
<1>2. \A u \in Sem : IsInjective(waiters'[u])
  BY <1>1 DEF SemPart, WaitLists
<1>3. \A u, v \in Sem : u # v => ToSet(waiters'[u]) \cap ToSet(waiters'[v]) = {}
  BY <1>1 DEF SemPart, WaitLists
<1>4. ASSUME NEW t
      PROVE  t \in blocked' <=> \E u \in Sem : t \in ToSet(waiters'[u])
  BY <1>1 DEF SemPart, WaitLists
<1>5. blocked' \subseteq Thread
  BY ListOfThreads DEF SemPart, WaitLists
<1>6. blocked' = UNION {ToSet(waiters'[u]) : u \in Sem}
  BY <1>4
<1>7. WaitLists'
  BY <1>1, <1>2, <1>3, <1>5, <1>6 DEF WaitLists
<1> QED
  BY <1>1, <1>7

(* The length of the list of an open semaphore. *)
LEMMA WaitersLen ==
  ASSUME SemPart, NEW s \in Sem
  PROVE  /\ val[s] \in Int /\ waiters[s] \in Seq(Thread)
         /\ ToSet(waiters[s]) \subseteq blocked
         /\ Len(waiters[s]) \in Nat
         /\ Len(waiters[s]) = 0 <=> waiters[s] = <<>>
         /\ s \in open => Len(waiters[s]) = IF val[s] < 0 THEN -val[s] ELSE 0
<1>1. val[s] \in Int /\ waiters[s] \in Seq(Thread)
  BY DEF SemPart, WaitLists
<1>2. Len(waiters[s]) \in Nat /\ (Len(waiters[s]) = 0 <=> waiters[s] = <<>>)
  BY <1>1, LenProperties, EmptySeq
<1> QED
  BY <1>1, <1>2 DEF SemPart, WaitLists, ValueCountsWaiters

(* sem_close wakes all waiters. *)
LEMMA CloseWakesAll ==
  ASSUME SemPart, NEW s \in open
  PROVE  WokenByClose(s) = waiters[s]
<1>1. s \in Sem
  BY DEF SemPart
<1>2. CASE val[s] < 0
  <2>1. Len(waiters[s]) = -val[s] /\ waiters[s] \in Seq(Thread)
    BY <1>1, <1>2, WaitersLen
  <2>2. SubSeq(waiters[s], 1, Len(waiters[s])) = waiters[s]
    BY <2>1, SubSeqFull
  <2> QED
    BY <1>2, <2>1, <2>2 DEF WokenByClose
<1>3. CASE ~(val[s] < 0)
  <2>1. Len(waiters[s]) = 0
    BY <1>1, <1>3, WaitersLen
  <2>2. waiters[s] = <<>>
    BY <1>1, <2>1, WaitersLen
  <2> QED
    BY <1>3, <2>2 DEF WokenByClose
<1> QED
  BY <1>2, <1>3

(* An operation on one semaphore keeps the part, if it keeps the count. *)
LEMMA SemStep ==
  ASSUME SemPart, NEW s \in Sem, NEW w \in Seq(Thread), IsInjective(w),
         \A u \in Sem : u # s => ToSet(w) \cap ToSet(waiters[u]) = {},
         waiters' = [waiters EXCEPT ![s] = w],
         blocked' = (blocked \ ToSet(waiters[s])) \cup ToSet(w),
         NEW n \in Int, val' = [val EXCEPT ![s] = n],
         open' \subseteq Sem, \A u \in Sem : u # s => (u \in open' <=> u \in open),
         s \notin open' => w = <<>>,
         s \in open' => Len(w) = IF n < 0 THEN -n ELSE 0
  PROVE  SemPart'
<1>1. /\ WaitLists'
      /\ waiters'[s] = w
      /\ \A u \in Sem : u # s => waiters'[u] = waiters[u]
  BY NewWaiters
<1>2. /\ val' \in [Sem -> Int]
      /\ val'[s] = n
      /\ \A u \in Sem : u # s => val'[u] = val[u]
  BY DEF SemPart
<1>3. ValueCountsWaiters'
  <2> SUFFICES ASSUME NEW u \in Sem
               PROVE  /\ u \notin open' => waiters'[u] = <<>>
                      /\ u \in open' => Len(waiters'[u]) = IF val'[u] < 0 THEN -val'[u] ELSE 0
    BY DEF ValueCountsWaiters
  <2>1. CASE u = s
    BY <1>1, <1>2, <2>1
  <2>2. CASE u # s
    BY <1>1, <1>2, <2>2 DEF SemPart, ValueCountsWaiters
  <2> QED
    BY <2>1, <2>2
<1> QED
  BY <1>1, <1>2, <1>3 DEF SemPart

LEMMA SemOpenStep ==
  ASSUME SemPart, NEW s \in Sem, NEW init \in 0..MaxInit, SemOpen(s, init)
  PROVE  SemPart' /\ blocked' = blocked
<1>1. waiters[s] = <<>> /\ s \notin open
  BY DEF SemPart, ValueCountsWaiters, SemOpen
<1>2. /\ ToSet(waiters[s]) = {} /\ <<>> \in Seq(Thread) /\ IsInjective(<<>>)
      /\ \A u \in Sem : ToSet(<<>>) \cap ToSet(waiters[u]) = {}
  BY <1>1, EmptyList, EmptySeq
<1>3. /\ waiters' = [waiters EXCEPT ![s] = <<>>]
      /\ blocked' = (blocked \ ToSet(waiters[s])) \cup ToSet(<<>>)
      /\ blocked' = blocked
      /\ val' = [val EXCEPT ![s] = init]
      /\ open' = open \cup {s} /\ open' \subseteq Sem
      /\ \A u \in Sem : u # s => (u \in open' <=> u \in open)
  BY <1>1, <1>2, EmptyList DEF SemOpen, SemPart
<1>4. init \in Int /\ Len(<<>>) = IF init < 0 THEN -init ELSE 0
  <2>1. init \in Int /\ ~(init < 0)
    BY KernelAssumption, SMT DEF KernelAssumption
  <2> QED
    BY <2>1, EmptySeq
<1>5. SemPart'
  BY <1>2, <1>3, <1>4, SemStep
<1> QED
  BY <1>3, <1>5

LEMMA SemCloseStep ==
  ASSUME SemPart, NEW s \in Sem, SemClose(s)
  PROVE  SemPart' /\ blocked' = blocked \ ToSet(waiters[s])
<1>1. s \in open /\ WokenByClose(s) = waiters[s]
  BY CloseWakesAll DEF SemClose
<1>2. /\ <<>> \in Seq(Thread) /\ IsInjective(<<>>)
      /\ \A u \in Sem : ToSet(<<>>) \cap ToSet(waiters[u]) = {}
  BY EmptyList, EmptySeq
<1>3. /\ waiters' = [waiters EXCEPT ![s] = <<>>]
      /\ blocked' = (blocked \ ToSet(waiters[s])) \cup ToSet(<<>>)
      /\ blocked' = blocked \ ToSet(waiters[s])
      /\ val' = [val EXCEPT ![s] = 0] /\ 0 \in Int
      /\ open' = open \ {s} /\ open' \subseteq Sem /\ s \notin open'
      /\ \A u \in Sem : u # s => (u \in open' <=> u \in open)
  BY <1>1, <1>2, EmptyList DEF SemClose, SemPart
<1>4. SemPart'
  BY <1>2, <1>3, SemStep
<1> QED
  BY <1>3, <1>4

LEMMA SemWaitStep ==
  ASSUME SemPart, NEW s \in Sem, SemWait(s), running \in Thread,
         running \notin blocked
  PROVE  /\ SemPart'
         /\ \/ blocked' = blocked \cup {running} /\ Dispatch(ready)
            \/ blocked' = blocked /\ UNCHANGED <<running, ready>>
<1> DEFINE w == Append(waiters[s], running)
<1>1. /\ s \in open /\ open' = open /\ open' \subseteq Sem
      /\ val' = [val EXCEPT ![s] = val[s] - 1]
  BY DEF SemWait, SemPart
<1>2. /\ val[s] \in Int /\ waiters[s] \in Seq(Thread)
      /\ ToSet(waiters[s]) \subseteq blocked
      /\ Len(waiters[s]) \in Nat
      /\ Len(waiters[s]) = IF val[s] < 0 THEN -val[s] ELSE 0
      /\ IsInjective(waiters[s])
  BY <1>1, WaitersLen DEF SemPart, WaitLists
<1>3. CASE val[s] - 1 < 0
  <2>1. /\ waiters' = [waiters EXCEPT ![s] = w]
        /\ blocked' = blocked \cup {running}
        /\ Dispatch(ready)
    BY <1>2, <1>3, SMT DEF SemWait
  <2>2. /\ w \in Seq(Thread) /\ IsInjective(w)
        /\ ToSet(w) = ToSet(waiters[s]) \cup {running}
    BY <1>2, AppendList
  <2>3. \A u \in Sem : u # s => ToSet(w) \cap ToSet(waiters[u]) = {}
    BY <2>2, WaitersLen DEF SemPart, WaitLists
  <2>4. blocked' = (blocked \ ToSet(waiters[s])) \cup ToSet(w)
    BY <1>2, <2>1, <2>2
  <2>5. Len(w) = Len(waiters[s]) + 1
    BY <1>2, AppendProperties
  <2> HIDE DEF w
  <2>6. /\ val[s] - 1 \in Int
        /\ Len(w) = IF val[s] - 1 < 0 THEN -(val[s] - 1) ELSE 0
    BY <1>2, <1>3, <2>5, SMT
  <2>7. SemPart'
    BY <1>1, <2>1, <2>2, <2>3, <2>4, <2>6, SemStep
  <2> QED
    BY <2>1, <2>7
<1>4. CASE val[s] - 1 >= 0
  <2>1. waiters' = waiters /\ blocked' = blocked /\ UNCHANGED <<running, ready>>
    BY <1>2, <1>4, SMT DEF SemWait
  <2>2. waiters' = [waiters EXCEPT ![s] = waiters[s]]
    BY <2>1 DEF SemPart, WaitLists
  <2>3. /\ val[s] - 1 \in Int
        /\ Len(waiters[s]) = IF val[s] - 1 < 0 THEN -(val[s] - 1) ELSE 0
    BY <1>2, <1>4, SMT
  <2>4. SemPart'
    BY <1>1, <1>2, <2>1, <2>2, <2>3, SemStep DEF SemPart, WaitLists
  <2> QED
    BY <2>1, <2>4
<1> QED
  BY <1>2, <1>3, <1>4, SMT

LEMMA SemSignalStep ==
  ASSUME SemPart, NEW s \in Sem, SemSignal(s)
  PROVE  /\ SemPart'
         /\ \/ \E t \in blocked : blocked' = blocked \ {t} /\ ready' = Append(ready, t)
            \/ blocked' = blocked /\ ready' = ready
<1>1. /\ s \in open /\ open' = open /\ open' \subseteq Sem
      /\ val' = [val EXCEPT ![s] = val[s] + 1]
  BY DEF SemSignal, SemPart
<1>2. /\ val[s] \in Int /\ waiters[s] \in Seq(Thread)
      /\ ToSet(waiters[s]) \subseteq blocked
      /\ Len(waiters[s]) \in Nat
      /\ Len(waiters[s]) = 0 <=> waiters[s] = <<>>
      /\ Len(waiters[s]) = IF val[s] < 0 THEN -val[s] ELSE 0
      /\ IsInjective(waiters[s])
  BY <1>1, WaitersLen DEF SemPart, WaitLists
<1>3. CASE Unblocks(s)
  <2> DEFINE t == Head(waiters[s])
             w == Tail(waiters[s])
  <2>1. waiters[s] # <<>> /\ val[s] + 1 <= 0
    BY <1>3 DEF Unblocks
  <2>2. /\ t \in Thread /\ w \in Seq(Thread) /\ IsInjective(w)
        /\ Len(w) = Len(waiters[s]) - 1
        /\ ToSet(waiters[s]) = {t} \cup ToSet(w) /\ t \notin ToSet(w)
    BY <1>2, <2>1, HeadList
  <2>3. /\ waiters' = [waiters EXCEPT ![s] = w]
        /\ blocked' = blocked \ {t}
        /\ ready' = Put(ready, t)
    BY <1>3 DEF SemSignal
  <2> HIDE DEF t, w
  <2>4. ready' = Append(ready, t)
    BY <2>2, <2>3, KernelAssumption DEF Put, KernelAssumption
  <2>5. blocked' = (blocked \ ToSet(waiters[s])) \cup ToSet(w)
    BY <1>2, <2>2, <2>3
  <2>6. \A u \in Sem : u # s => ToSet(w) \cap ToSet(waiters[u]) = {}
    BY <2>2 DEF SemPart, WaitLists
  <2>7. /\ val[s] + 1 \in Int
        /\ Len(w) = IF val[s] + 1 < 0 THEN -(val[s] + 1) ELSE 0
    BY <1>2, <2>1, <2>2, SMT
  <2>8. SemPart'
    BY <1>1, <2>2, <2>3, <2>5, <2>6, <2>7, SemStep
  <2> QED
    BY <1>2, <2>2, <2>3, <2>4, <2>8
<1>4. CASE ~Unblocks(s)
  <2>1. waiters' = waiters /\ blocked' = blocked /\ ready' = ready
    BY <1>4 DEF SemSignal
  <2>2. waiters' = [waiters EXCEPT ![s] = waiters[s]]
    BY <2>1 DEF SemPart, WaitLists
  <2>3. /\ val[s] + 1 \in Int
        /\ Len(waiters[s]) = IF val[s] + 1 < 0 THEN -(val[s] + 1) ELSE 0
    <3>1. ~(val[s] + 1 <= 0 /\ Len(waiters[s]) # 0)
      BY <1>2, <1>4 DEF Unblocks
    <3> QED
      BY <1>2, <3>1, SMT
  <2>4. SemPart'
    BY <1>1, <1>2, <2>1, <2>2, <2>3, SemStep DEF SemPart, WaitLists
  <2> QED
    BY <2>1, <2>4
<1> QED
  BY <1>3, <1>4

-------------------------------------------------------------------------------
(* The sleep list's part of the invariant. *)

(* Both walks along the sleep list end inside it. *)
LEMMA WakeCountRange ==
  ASSUME sleepList \in Seq(Thread)
  PROVE  WakeCount \in 0..Len(sleepList)
<1> DEFINE S == {k \in 0..Len(sleepList) :
                   k = Len(sleepList) \/ LeftAfterTick[sleepList[k + 1]] # 0}
<1>1. Len(sleepList) \in Nat
  BY LenProperties
<1>2. Len(sleepList) \in S /\ S \in SUBSET Nat
  BY <1>1, SMT
<1>3. Min(S) \in S
  BY <1>2, MinOfNats
<1> QED
  BY <1>3 DEF WakeCount

LEMMA PlaceRange ==
  ASSUME sleepList \in Seq(Thread), NEW t
  PROVE  PlaceToSleep(t) \in 0..Len(sleepList)
<1> DEFINE S == {k \in 0..Len(sleepList) :
                   \/ k = Len(sleepList)
                   \/ Due[k + 1] > t
                   \/ k > 0 /\ Due[k] = t}
<1>1. Len(sleepList) \in Nat
  BY LenProperties
<1>2. Len(sleepList) \in S /\ S \in SUBSET Nat
  BY <1>1, SMT
<1>3. Min(S) \in S
  BY <1>2, MinOfNats
<1> QED
  BY <1>3 DEF PlaceToSleep

LEMMA TimeSleepStep ==
  ASSUME SleepPart, running \in Thread, running \notin sleeping,
         NEW t \in 1..MaxSleep, TimeSleep(t)
  PROVE  SleepPart' /\ sleeping' = sleeping \cup {running}
<1>1. sleepList' = InsertAt(sleepList, PlaceToSleep(t) + 1, running)
  BY DEF TimeSleep, PutToSleep
<1>2. /\ sleepList' \in Seq(Thread)
      /\ ToSet(sleepList') = ToSet(sleepList) \cup {running}
      /\ IsInjective(sleepList')
  BY <1>1, PlaceRange, InsertList DEF SleepPart
<1>3. sleeping' = sleeping \cup {running}
  BY DEF TimeSleep
<1> QED
  BY <1>2, <1>3 DEF SleepPart

LEMMA TickStep ==
  ASSUME SleepPart, Tick
  PROVE  /\ SleepPart'
         /\ Woken \in Seq(Thread) /\ IsInjective(Woken)
         /\ ToSet(Woken) \subseteq sleeping
         /\ sleeping' = sleeping \ ToSet(Woken)
<1>1. /\ sleepList' = SubSeq(sleepList, WakeCount + 1, Len(sleepList))
      /\ sleeping' = sleeping \ ToSet(Woken)
      /\ Woken = SubSeq(sleepList, 1, WakeCount)
  BY DEF Tick, TimerTick, Woken
<1>2. /\ Woken \in Seq(Thread) /\ sleepList' \in Seq(Thread)
      /\ ToSet(Woken) \cup ToSet(sleepList') = ToSet(sleepList)
      /\ IsInjective(Woken) /\ IsInjective(sleepList')
      /\ ToSet(Woken) \cap ToSet(sleepList') = {}
  BY <1>1, WakeCountRange, SplitList DEF SleepPart
<1> QED
  BY <1>1, <1>2 DEF SleepPart

-------------------------------------------------------------------------------
(* One lemma per action: it keeps the invariant, and it loses no thread.    *)

(* No new TCB is taken for the idle thread by the bytes it is made of. *)
FreshIds == idleThread \notin StaleId

(* From the parts to the whole, for a pass through the handler that hands   *)
(* the queue q to the dispatch.                                             *)
LEMMA StepOf ==
  ASSUME IInv, NEW q \in Seq(Thread), Switched(q),
         SemPart', SleepPart', ThreadPart', CounterPart',
         blocked' \cap sleeping' = {},
         ToSet(q) \cap (blocked' \cup sleeping') = {},
         ToSet(q) \cup blocked' \cup sleeping' \cup ({running} \ {Idle})
           \subseteq started'
  PROVE  /\ IInv'
         /\ started' \ finished'
               \subseteq ToSet(q) \cup {running} \cup blocked' \cup sleeping'
              => NoThreadLost'
<1>1. blocked' \subseteq Thread /\ sleeping' \subseteq Thread /\ started' \subseteq Thread
  BY DEF SemPart, WaitLists, SleepPart, ThreadPart
<1>2. RunPart' /\ StartedPart'
  BY <1>1, RunStep
<1> QED
  BY <1>1, <1>2, LostStep DEF IInv

(* The calls that end in the trailing dispatch. *)
LEMMA TrailingStep ==
  ASSUME IInv, NEW q \in Seq(Thread), IsInjective(q), running \notin ToSet(q),
         TrailingDispatch(q),
         SemPart', ThreadPart', UNCHANGED <<sleeping, sleepVars>>,
         blocked' \subseteq blocked,
         ToSet(q) \cap (blocked' \cup sleeping) = {},
         ToSet(q) \subseteq started', started \subseteq started'
  PROVE  /\ IInv'
         /\ started' \ finished'
               \subseteq ToSet(q) \cup {running} \cup blocked' \cup sleeping
              => NoThreadLost'
<1>1. Switched(q) /\ CounterPart'
  BY TrailingSwitches DEF IInv, RunPart
<1>2. SleepPart'
  BY DEF IInv, SleepPart, sleepVars
<1>3. /\ blocked' \cap sleeping' = {}
      /\ ToSet(q) \cap (blocked' \cup sleeping') = {}
      /\ ToSet(q) \cup blocked' \cup sleeping' \cup ({running} \ {Idle})
            \subseteq started'
  BY DEF IInv, RunPart, StartedPart
<1>4. sleeping' = sleeping
  OBVIOUS
<1> QED
  BY <1>1, <1>2, <1>3, <1>4, StepOf

LEMMA SemUnchanged ==
  ASSUME SemPart, UNCHANGED <<semVars, blocked>>
  PROVE  SemPart'
  BY DEF SemPart, WaitLists, ValueCountsWaiters, semVars

LEMMA ThreadDispatchStep ==
  ASSUME IInv, ThreadDispatch
  PROVE  IInv' /\ (NoThreadLost => NoThreadLost')
<1>1. SemPart' /\ ThreadPart'
  BY SemUnchanged DEF IInv, ThreadPart, ThreadDispatch, threadVars
<1>2. /\ ready \in Seq(Thread) /\ IsInjective(ready) /\ running \notin ToSet(ready)
      /\ TrailingDispatch(ready) /\ UNCHANGED <<sleeping, sleepVars>>
      /\ blocked' = blocked /\ started' = started /\ finished' = finished
      /\ ToSet(ready) \cap (blocked' \cup sleeping) = {}
      /\ ToSet(ready) \subseteq started'
  BY DEF IInv, RunPart, StartedPart, ThreadDispatch, threadVars
<1>3. /\ IInv'
      /\ started' \ finished'
            \subseteq ToSet(ready) \cup {running} \cup blocked' \cup sleeping
           => NoThreadLost'
  BY <1>1, <1>2, TrailingStep
<1>4. NoThreadLost => started' \ finished'
            \subseteq ToSet(ready) \cup {running} \cup blocked' \cup sleeping
  BY <1>2 DEF NoThreadLost
<1> QED
  BY <1>3, <1>4

LEMMA ThreadCreateStep ==
  ASSUME IInv, NEW t \in Thread, NEW start \in BOOLEAN, ThreadCreate(t, start)
  PROVE  IInv' /\ (FreshIds /\ NoThreadLost => NoThreadLost')
<1>1. PICK q : /\ TrailingDispatch(q)
               /\ q = ready \/ (start /\ q = Append(ready, t))
               /\ FreshIds /\ start => q = Append(ready, t)
  <2>1. CASE start
    <3>1. PICK id \in StaleId : TrailingDispatch(QueueNew(ready, t, id))
      BY <2>1 DEF ThreadCreate
    <3>2. \/ QueueNew(ready, t, id) = Append(ready, t)
          \/ QueueNew(ready, t, id) = ready /\ ~FreshIds
      BY <3>1 DEF QueueNew, FreshIds
    <3> QED
      BY <2>1, <3>1, <3>2
  <2>2. CASE ~start
    BY <2>2 DEF ThreadCreate
  <2> QED
    BY <2>1, <2>2
<1>2. /\ t \notin created /\ created' = created \cup {t}
      /\ started' = IF start THEN started \cup {t} ELSE started
      /\ UNCHANGED <<finished, blocked, sleeping, semVars, sleepVars>>
  BY DEF ThreadCreate
<1>3. /\ ready \in Seq(Thread) /\ IsInjective(ready) /\ t \notin ToSet(ready)
      /\ t # running /\ t \notin blocked \cup sleeping
  BY <1>2, KernelAssumption
     DEF IInv, RunPart, StartedPart, ThreadPart, KernelAssumption
<1>4. /\ Append(ready, t) \in Seq(Thread) /\ IsInjective(Append(ready, t))
      /\ ToSet(Append(ready, t)) = ToSet(ready) \cup {t}
  BY <1>3, AppendList
<1>5. SemPart' /\ ThreadPart'
  BY <1>2, SemUnchanged DEF IInv, ThreadPart
<1>6. /\ q \in Seq(Thread) /\ IsInjective(q)
      /\ ToSet(ready) \subseteq ToSet(q)
      /\ ToSet(q) \subseteq ToSet(ready) \cup {t}
      /\ ToSet(q) \subseteq started' /\ started \subseteq started'
  BY <1>1, <1>2, <1>3, <1>4 DEF IInv, StartedPart
<1>7. /\ running \notin ToSet(q)
      /\ ToSet(q) \cap (blocked' \cup sleeping) = {}
      /\ blocked' \subseteq blocked /\ UNCHANGED <<sleeping, sleepVars>>
  BY <1>2, <1>3, <1>6 DEF IInv, RunPart
<1>8. /\ IInv'
      /\ started' \ finished'
            \subseteq ToSet(q) \cup {running} \cup blocked' \cup sleeping
           => NoThreadLost'
  BY <1>1, <1>5, <1>6, <1>7, TrailingStep
<1>9. FreshIds /\ NoThreadLost =>
        started' \ finished' \subseteq ToSet(q) \cup {running} \cup blocked' \cup sleeping
  BY <1>1, <1>2, <1>4, <1>6 DEF NoThreadLost
<1> QED
  BY <1>8, <1>9

LEMMA ThreadStartStep ==
  ASSUME IInv, NEW t \in Thread, ThreadStart(t)
  PROVE  IInv' /\ (NoThreadLost => NoThreadLost')
<1> DEFINE q == Append(ready, t)
<1>1. /\ t \in created \ started /\ started' = started \cup {t}
      /\ UNCHANGED <<created, finished, blocked, sleeping, semVars, sleepVars>>
      /\ TrailingDispatch(q)
  BY KernelAssumption DEF ThreadStart, Put, KernelAssumption
<1>2. /\ ready \in Seq(Thread) /\ IsInjective(ready) /\ t \notin ToSet(ready)
      /\ t # running /\ t \notin blocked \cup sleeping
  BY <1>1, KernelAssumption
     DEF IInv, RunPart, StartedPart, ThreadPart, KernelAssumption
<1>3. q \in Seq(Thread) /\ IsInjective(q) /\ ToSet(q) = ToSet(ready) \cup {t}
  BY <1>2, AppendList
<1> HIDE DEF q
<1>4. SemPart' /\ ThreadPart'
  BY <1>1, SemUnchanged DEF IInv, ThreadPart
<1>5. /\ running \notin ToSet(q)
      /\ ToSet(q) \cap (blocked' \cup sleeping) = {}
      /\ blocked' \subseteq blocked /\ UNCHANGED <<sleeping, sleepVars>>
      /\ ToSet(q) \subseteq started' /\ started \subseteq started'
  BY <1>1, <1>2, <1>3 DEF IInv, RunPart, StartedPart
<1>6. /\ IInv'
      /\ started' \ finished'
            \subseteq ToSet(q) \cup {running} \cup blocked' \cup sleeping
           => NoThreadLost'
  BY <1>1, <1>3, <1>4, <1>5, TrailingStep
<1>7. NoThreadLost => started' \ finished'
            \subseteq ToSet(q) \cup {running} \cup blocked' \cup sleeping
  BY <1>1, <1>3 DEF NoThreadLost
<1> QED
  BY <1>6, <1>7

LEMMA ThreadExitStep ==
  ASSUME IInv, ThreadExit
  PROVE  IInv' /\ (NoThreadLost => NoThreadLost')
<1>1. /\ finished' = finished \cup {running} /\ running \in Thread
      /\ UNCHANGED <<created, started, blocked, sleeping, semVars, sleepVars>>
      /\ TrailingDispatch(ready)
  BY DEF ThreadExit, IInv, RunPart
<1>2. SemPart' /\ ThreadPart'
  BY <1>1, SemUnchanged DEF IInv, ThreadPart
<1>3. /\ ready \in Seq(Thread) /\ IsInjective(ready) /\ running \notin ToSet(ready)
      /\ UNCHANGED <<sleeping, sleepVars>>
      /\ blocked' \subseteq blocked /\ started \subseteq started'
      /\ ToSet(ready) \cap (blocked' \cup sleeping) = {}
      /\ ToSet(ready) \subseteq started'
  BY <1>1 DEF IInv, RunPart, StartedPart
<1>4. /\ IInv'
      /\ started' \ finished'
            \subseteq ToSet(ready) \cup {running} \cup blocked' \cup sleeping
           => NoThreadLost'
  BY <1>1, <1>2, <1>3, TrailingStep
<1>5. NoThreadLost => started' \ finished'
            \subseteq ToSet(ready) \cup {running} \cup blocked' \cup sleeping
  BY <1>1 DEF NoThreadLost
<1> QED
  BY <1>4, <1>5

LEMMA SemOpenKeeps ==
  ASSUME IInv, NEW s \in Sem, NEW init \in 0..MaxInit, SemOpen(s, init)
  PROVE  IInv' /\ (NoThreadLost => NoThreadLost')
<1>1. /\ UNCHANGED <<created, started, finished, blocked, sleeping, sleepVars>>
      /\ TrailingDispatch(ready)
  BY DEF SemOpen, threadVars
<1>2. SemPart' /\ ThreadPart'
  BY <1>1, SemOpenStep DEF IInv, ThreadPart
<1>3. /\ ready \in Seq(Thread) /\ IsInjective(ready) /\ running \notin ToSet(ready)
      /\ UNCHANGED <<sleeping, sleepVars>>
      /\ blocked' \subseteq blocked /\ started \subseteq started'
      /\ ToSet(ready) \cap (blocked' \cup sleeping) = {}
      /\ ToSet(ready) \subseteq started'
  BY <1>1 DEF IInv, RunPart, StartedPart
<1>4. /\ IInv'
      /\ started' \ finished'
            \subseteq ToSet(ready) \cup {running} \cup blocked' \cup sleeping
           => NoThreadLost'
  BY <1>1, <1>2, <1>3, TrailingStep
<1>5. NoThreadLost => started' \ finished'
            \subseteq ToSet(ready) \cup {running} \cup blocked' \cup sleeping
  BY <1>1 DEF NoThreadLost
<1> QED
  BY <1>4, <1>5

LEMMA SemCloseKeeps ==
  ASSUME IInv, NEW s \in Sem, SemClose(s)
  PROVE  IInv' /\ (NoThreadLost => NoThreadLost')
<1> DEFINE q == ready \o waiters[s]
<1>1. SemPart' /\ blocked' = blocked \ ToSet(waiters[s])
  BY SemCloseStep DEF IInv
<1>2. WokenByClose(s) = waiters[s]
  BY CloseWakesAll DEF IInv, SemClose
<1>3. /\ UNCHANGED <<created, started, finished, sleeping, sleepVars>>
      /\ TrailingDispatch(q)
  BY <1>2 DEF SemClose, threadVars
<1>4. ThreadPart'
  BY <1>3 DEF IInv, ThreadPart
<1>5. /\ ready \in Seq(Thread) /\ IsInjective(ready)
      /\ waiters[s] \in Seq(Thread) /\ IsInjective(waiters[s])
      /\ ToSet(waiters[s]) \subseteq blocked
      /\ ToSet(ready) \cap ToSet(waiters[s]) = {}
  BY WaitersLen DEF IInv, RunPart, SemPart, WaitLists
<1>6. /\ q \in Seq(Thread) /\ IsInjective(q)
      /\ ToSet(q) = ToSet(ready) \cup ToSet(waiters[s])
  BY <1>5, ConcatList
<1> HIDE DEF q
<1>7. /\ running \notin ToSet(q)
      /\ UNCHANGED <<sleeping, sleepVars>>
      /\ blocked' \subseteq blocked /\ started \subseteq started'
      /\ ToSet(q) \cap (blocked' \cup sleeping) = {}
      /\ ToSet(q) \subseteq started'
  BY <1>1, <1>3, <1>5, <1>6 DEF IInv, RunPart, StartedPart
<1>8. /\ IInv'
      /\ started' \ finished'
            \subseteq ToSet(q) \cup {running} \cup blocked' \cup sleeping
           => NoThreadLost'
  BY <1>1, <1>3, <1>4, <1>6, <1>7, TrailingStep
<1>9. NoThreadLost => started' \ finished'
            \subseteq ToSet(q) \cup {running} \cup blocked' \cup sleeping
  BY <1>1, <1>3, <1>6 DEF NoThreadLost
<1> QED
  BY <1>8, <1>9

LEMMA SemWaitKeeps ==
  ASSUME IInv, NEW s \in Sem, SemWait(s)
  PROVE  IInv' /\ (NoThreadLost => NoThreadLost')
<1>1. /\ UNCHANGED <<created, started, finished, sleeping, timeSliceCounter, sleepVars>>
      /\ running \in Thread
  BY DEF SemWait, threadVars, IInv, RunPart
<1>2. /\ SemPart'
      /\ \/ blocked' = blocked \cup {running} /\ Dispatch(ready)
         \/ blocked' = blocked /\ UNCHANGED <<running, ready>>
  BY <1>1, SemWaitStep DEF IInv, RunPart
<1>3. ThreadPart' /\ SleepPart' /\ CounterPart'
  BY <1>1 DEF IInv, ThreadPart, SleepPart, CounterPart, sleepVars
<1>4. Switched(ready)
  <2>1. /\ ready \in Seq(Thread) /\ IsInjective(ready)
        /\ running \in Thread \cup {Idle} /\ running \notin ToSet(ready)
    BY DEF IInv, RunPart
  <2>2. CASE Dispatch(ready)
    BY <2>1, <2>2, DispatchSwitches
  <2>3. CASE blocked' = blocked /\ UNCHANGED <<running, ready>>
    <3>1. running \notin blocked' \cup sleeping'
      BY <1>1, <2>3 DEF IInv, RunPart
    <3> QED
      BY <2>1, <2>3, <3>1, StaySwitches
  <2> QED
    BY <1>2, <2>2, <2>3
<1>5. /\ ready \in Seq(Thread)
      /\ blocked' \cap sleeping' = {}
      /\ ToSet(ready) \cap (blocked' \cup sleeping') = {}
      /\ ToSet(ready) \cup blocked' \cup sleeping' \cup ({running} \ {Idle})
           \subseteq started'
  <2>1. /\ blocked' \subseteq blocked \cup {running}
        /\ sleeping' = sleeping /\ started' = started
    BY <1>1, <1>2
  <2>2. running \in started
    BY <1>1, KernelAssumption DEF IInv, StartedPart, KernelAssumption
  <2>3. blocked' \cap sleeping' = {} /\ ToSet(ready) \cap (blocked' \cup sleeping') = {}
    BY <2>1 DEF IInv, RunPart
  <2> QED
    BY <2>1, <2>2, <2>3 DEF IInv, RunPart, StartedPart
<1>6. NoThreadLost => started' \ finished'
            \subseteq ToSet(ready) \cup {running} \cup blocked' \cup sleeping'
  BY <1>1, <1>2 DEF NoThreadLost
<1> QED
  BY <1>2, <1>3, <1>4, <1>5, <1>6, StepOf

LEMMA SemSignalKeeps ==
  ASSUME IInv, NEW s \in Sem, SemSignal(s)
  PROVE  IInv' /\ (NoThreadLost => NoThreadLost')
<1> DEFINE q == ready'
<1>1. /\ UNCHANGED <<running, created, started, finished, sleeping,
                     timeSliceCounter, sleepVars>>
      /\ running \in Thread
  BY DEF SemSignal, threadVars, IInv, RunPart
<1>2. /\ SemPart'
      /\ \/ \E t \in blocked : blocked' = blocked \ {t} /\ ready' = Append(ready, t)
         \/ blocked' = blocked /\ ready' = ready
  BY SemSignalStep DEF IInv
<1>3. ThreadPart' /\ SleepPart' /\ CounterPart'
  BY <1>1 DEF IInv, ThreadPart, SleepPart, CounterPart, sleepVars
<1>4. /\ q \in Seq(Thread) /\ IsInjective(q)
      /\ blocked' \subseteq blocked
      /\ ToSet(q) \cap blocked' = {}
      /\ ToSet(q) \cup blocked' = ToSet(ready) \cup blocked
  <2>1. CASE blocked' = blocked /\ ready' = ready
    BY <2>1 DEF IInv, RunPart
  <2>2. CASE \E t \in blocked : blocked' = blocked \ {t} /\ ready' = Append(ready, t)
    <3>1. PICK t \in blocked : blocked' = blocked \ {t} /\ ready' = Append(ready, t)
      BY <2>2
    <3>2. t \in Thread /\ t \notin ToSet(ready) /\ ready \in Seq(Thread) /\ IsInjective(ready)
      BY DEF IInv, RunPart, SemPart, WaitLists
    <3>3. /\ ready' \in Seq(Thread) /\ IsInjective(ready')
          /\ ToSet(ready') = ToSet(ready) \cup {t}
      BY <3>1, <3>2, AppendList
    <3> QED
      BY <3>1, <3>2, <3>3 DEF IInv, RunPart
  <2> QED
    BY <1>2, <2>1, <2>2
<1>5. /\ running \notin ToSet(q)
      /\ running \notin blocked' \cup sleeping'
      /\ blocked' \cap sleeping' = {}
      /\ ToSet(q) \cap (blocked' \cup sleeping') = {}
      /\ ToSet(q) \cup blocked' \cup sleeping' \cup ({running} \ {Idle})
           \subseteq started'
  <2>1. sleeping' = sleeping /\ started' = started
    BY <1>1
  <2>2. ToSet(q) \subseteq ToSet(ready) \cup blocked
    BY <1>4
  <2>3. running \notin ToSet(q) /\ ToSet(q) \cap sleeping = {}
    BY <2>2 DEF IInv, RunPart
  <2> QED
    BY <1>4, <2>1, <2>2, <2>3 DEF IInv, RunPart, StartedPart
<1>6. Switched(q)
  <2>1. running \in Thread \cup {Idle} /\ running' = running
    BY <1>1
  <2> QED
    BY <1>4, <1>5, <2>1, StaySwitches
<1>7. NoThreadLost => started' \ finished'
            \subseteq ToSet(q) \cup {running} \cup blocked' \cup sleeping'
  BY <1>1, <1>4 DEF NoThreadLost
<1> QED
  BY <1>2, <1>3, <1>4, <1>5, <1>6, <1>7, StepOf

LEMMA TimeSleepKeeps ==
  ASSUME IInv, NEW t \in 1..MaxSleep, TimeSleep(t)
  PROVE  IInv' /\ (NoThreadLost => NoThreadLost')
<1>1. /\ UNCHANGED <<created, started, finished, blocked, semVars, timeSliceCounter>>
      /\ running \in Thread /\ Dispatch(ready)
  BY DEF TimeSleep, threadVars, IInv, RunPart
<1>2. SleepPart' /\ sleeping' = sleeping \cup {running}
  BY <1>1, TimeSleepStep DEF IInv, RunPart
<1>3. SemPart' /\ ThreadPart' /\ CounterPart'
  BY <1>1, SemUnchanged DEF IInv, ThreadPart, CounterPart
<1>4. Switched(ready)
  BY <1>1, DispatchSwitches DEF IInv, RunPart
<1>5. /\ ready \in Seq(Thread)
      /\ blocked' \cap sleeping' = {}
      /\ ToSet(ready) \cap (blocked' \cup sleeping') = {}
  BY <1>1, <1>2 DEF IInv, RunPart
<1>6. ToSet(ready) \cup blocked' \cup sleeping' \cup ({running} \ {Idle})
        \subseteq started'
  <2>1. running \in started
    BY <1>1, KernelAssumption DEF IInv, StartedPart, KernelAssumption
  <2> QED
    BY <1>1, <1>2, <2>1 DEF IInv, StartedPart
<1>7. NoThreadLost => started' \ finished'
            \subseteq ToSet(ready) \cup {running} \cup blocked' \cup sleeping'
  BY <1>1, <1>2 DEF NoThreadLost
<1> QED
  BY <1>2, <1>3, <1>4, <1>5, <1>6, <1>7, StepOf

LEMMA TickKeeps ==
  ASSUME IInv, Tick
  PROVE  IInv' /\ (NoThreadLost => NoThreadLost')
<1> DEFINE q == ready \o Woken
<1>1. /\ SleepPart'
      /\ Woken \in Seq(Thread) /\ IsInjective(Woken)
      /\ ToSet(Woken) \subseteq sleeping
      /\ sleeping' = sleeping \ ToSet(Woken)
  BY TickStep DEF IInv
<1>2. UNCHANGED <<created, started, finished, blocked, semVars>>
  BY DEF Tick, threadVars
<1>3. SemPart' /\ ThreadPart'
  BY <1>2, SemUnchanged DEF IInv, ThreadPart
<1>4. /\ ready \in Seq(Thread) /\ IsInjective(ready)
      /\ ToSet(ready) \cap ToSet(Woken) = {}
  BY <1>1 DEF IInv, RunPart
<1>5. /\ q \in Seq(Thread) /\ IsInjective(q)
      /\ ToSet(q) = ToSet(ready) \cup ToSet(Woken)
  BY <1>1, <1>4, ConcatList
<1>6. \/ timeSliceCounter' = 0 /\ Dispatch(q)
      \/ timeSliceCounter' = 0 /\ ready' = q /\ running' = running
      \/ /\ timeSliceCounter + 1 < TimeSlice /\ timeSliceCounter' = timeSliceCounter + 1
         /\ ready' = q /\ running' = running
  BY DEF Tick
<1> HIDE DEF q
<1>7. CounterPart'
  BY <1>6, KernelAssumption, SMT DEF IInv, CounterPart, KernelAssumption
<1>8. /\ running \in Thread \cup {Idle} /\ running \notin ToSet(q)
      /\ running \notin blocked' \cup sleeping'
      /\ blocked' \cap sleeping' = {}
      /\ ToSet(q) \cap (blocked' \cup sleeping') = {}
      /\ ToSet(q) \cup blocked' \cup sleeping' \cup ({running} \ {Idle})
           \subseteq started'
  BY <1>1, <1>2, <1>5 DEF IInv, RunPart, StartedPart
<1>9. Switched(q)
  BY <1>5, <1>6, <1>8, DispatchSwitches, StaySwitches
<1>10. NoThreadLost => started' \ finished'
            \subseteq ToSet(q) \cup {running} \cup blocked' \cup sleeping'
  BY <1>1, <1>2, <1>5 DEF NoThreadLost
<1> QED
  BY <1>1, <1>3, <1>5, <1>7, <1>8, <1>9, <1>10, StepOf

-------------------------------------------------------------------------------
LEMMA InitStep ==
  ASSUME Init
  PROVE  IInv /\ NoThreadLost
<1>1. ToSet(<<>>) = {} /\ IsInjective(<<>>) /\ <<>> \in Seq(Thread) /\ Len(<<>>) = 0
  BY EmptyList, EmptySeq
<1>2. Main \in Thread /\ Main # Idle
  BY KernelAssumption DEF KernelAssumption
<1>3. SemPart
  <2>1. \A s \in Sem : waiters[s] = <<>> /\ val[s] = 0
    BY DEF Init
  <2>2. val \in [Sem -> Int] /\ waiters \in [Sem -> Seq(Thread)]
    BY <1>1 DEF Init
  <2>3. ASSUME NEW t PROVE t \in blocked <=> \E s \in Sem : t \in ToSet(waiters[s])
    BY <1>1, <2>1 DEF Init
  <2>4. blocked = UNION {ToSet(waiters[s]) : s \in Sem}
    BY <2>3
  <2>5. open = {} /\ blocked = {}
    BY DEF Init
  <2>6. ValueCountsWaiters
    BY <2>1, <2>5 DEF ValueCountsWaiters
  <2>7. WaitLists
    BY <1>1, <2>1, <2>2, <2>4, <2>5 DEF WaitLists
  <2> QED
    BY <2>2, <2>5, <2>6, <2>7 DEF SemPart
<1>4. SleepPart
  BY <1>1 DEF Init, SleepInit, SleepPart
<1>5. ThreadPart /\ NoThreadLost
  BY <1>2 DEF Init, ThreadPart, NoThreadLost
<1>6. RunPart /\ StartedPart
  BY <1>1, <1>2 DEF Init, RunPart, StartedPart
<1>7. CounterPart
  BY KernelAssumption, SMT DEF Init, CounterPart, KernelAssumption
<1> QED
  BY <1>3, <1>4, <1>5, <1>6, <1>7 DEF IInv

LEMMA NextStep ==
  ASSUME IInv, [Next]_vars
  PROVE  IInv' /\ (FreshIds /\ NoThreadLost => NoThreadLost')
<1>1. CASE ThreadDispatch
  BY <1>1, ThreadDispatchStep
<1>2. CASE \E t \in Thread, start \in BOOLEAN : ThreadCreate(t, start)
  BY <1>2, ThreadCreateStep
<1>3. CASE \E t \in Thread : ThreadStart(t)
  BY <1>3, ThreadStartStep
<1>4. CASE ThreadExit
  BY <1>4, ThreadExitStep
<1>5. CASE \E s \in Sem, init \in 0..MaxInit : SemOpen(s, init)
  BY <1>5, SemOpenKeeps
<1>6. CASE \E s \in Sem : SemClose(s) \/ SemWait(s) \/ SemSignal(s)
  BY <1>6, SemCloseKeeps, SemWaitKeeps, SemSignalKeeps
<1>7. CASE \E t \in 1..MaxSleep : TimeSleep(t)
  BY <1>7, TimeSleepKeeps
<1>8. CASE Tick
  BY <1>8, TickKeeps
<1>9. CASE UNCHANGED vars
  <2>1. UNCHANGED <<running, ready, created, started, finished, blocked, sleeping,
                    open, val, waiters, timeSliceCounter, sleepList>>
    BY <1>9 DEF vars, threadVars, semVars, sleepVars
  <2>2. SemPart' /\ SleepPart' /\ ThreadPart'
    BY <2>1 DEF IInv, SemPart, WaitLists, ValueCountsWaiters, SleepPart, ThreadPart
  <2>3. RunPart' /\ StartedPart' /\ CounterPart'
    BY <2>1 DEF IInv, RunPart, StartedPart, CounterPart
  <2>4. NoThreadLost => NoThreadLost'
    BY <2>1 DEF NoThreadLost
  <2> QED
    BY <2>2, <2>3, <2>4 DEF IInv
<1> QED
  BY <1>1, <1>2, <1>3, <1>4, <1>5, <1>6, <1>7, <1>8, <1>9 DEF Next

(* The inductive invariant holds in every reachable state of the scheduler, *)
(* the TCBs and the semaphores.                                             *)
THEOREM Inductive == Spec => []IInv
<1>1. Init => IInv
  BY InitStep
<1>2. IInv /\ [Next]_vars => IInv'
  BY NextStep
<1> QED
  BY <1>1, <1>2, PTL DEF Spec

(* No TCB is ever linked into two of the intrusive lists, twice into one,   *)
(* or runs while it is linked.                                              *)
THEOREM PlacesApart == Spec => []OnePlace
<1>1. IInv => OnePlace
  BY DEF IInv, SemPart, WaitLists, SleepPart, RunPart, OnePlace
<1> QED
  BY <1>1, Inductive, PTL

(* The value of every open semaphore counts the threads waiting on it, for  *)
(* any mix of wait, signal, close and reuse of the memory.                  *)
THEOREM SemaphoresCount == Spec => []ValueCountsWaiters
<1>1. IInv => ValueCountsWaiters
  BY DEF IInv, SemPart
<1> QED
  BY <1>1, Inductive, PTL

(* If no fresh TCB is mistaken for the idle thread, every started thread    *)
(* that has not exited stays within reach of the scheduler.                 *)
THEOREM ThreadsKept == FreshIds => (Spec => []NoThreadLost)
<1> SUFFICES ASSUME FreshIds
             PROVE  Spec => []NoThreadLost
  OBVIOUS
<1>1. Init => IInv /\ NoThreadLost
  BY InitStep
<1>2. (IInv /\ NoThreadLost) /\ [Next]_vars => (IInv /\ NoThreadLost)'
  BY NextStep
<1> QED
  BY <1>1, <1>2, PTL DEF Spec

-------------------------------------------------------------------------------
(* The list of sleeping threads: the differences kept in sleepLeft never go *)
(* below zero and add up to one countdown per thread.                       *)

(* Two functions on 0..n that begin alike and grow alike are alike. *)
GrowAlike(a, b, n) ==
  /\ a[0] = b[0]
  /\ \A k \in 0..n : a[k] \in Int /\ b[k] \in Int
  /\ \A k \in 1..n : a[k] - a[k - 1] = b[k] - b[k - 1]

LEMMA SameDifferences ==
  ASSUME NEW n \in Nat, NEW a, NEW b, GrowAlike(a, b, n)
  PROVE  \A k \in 0..n : a[k] = b[k]
<1> DEFINE Bad == {k \in 0..n : a[k] # b[k]}
<1>1. SUFFICES ASSUME Bad # {} PROVE FALSE
  OBVIOUS
<1>2. Bad \in SUBSET Nat
  OBVIOUS
<1>3. Min(Bad) \in Bad /\ \A k \in Bad : Min(Bad) <= k
  BY <1>1, <1>2, MinOfNats
<1> DEFINE m == Min(Bad)
<1>4. m \in 0..n /\ a[m] # b[m]
  BY <1>3
<1>5. \A k \in 0..n : k \in Bad => m <= k
  BY <1>3
<1> HIDE DEF m
<1>6. \A k \in 0..n : k < m => a[k] = b[k]
  BY <1>4, <1>5
<1> HIDE DEF Bad
<1>7. m # 0
  BY <1>4 DEF GrowAlike
<1>8. m \in 1..n /\ m - 1 \in 0..n /\ m - 1 < m
  BY <1>4, <1>7
<1>9. a[m - 1] = b[m - 1] /\ a[m] - a[m - 1] = b[m] - b[m - 1]
  BY <1>6, <1>8 DEF GrowAlike
<1>10. a[m] \in Int /\ b[m] \in Int /\ a[m - 1] \in Int /\ b[m - 1] \in Int
  BY <1>4, <1>8 DEF GrowAlike
<1> QED
  BY <1>4, <1>9, <1>10

(* The times along a list q whose threads have `left`. *)
DueOf(q, left) ==
  LET due[k \in 0..Len(q)] == IF k = 0 THEN 0 ELSE due[k - 1] + left[q[k]]
  IN  due

SumsTo(q, left, n) ==
  {g \in [0..n -> Nat] : g[0] = 0 /\ \A k \in 1..n : g[k] = g[k - 1] + left[q[k]]}

(* There are such times for every front part of the list. *)
LEMMA SumsExist ==
  ASSUME NEW q \in Seq(Thread), NEW left \in [Thread -> Nat]
  PROVE  \A n \in 0..Len(q) : SumsTo(q, left, n) # {}
<1> DEFINE Bad == {n \in 0..Len(q) : SumsTo(q, left, n) = {}}
<1>1. SUFFICES ASSUME Bad # {} PROVE FALSE
  OBVIOUS
<1>2. Len(q) \in Nat
  BY LenProperties
<1>3. Bad \in SUBSET Nat
  BY <1>2
<1>4. Min(Bad) \in Bad /\ \A k \in Bad : Min(Bad) <= k
  BY <1>1, <1>3, MinOfNats
<1> DEFINE m == Min(Bad)
<1>5. m \in 0..Len(q) /\ SumsTo(q, left, m) = {}
  BY <1>4
<1>6. \A n \in 0..Len(q) : n \in Bad => m <= n
  BY <1>4
<1> HIDE DEF m
<1>7. \A n \in 0..Len(q) : n < m => SumsTo(q, left, n) # {}
  BY <1>2, <1>5, <1>6
<1> HIDE DEF Bad
<1>8. CASE m = 0
  <2> DEFINE g == [k \in 0..0 |-> 0]
  <2>1. g \in [0..0 -> Nat] /\ g[0] = 0
    OBVIOUS
  <2>2. \A k \in 1..0 : FALSE
    OBVIOUS
  <2> HIDE DEF g
  <2>3. g \in SumsTo(q, left, 0)
    BY <2>1, <2>2 DEF SumsTo
  <2> QED
    BY <1>5, <1>8, <2>3
<1>9. CASE m # 0
  <2>1. m - 1 \in 0..Len(q) /\ m - 1 < m /\ m \in 1..Len(q) /\ m \in Nat /\ m - 1 \in Nat
    BY <1>2, <1>5, <1>9
  <2>2. PICK g \in SumsTo(q, left, m - 1) : TRUE
    BY <1>7, <2>1
  <2>3. /\ g \in [0..(m - 1) -> Nat] /\ g[0] = 0
        /\ \A k \in 1..(m - 1) : g[k] = g[k - 1] + left[q[k]]
    BY <2>2 DEF SumsTo
  <2>4. left[q[m]] \in Nat
    <3>1. q[m] \in Thread
      BY <2>1, ElementOfSeq
    <3> QED
      BY <3>1
  <2> DEFINE last == g[m - 1] + left[q[m]]
             h == [k \in 0..m |-> IF k = m THEN last ELSE g[k]]
  <2>5. last \in Nat
    <3>1. g[m - 1] \in Nat
      BY <2>1, <2>3
    <3> QED
      BY <2>4, <3>1
  <2>6. h[m] = last /\ \A k \in 0..(m - 1) : h[k] = g[k]
    BY <2>1
  <2>7. h \in [0..m -> Nat]
    <3>1. \A k \in 0..m : k # m => k \in 0..(m - 1)
      BY <2>1
    <3> HIDE DEF last
    <3> QED
      BY <2>3, <2>5, <3>1
  <2> HIDE DEF h
  <2>8. h[0] = 0
    BY <2>1, <2>3, <2>6
  <2>9. ASSUME NEW k \in 1..m PROVE h[k] = h[k - 1] + left[q[k]]
    <3>1. k - 1 \in 0..(m - 1)
      BY <2>1
    <3>2. CASE k = m
      BY <2>6, <3>1, <3>2
    <3>3. CASE k # m
      <4>1. k \in 1..(m - 1) /\ k \in 0..(m - 1)
        BY <2>1, <3>3
      <4> QED
        BY <2>3, <2>6, <3>1, <4>1
    <3> QED
      BY <3>2, <3>3
  <2>10. h \in SumsTo(q, left, m)
    BY <2>7, <2>8, <2>9 DEF SumsTo
  <2> QED
    BY <1>5, <2>10
<1> QED
  BY <1>8, <1>9

(* The times along the list are the sums of what its threads have left. *)
LEMMA DueOfIs ==
  ASSUME NEW q \in Seq(Thread), NEW left \in [Thread -> Nat]
  PROVE  /\ DueOf(q, left) \in [0..Len(q) -> Nat] /\ DueOf(q, left)[0] = 0
         /\ \A k \in 1..Len(q) :
              /\ left[q[k]] \in Nat
              /\ DueOf(q, left)[k] = DueOf(q, left)[k - 1] + left[q[k]]
<1>1. Len(q) \in Nat
  BY LenProperties
<1>2. PICK g \in SumsTo(q, left, Len(q)) : TRUE
  BY <1>1, SumsExist
<1>3. /\ g \in [0..Len(q) -> Nat] /\ g[0] = 0
      /\ \A k \in 1..Len(q) : g[k] = g[k - 1] + left[q[k]]
  BY <1>2 DEF SumsTo
<1>4. g = [k \in 0..Len(q) |-> IF k = 0 THEN 0 ELSE g[k - 1] + left[q[k]]]
  <2>1. \A k \in 0..Len(q) : k # 0 => k \in 1..Len(q)
    BY <1>1
  <2> QED
    BY <1>3, <2>1
<1> DEFINE d == DueOf(q, left)
<1>5. d = [k \in 0..Len(q) |-> IF k = 0 THEN 0 ELSE d[k - 1] + left[q[k]]]
  BY <1>4 DEF DueOf
<1> HIDE DEF d
<1>6. d[0] = 0 /\ \A k \in 1..Len(q) : d[k] = d[k - 1] + left[q[k]]
  <2>1. 0 \in 0..Len(q) /\ \A k \in 1..Len(q) : k \in 0..Len(q) /\ k # 0
    BY <1>1
  <2> QED
    BY <1>5, <2>1
<1>7. \A k \in 1..Len(q) : left[q[k]] \in Nat
  BY ElementOfSeq
<1>8. \A k \in 0..Len(q) : d[k] = g[k]
  <2> DEFINE Bad == {k \in 0..Len(q) : d[k] # g[k]}
  <2>1. SUFFICES ASSUME Bad # {} PROVE FALSE
    OBVIOUS
  <2>2. Bad \in SUBSET Nat
    BY <1>1
  <2>3. Min(Bad) \in Bad /\ \A k \in Bad : Min(Bad) <= k
    BY <2>1, <2>2, MinOfNats
  <2> DEFINE m == Min(Bad)
  <2>4. m \in 0..Len(q) /\ d[m] # g[m]
    BY <2>3
  <2>5. \A k \in 0..Len(q) : k \in Bad => m <= k
    BY <2>3
  <2> HIDE DEF m
  <2>6. \A k \in 0..Len(q) : k < m => d[k] = g[k]
    BY <1>1, <2>4, <2>5
  <2> HIDE DEF Bad
  <2>7. m # 0
    BY <1>3, <1>6, <2>4
  <2>8. m \in 1..Len(q) /\ m - 1 \in 0..Len(q) /\ m - 1 < m
    BY <1>1, <2>4, <2>7
  <2> QED
    BY <1>3, <1>6, <2>4, <2>6, <2>8
<1>9. d \in [0..Len(q) -> Nat]
  <2>1. \A k \in 0..Len(q) : d[k] \in Nat
    BY <1>3, <1>8
  <2> QED
    BY <1>5, <2>1
<1> QED
  BY <1>6, <1>7, <1>9 DEF d

(* So do those of the kernel's list, now and after a step. *)
LEMMA DueIs ==
  /\ Due = DueOf(sleepList, sleepLeft)
  /\ Due' = DueOf(sleepList', sleepLeft')
<1>1. Due = DueOf(sleepList, sleepLeft)
  BY DEF Due, DueOf
<1>2. Due' = DueOf(sleepList', sleepLeft')
  BY DEF Due, DueOf
<1> QED
  BY <1>1, <1>2

(* The list r is s with e behind the first n elements. *)
Inserted(r, s, n, e) ==
  /\ Len(r) = Len(s) + 1
  /\ \A k \in 1..n : r[k] = s[k]
  /\ r[n + 1] = e
  /\ \A k \in (n + 1)..Len(s) : r[k + 1] = s[k]

(* What is found where once an element is inserted into a list. *)
LEMMA InsertPlaces ==
  ASSUME NEW S, NEW s \in Seq(S), NEW n \in 0..Len(s), NEW e \in S,
         NEW r, r = InsertAt(s, n + 1, e)
  PROVE  r \in Seq(S) /\ Inserted(r, s, n, e)
<1> DEFINE front == SubSeq(s, 1, n)
           back  == SubSeq(s, n + 1, Len(s))
           one   == <<e>>
           ext   == front \o one
           q     == ext \o back
<1>1. /\ Len(s) \in Nat /\ n \in Nat /\ n <= Len(s)
      /\ \A k \in 1..Len(s) : s[k] \in S
  BY LenProperties, ElementOfSeq
<1>2. /\ front \in Seq(S) /\ Len(front) = n
      /\ \A k \in 1..n : front[k] = s[k]
  <2>1. \A k \in 1..n : s[k] \in S
    BY <1>1
  <2>2. \A k \in 1..(n - 1 + 1) : front[k] = s[1 + k - 1]
    BY <1>1, <2>1, SubSeqProperties
  <2>3. \A k \in 1..n : front[k] = s[k]
    BY <1>1, <2>2
  <2> HIDE DEF front
  <2> QED
    BY <2>3, SplitList DEF front
<1>3. /\ back \in Seq(S) /\ Len(back) = Len(s) - n
      /\ \A k \in 1..(Len(s) - n) : back[k] = s[n + k]
  <2>1. \A k \in (n + 1)..Len(s) : s[k] \in S
    BY <1>1
  <2>2. \A k \in 1..(Len(s) - (n + 1) + 1) : back[k] = s[(n + 1) + k - 1]
    BY <1>1, <2>1, SubSeqProperties
  <2>3. \A k \in 1..(Len(s) - n) : back[k] = s[n + k]
    BY <1>1, <2>2
  <2> HIDE DEF back
  <2> QED
    BY <2>3, SplitList DEF back
<1>4. one \in Seq(S) /\ Len(one) = 1 /\ one[1] = e
  OBVIOUS
<1>5. InsertAt(s, n + 1, e) = q
  <2>1. (n + 1) - 1 = n
    BY <1>1
  <2> QED
    BY <2>1 DEF InsertAt
<1> HIDE DEF front, back, one
<1>6. /\ ext \in Seq(S) /\ Len(ext) = n + 1
      /\ \A k \in 1..n : ext[k] = s[k]
      /\ ext[n + 1] = e
  <2>1. /\ ext \in Seq(S) /\ Len(ext) = Len(front) + Len(one)
        /\ \A k \in 1..(Len(front) + Len(one)) :
             ext[k] = IF k <= Len(front) THEN front[k] ELSE one[k - Len(front)]
    BY <1>2, <1>4, ConcatProperties
  <2> HIDE DEF ext
  <2>2. \A k \in 1..(n + 1) : ext[k] = IF k <= n THEN front[k] ELSE one[k - n]
    BY <1>2, <1>4, <2>1
  <2>3. n + 1 \in 1..(n + 1) /\ ~(n + 1 <= n) /\ n + 1 - n = 1
    BY <1>1
  <2>4. \A k \in 1..n : k \in 1..(n + 1) /\ k <= n
    BY <1>1
  <2> QED
    BY <1>2, <1>4, <2>1, <2>2, <2>3, <2>4
<1> HIDE DEF ext
<1>7. /\ q \in Seq(S) /\ Len(q) = Len(ext) + Len(back)
      /\ \A k \in 1..(Len(ext) + Len(back)) :
           q[k] = IF k <= Len(ext) THEN ext[k] ELSE back[k - Len(ext)]
  BY <1>3, <1>6, ConcatProperties
<1> HIDE DEF q
<1>8. Len(q) = Len(s) + 1
  BY <1>1, <1>3, <1>6, <1>7
<1>9. \A k \in 1..(Len(s) + 1) : q[k] = IF k <= n + 1 THEN ext[k] ELSE back[k - (n + 1)]
  BY <1>1, <1>3, <1>6, <1>7
<1>10. \A k \in 1..n : q[k] = s[k]
  BY <1>1, <1>6, <1>9
<1>11. q[n + 1] = e
  BY <1>1, <1>6, <1>9
<1>12. ASSUME NEW k \in (n + 1)..Len(s) PROVE q[k + 1] = s[k]
  <2>1. k + 1 \in 1..(Len(s) + 1) /\ ~(k + 1 <= n + 1) /\ k + 1 - (n + 1) = k - n
    BY <1>1
  <2>2. k - n \in 1..(Len(s) - n) /\ n + (k - n) = k
    BY <1>1
  <2> QED
    BY <1>3, <1>9, <2>1, <2>2
<1> QED
  BY <1>5, <1>7, <1>8, <1>10, <1>11, <1>12 DEF Inserted

(* What is left of a list behind its first n elements. *)
LEMMA BackPlaces ==
  ASSUME NEW S, NEW s \in Seq(S), NEW n \in 0..Len(s)
  PROVE  /\ SubSeq(s, n + 1, Len(s)) \in Seq(S)
         /\ Len(SubSeq(s, n + 1, Len(s))) = Len(s) - n
         /\ \A k \in 1..(Len(s) - n) : SubSeq(s, n + 1, Len(s))[k] = s[n + k]
<1> DEFINE back == SubSeq(s, n + 1, Len(s))
<1>1. /\ Len(s) \in Nat /\ n \in Nat /\ n <= Len(s)
      /\ \A k \in 1..Len(s) : s[k] \in S
  BY LenProperties, ElementOfSeq
<1>2. \A k \in (n + 1)..Len(s) : s[k] \in S
  BY <1>1
<1>3. \A k \in 1..(Len(s) - (n + 1) + 1) : back[k] = s[(n + 1) + k - 1]
  BY <1>1, <1>2, SubSeqProperties
<1>4. \A k \in 1..(Len(s) - n) : back[k] = s[n + k]
  BY <1>1, <1>3
<1> HIDE DEF back
<1>5. back \in Seq(S) /\ Len(back) = Len(s) - n
  BY SplitList DEF back
<1> QED
  BY <1>4, <1>5 DEF back

(* The elements of a list are where they are only once. *)
LEMMA DistinctPlaces ==
  ASSUME NEW S, NEW s \in Seq(S)
  PROVE  /\ \A k \in 1..Len(s) : s[k] \in S /\ s[k] \in ToSet(s)
         /\ \A e \in ToSet(s) : \E k \in 1..Len(s) : s[k] = e
         /\ IsInjective(s) => \A j, k \in 1..Len(s) : s[j] = s[k] => j = k
<1>1. DOMAIN s = 1..Len(s) /\ \A k \in 1..Len(s) : s[k] \in S
  BY LenProperties, ElementOfSeq
<1> QED
  BY <1>1 DEF ToSet, IsInjective

(* The list q2 is q with one thread put behind the first p, which waits     *)
(* `relative` there until it is due at t; the next one's wait is shortened  *)
(* by as much.                                                              *)
PutBetween(q, left, q2, left2, p, t, relative) ==
  /\ Len(q2) = Len(q) + 1
  /\ DueOf(q, left)[p] + relative = t
  /\ \A k \in 1..p : left2[q2[k]] = left[q[k]]
  /\ left2[q2[p + 1]] = relative
  /\ p < Len(q) => left2[q2[p + 2]] + relative = left[q[p + 1]]
  /\ \A k \in (p + 2)..Len(q) : left2[q2[k + 1]] = left[q[k]]

(* The times along q2, compared with those along q. *)
DueAround(d2, d, p, n, t) ==
  /\ \A k \in 0..p : d2[k] = d[k]
  /\ d2[p + 1] = t
  /\ \A k \in (p + 1)..n : d2[k + 1] = d[k]

(* All the others are due when they were. *)
LEMMA TimesAround ==
  ASSUME NEW q \in Seq(Thread), NEW left \in [Thread -> Nat],
         NEW q2 \in Seq(Thread), NEW left2 \in [Thread -> Nat],
         NEW p \in 0..Len(q), NEW t \in Nat, NEW relative \in Nat,
         PutBetween(q, left, q2, left2, p, t, relative)
  PROVE  DueAround(DueOf(q2, left2), DueOf(q, left), p, Len(q), t)
<1> DEFINE d  == DueOf(q, left)
           d2 == DueOf(q2, left2)
           n  == Len(q) + 1
           b(k) == IF k <= p THEN d[k] ELSE IF k = p + 1 THEN t ELSE d[k - 1]
           times == [k \in 0..n |-> b(k)]
<1>1. Len(q) \in Nat /\ p \in Nat /\ p <= Len(q)
  BY LenProperties
<1>2. /\ d \in [0..Len(q) -> Nat] /\ d[0] = 0
      /\ \A k \in 1..Len(q) : left[q[k]] \in Nat /\ d[k] = d[k - 1] + left[q[k]]
  BY DueOfIs
<1>3. /\ d2 \in [0..n -> Nat] /\ d2[0] = 0
      /\ \A k \in 1..n : left2[q2[k]] \in Nat /\ d2[k] = d2[k - 1] + left2[q2[k]]
  BY DueOfIs DEF PutBetween
<1>4. d[p] + relative = t
  BY DEF PutBetween
<1> HIDE DEF d, d2
<1>5. \A k \in 0..Len(q) : d[k] \in Nat
  BY <1>2
<1>6. ASSUME NEW k \in 1..n
      PROVE  b(k) = b(k - 1) + left2[q2[k]]
  <2>1. CASE k <= p
    <3>1. k \in 1..p /\ k \in 1..Len(q) /\ k - 1 <= p
      BY <1>1, <2>1
    <3>2. d[k] = d[k - 1] + left2[q2[k]]
      BY <1>2, <3>1 DEF PutBetween
    <3>3. b(k) = d[k] /\ b(k - 1) = d[k - 1]
      BY <2>1, <3>1
    <3> HIDE DEF b
    <3> QED
      BY <3>2, <3>3
  <2>2. CASE k = p + 1
    <3>1. b(k) = t /\ b(k - 1) = d[p]
      BY <1>1, <2>2
    <3> HIDE DEF b
    <3>2. left2[q2[k]] = relative
      BY <2>2 DEF PutBetween
    <3> QED
      BY <1>4, <3>1, <3>2
  <2>3. CASE k = p + 2
    <3>1. p + 1 \in 1..Len(q) /\ p \in 0..Len(q) /\ p + 1 \in 0..Len(q) /\ p < Len(q)
      BY <1>1, <2>3
    <3>2. /\ d[p + 1] = d[p] + left[q[p + 1]]
          /\ left2[q2[k]] + relative = left[q[p + 1]]
      <4>1. d[p + 1] = d[(p + 1) - 1] + left[q[p + 1]] /\ (p + 1) - 1 = p
        BY <1>1, <1>2, <3>1
      <4> QED
        BY <2>3, <3>1, <4>1 DEF PutBetween
    <3>3. b(k) = d[p + 1] /\ b(k - 1) = t
      BY <1>1, <2>3, <3>1
    <3>4. d[p] \in Nat /\ left2[q2[k]] \in Nat
      BY <1>3, <1>5, <3>1
    <3> DEFINE dp == d[p]
               dn == d[p + 1]
               l  == left2[q2[k]]
    <3>5. dp + relative = t /\ dn = dp + (l + relative) /\ dp \in Nat /\ l \in Nat
      BY <1>4, <3>2, <3>4
    <3> HIDE DEF dp, dn, l
    <3>6. dn = t + l
      BY <3>5
    <3> HIDE DEF b
    <3> QED
      BY <3>3, <3>6 DEF dn, l
  <2>4. CASE k > p + 2
    <3>1. /\ k - 1 \in (p + 2)..Len(q) /\ k - 1 \in 1..Len(q)
          /\ k = (k - 1) + 1 /\ (k - 1) - 1 = k - 2
          /\ ~(k <= p) /\ k # p + 1 /\ ~(k - 1 <= p) /\ k - 1 # p + 1
      BY <1>1, <2>4
    <3>2. left2[q2[k]] = left[q[k - 1]]
      BY <3>1 DEF PutBetween
    <3>3. d[k - 1] = d[k - 2] + left[q[k - 1]]
      BY <1>2, <3>1
    <3>4. b(k) = d[k - 1] /\ b(k - 1) = d[k - 2]
      BY <3>1
    <3> HIDE DEF b
    <3> QED
      BY <3>2, <3>3, <3>4
  <2> QED
    BY <1>1, <2>1, <2>2, <2>3, <2>4
<1>7. \A k \in 0..n : b(k) \in Int
  <2>1. \A k \in 0..n : (k <= p => k \in 0..Len(q)) /\ (~(k <= p) => k - 1 \in 0..Len(q))
    BY <1>1
  <2> QED
    BY <1>5, <2>1
<1>8. n \in Nat /\ times[0] = 0 /\ \A k \in 0..n : times[k] = b(k)
  <2>1. b(0) = 0
    BY <1>1, <1>2
  <2> HIDE DEF b
  <2> QED
    BY <1>1, <2>1
<1> HIDE DEF b, times
<1>9. \A k \in 0..n : d2[k] \in Int /\ times[k] \in Int
  <2>1. \A k \in 0..n : d2[k] \in Int
    <3>1. d2 \in [0..n -> Nat]
      BY <1>3
    <3> HIDE DEF n
    <3>2. \A k \in 0..n : d2[k] \in Nat
      BY <3>1
    <3> QED
      BY <3>2
  <2>2. \A k \in 0..n : times[k] \in Int
    BY <1>7, <1>8
  <2> QED
    BY <2>1, <2>2
<1>10. \A k \in 1..n : d2[k] - d2[k - 1] = times[k] - times[k - 1]
  <2>1. ASSUME NEW k \in 1..n PROVE d2[k] - d2[k - 1] = times[k] - times[k - 1]
    <3>1. k \in 0..n /\ k - 1 \in 0..n
      BY <1>1
    <3> DEFINE l == left2[q2[k]]
               d0 == d2[k - 1]
               t0 == times[k - 1]
    <3>2. d2[k] = d0 + l /\ l \in Nat /\ d0 \in Int
      BY <1>3, <1>9, <3>1
    <3>3. times[k] = t0 + l /\ t0 \in Int
      BY <1>6, <1>8, <1>9, <3>1
    <3> HIDE DEF l, d0, t0
    <3>4. (d0 + l) - d0 = (t0 + l) - t0
      BY <3>2, <3>3
    <3> QED
      BY <3>2, <3>3, <3>4 DEF d0, t0
  <2> QED
    BY <2>1
<1>11. d2[0] = times[0] /\ n \in Nat
  BY <1>3, <1>8
<1> HIDE DEF n
<1>12. \A k \in 0..n : d2[k] = times[k]
  <2>1. GrowAlike(d2, times, n)
    BY <1>9, <1>10, <1>11 DEF GrowAlike
  <2> QED
    BY <1>11, <2>1, SameDifferences
<1>13. \A k \in 0..n : d2[k] = b(k)
  BY <1>8, <1>12
<1>14. \A k \in 0..p : d2[k] = d[k]
  BY <1>1, <1>13 DEF b, n
<1>15. d2[p + 1] = t
  BY <1>1, <1>13 DEF b, n
<1>16. ASSUME NEW k \in (p + 1)..Len(q) PROVE d2[k + 1] = d[k]
  <2>1. k + 1 \in 0..n /\ ~(k + 1 <= p) /\ k + 1 # p + 1 /\ (k + 1) - 1 = k
    BY <1>1 DEF n
  <2>2. d2[k + 1] = b(k + 1)
    BY <1>13, <2>1
  <2>3. b(k + 1) = d[(k + 1) - 1]
    BY <2>1 DEF b
  <2> QED
    BY <2>1, <2>2, <2>3
<1> QED
  BY <1>14, <1>15, <1>16 DEF d, d2, DueAround

-------------------------------------------------------------------------------
(* The part of the invariant about sleepLeft: the type, and that nobody at  *)
(* the head of the list has nothing left to wait.                           *)
HeadWaits == sleepList # <<>> => sleepLeft[sleepList[1]] >= 1

SleepInv == IInv /\ SleepTypeOK /\ HeadWaits

(* Where findPlaceToSleep stops: the threads in front are due by then, the  *)
(* next one is not due earlier.                                             *)
LEMMA PlaceFits ==
  ASSUME SleepTypeOK, NEW t \in Nat, t > 0
  PROVE  /\ PlaceToSleep(t) \in 0..Len(sleepList)
         /\ Due[PlaceToSleep(t)] \in Nat
         /\ Due[PlaceToSleep(t)] <= t
         /\ PlaceToSleep(t) = 0 => Due[PlaceToSleep(t)] = 0
         /\ PlaceToSleep(t) < Len(sleepList) =>
              /\ sleepLeft[sleepList[PlaceToSleep(t) + 1]] \in Nat
              /\ sleepLeft[sleepList[PlaceToSleep(t) + 1]]
                   >= t - Due[PlaceToSleep(t)]
<1> DEFINE S == {k \in 0..Len(sleepList) :
                   \/ k = Len(sleepList)
                   \/ Due[k + 1] > t
                   \/ k > 0 /\ Due[k] = t}
           p == PlaceToSleep(t)
<1>1. Len(sleepList) \in Nat /\ sleepList \in Seq(Thread)
  BY LenProperties DEF SleepTypeOK
<1>2. Len(sleepList) \in S /\ S \in SUBSET Nat
  BY <1>1, SMT
<1>3. p \in S /\ \A k \in S : p <= k
  BY <1>2, MinOfNats DEF PlaceToSleep
<1>4. /\ Due[0] = 0 /\ \A k \in 0..Len(sleepList) : Due[k] \in Nat
      /\ \A k \in 1..Len(sleepList) : /\ sleepLeft[sleepList[k]] \in Nat
                                      /\ Due[k] = Due[k - 1] + sleepLeft[sleepList[k]]
  BY <1>1, DueIs, DueOfIs DEF SleepTypeOK
<1>5. p \in 0..Len(sleepList)
  BY <1>3
<1>6. p = Len(sleepList) \/ Due[p + 1] > t \/ (p > 0 /\ Due[p] = t)
  BY <1>3
<1>7. \A k \in 0..Len(sleepList) : k < p => ~(Due[k + 1] > t)
  <2>1. \A k \in 0..Len(sleepList) : Due[k + 1] > t => k \in S
    OBVIOUS
  <2> HIDE DEF S, p
  <2> QED
    BY <1>1, <1>3, <1>5, <2>1
<1> HIDE DEF S, p
<1>8. Due[p] \in Nat /\ Due[p] <= t
  <2>1. CASE p = 0
    BY <1>4, <2>1
  <2>2. CASE p > 0
    <3>1. p - 1 \in 0..Len(sleepList) /\ p - 1 < p /\ (p - 1) + 1 = p
      BY <1>1, <1>5, <2>2
    <3>2. ~(Due[p] > t) /\ Due[p] \in Nat
      BY <1>4, <1>5, <1>7, <3>1
    <3> QED
      BY <3>2
  <2> QED
    BY <1>1, <1>5, <2>1, <2>2
<1>9. ASSUME p < Len(sleepList)
      PROVE  /\ sleepLeft[sleepList[p + 1]] \in Nat
             /\ sleepLeft[sleepList[p + 1]] >= t - Due[p]
  <2>1. p + 1 \in 1..Len(sleepList) /\ (p + 1) - 1 = p
    BY <1>1, <1>5, <1>9
  <2>2. sleepLeft[sleepList[p + 1]] \in Nat /\ Due[p + 1] = Due[p] + sleepLeft[sleepList[p + 1]]
    BY <1>4, <2>1
  <2> DEFINE l == sleepLeft[sleepList[p + 1]]
             dp == Due[p]
             dn == Due[p + 1]
  <2>3. l \in Nat /\ dn = dp + l /\ dp \in Nat /\ dp <= t /\ (dn > t \/ dp = t)
    BY <1>1, <1>5, <1>6, <1>8, <1>9, <2>2
  <2> HIDE DEF l, dp, dn
  <2>4. l \in Nat /\ l >= t - dp
    BY <2>3
  <2> QED
    BY <2>4 DEF l, dp
<1> QED
  BY <1>4, <1>5, <1>8, <1>9 DEF p

(* time_sleep puts the thread where it is due and disturbs nobody else.     *)
LEMMA PutToSleepStep ==
  ASSUME SleepPart, SleepTypeOK, HeadWaits,
         NEW x \in Thread, x \notin sleeping,
         NEW t \in Nat, t > 0, PutToSleep(x, t)
  PROVE  /\ SleepTypeOK' /\ HeadWaits'
         /\ sleepList' = InsertAt(sleepList, PlaceToSleep(t) + 1, x)
         /\ PlaceToSleep(t) \in 0..Len(sleepList)
         /\ DueAround(Due', Due, PlaceToSleep(t), Len(sleepList), t)
<1> DEFINE p  == PlaceToSleep(t)
           q  == sleepList
           q2 == sleepList'
           relative == t - Due[p]
<1>1. /\ q \in Seq(Thread) /\ Len(q) \in Nat /\ IsInjective(q) /\ x \notin ToSet(q)
      /\ sleepLeft \in [Thread -> Nat]
  BY LenProperties DEF SleepPart, SleepTypeOK
<1>2. /\ p \in Nat /\ p \in 0..Len(q) /\ Due[p] \in Nat /\ relative \in Nat
      /\ p = 0 => relative = t
  <2> DEFINE dp == Due[p]
  <2>1. p \in Nat /\ p \in 0..Len(q) /\ dp \in Nat /\ dp <= t /\ (p = 0 => dp = 0)
    BY <1>1, PlaceFits
  <2> HIDE DEF dp, p
  <2>2. t - dp \in Nat /\ (p = 0 => t - dp = t)
    BY <2>1
  <2> QED
    BY <2>1, <2>2 DEF dp
<1>3. p < Len(q) => /\ sleepLeft[q[p + 1]] \in Nat
                    /\ sleepLeft[q[p + 1]] >= relative
  BY PlaceFits
<1>4. q2 = InsertAt(q, p + 1, x)
  BY DEF PutToSleep
<1>5. sleepLeft' = IF p = Len(q) THEN [sleepLeft EXCEPT ![x] = relative]
                   ELSE [sleepLeft EXCEPT ![x] = relative,
                                          ![q[p + 1]] = sleepLeft[q[p + 1]] - relative]
  BY DEF PutToSleep
<1> HIDE DEF p, q, relative
<1>6. /\ \A k \in 1..Len(q) : q[k] \in Thread /\ q[k] # x
      /\ \A j, k \in 1..Len(q) : q[j] = q[k] => j = k
      /\ p < Len(q) => p + 1 \in 1..Len(q)
  BY <1>1, <1>2, DistinctPlaces
<1>7. ASSUME NEW u \in Thread
      PROVE  sleepLeft'[u] = IF u = x THEN relative
                             ELSE IF p < Len(q) /\ u = q[p + 1]
                                  THEN sleepLeft[q[p + 1]] - relative
                                  ELSE sleepLeft[u]
  BY <1>1, <1>2, <1>5, <1>6
<1>8. sleepLeft' \in [Thread -> Nat]
  <2>1. p < Len(q) => sleepLeft[q[p + 1]] - relative \in Nat
    BY <1>2, <1>3
  <2>2. \A u \in Thread : sleepLeft'[u] \in Nat
    BY <1>1, <1>2, <1>7, <2>1
  <2>3. sleepLeft' = [u \in Thread |-> sleepLeft'[u]]
    BY <1>1, <1>5
  <2> QED
    BY <2>2, <2>3
<1>9. /\ q2 \in Seq(Thread) /\ Len(q2) = Len(q) + 1
      /\ \A k \in 1..p : q2[k] = q[k]
      /\ q2[p + 1] = x
      /\ \A k \in (p + 1)..Len(q) : q2[k + 1] = q[k]
  <2>1. q \in Seq(Thread) /\ p \in 0..Len(q)
    BY <1>1, <1>2
  <2>2. \A r : r = InsertAt(q, p + 1, x) => r \in Seq(Thread) /\ Inserted(r, q, p, x)
    BY <2>1, InsertPlaces
  <2> HIDE DEF q2
  <2> QED
    BY <1>4, <2>2 DEF Inserted
<1> HIDE DEF q2
<1>10. \A k \in 1..Len(q) :
         sleepLeft'[q[k]] = IF k = p + 1 THEN sleepLeft[q[k]] - relative
                            ELSE sleepLeft[q[k]]
  <2>1. ASSUME NEW k \in 1..Len(q)
        PROVE  sleepLeft'[q[k]] = IF k = p + 1 THEN sleepLeft[q[k]] - relative
                                  ELSE sleepLeft[q[k]]
    <3>1. q[k] \in Thread /\ q[k] # x
      BY <1>6
    <3>2. sleepLeft'[q[k]] = IF p < Len(q) /\ q[k] = q[p + 1]
                             THEN sleepLeft[q[p + 1]] - relative
                             ELSE sleepLeft[q[k]]
      BY <1>7, <3>1
    <3>3. k = p + 1 => p < Len(q)
      BY <1>1, <1>2
    <3>4. p < Len(q) /\ q[k] = q[p + 1] => k = p + 1
      BY <1>6
    <3> QED
      BY <3>2, <3>3, <3>4
  <2> QED
    BY <2>1
<1>11. PutBetween(q, sleepLeft, q2, sleepLeft', p, t, relative)
  <2>1. DueOf(q, sleepLeft)[p] + relative = t
    <3> DEFINE dp == Due[p]
    <3>1. relative = t - dp /\ dp \in Nat /\ relative \in Nat
      BY <1>2 DEF relative
    <3> HIDE DEF dp
    <3>2. dp + relative = t
      BY <3>1
    <3> QED
      BY <3>2, DueIs DEF dp, q
  <2>2. \A k \in 1..p : sleepLeft'[q2[k]] = sleepLeft[q[k]]
    <3>1. ASSUME NEW k \in 1..p PROVE sleepLeft'[q2[k]] = sleepLeft[q[k]]
      <4>1. k \in 1..Len(q) /\ k # p + 1
        BY <1>1, <1>2
      <4> QED
        BY <1>9, <1>10, <4>1
    <3> QED
      BY <3>1
  <2>3. sleepLeft'[q2[p + 1]] = relative
    BY <1>7, <1>9
  <2>4. p < Len(q) => sleepLeft'[q2[p + 2]] + relative = sleepLeft[q[p + 1]]
    <3>1. ASSUME p < Len(q)
          PROVE  /\ sleepLeft'[q2[p + 2]] = sleepLeft[q[p + 1]] - relative
                 /\ sleepLeft[q[p + 1]] \in Nat
      <4>1. p + 1 \in (p + 1)..Len(q) /\ (p + 1) + 1 = p + 2
        BY <1>1, <1>2, <3>1
      <4>2. q2[p + 2] = q[p + 1]
        BY <1>9, <4>1
      <4> QED
        BY <1>3, <1>6, <1>10, <3>1, <4>2
    <3> QED
      BY <1>2, <3>1
  <2>5. ASSUME NEW k \in (p + 2)..Len(q) PROVE sleepLeft'[q2[k + 1]] = sleepLeft[q[k]]
    <3>1. k \in (p + 1)..Len(q) /\ k \in 1..Len(q) /\ k # p + 1
      BY <1>1, <1>2
    <3> QED
      BY <1>9, <1>10, <3>1
  <2> QED
    BY <1>9, <2>1, <2>2, <2>3, <2>4, <2>5 DEF PutBetween
<1>12. DueAround(DueOf(q2, sleepLeft'), DueOf(q, sleepLeft), p, Len(q), t)
  <2>1. /\ q \in Seq(Thread) /\ p \in 0..Len(q) /\ relative \in Nat
        /\ q2 \in Seq(Thread)
    BY <1>1, <1>2, <1>9
  <2>2. sleepLeft \in [Thread -> Nat]
    BY <1>1
  <2> QED
    BY <1>8, <1>11, <2>1, <2>2, TimesAround
<1>13. HeadWaits'
  <2>1. sleepLeft'[q2[1]] >= 1
    <3>1. CASE p = 0
      <4>1. sleepLeft'[q2[1]] = t
        BY <1>2, <1>7, <1>9, <3>1
      <4> QED
        BY <4>1
    <3>2. CASE p # 0
      <4>1. 1 \in 1..p /\ 1 \in 1..Len(q) /\ 1 # p + 1
        BY <1>1, <1>2, <3>2
      <4>2. q # <<>>
        BY <1>1, <4>1, EmptySeq
      <4>3. sleepLeft'[q2[1]] = sleepLeft[q[1]]
        BY <1>9, <1>10, <4>1
      <4> QED
        BY <4>2, <4>3 DEF HeadWaits, q
    <3> QED
      BY <3>1, <3>2
  <2> QED
    BY <2>1 DEF HeadWaits, q2
<1>14. SleepTypeOK'
  BY <1>8, <1>9 DEF SleepTypeOK, q2
<1> QED
  BY <1>2, <1>4, <1>12, <1>13, <1>14, DueIs DEF p, q, q2

-------------------------------------------------------------------------------
(* The timer interrupt. *)

(* Threads with nothing left at the front of the list are all due now. *)
LEMMA FrontIsDue ==
  ASSUME NEW q \in Seq(Thread), NEW left \in [Thread -> Nat], NEW w \in 0..Len(q),
         \A k \in 1..w : left[q[k]] = 0
  PROVE  \A k \in 0..w : DueOf(q, left)[k] = 0
<1> DEFINE d == DueOf(q, left)
           zero == [k \in 0..w |-> 0]
<1>1. Len(q) \in Nat /\ w \in Nat /\ w <= Len(q)
  BY LenProperties
<1>2. /\ d \in [0..Len(q) -> Nat] /\ d[0] = 0
      /\ \A k \in 1..Len(q) : left[q[k]] \in Nat /\ d[k] = d[k - 1] + left[q[k]]
  BY DueOfIs
<1> HIDE DEF d
<1>3. \A k \in 0..w : d[k] \in Int /\ k \in 0..Len(q)
  <2>1. \A k \in 0..w : k \in 0..Len(q)
    BY <1>1
  <2>2. \A k \in 0..Len(q) : d[k] \in Nat
    BY <1>2
  <2> QED
    BY <2>1, <2>2
<1>4. ASSUME NEW k \in 1..w PROVE d[k] - d[k - 1] = 0
  <2>1. k \in 1..Len(q) /\ k \in 0..w /\ k - 1 \in 0..w
    BY <1>1
  <2>2. d[k] = d[k - 1] + 0 /\ d[k - 1] \in Int
    BY <1>2, <1>3, <2>1
  <2> QED
    BY <2>2
<1>5. \A k \in 0..w : zero[k] = 0
  OBVIOUS
<1> HIDE DEF zero
<1>6. \A k \in 1..w : zero[k] - zero[k - 1] = 0
  <2>1. \A k \in 1..w : k \in 0..w /\ k - 1 \in 0..w
    BY <1>1
  <2> QED
    BY <1>5, <2>1
<1>7. GrowAlike(d, zero, w)
  <2>1. d[0] = zero[0]
    BY <1>1, <1>2, <1>5
  <2> QED
    BY <1>3, <1>4, <1>5, <1>6, <2>1 DEF GrowAlike
<1>8. \A k \in 0..w : d[k] = zero[k]
  BY <1>1, <1>7, SameDifferences
<1> QED
  BY <1>5, <1>8 DEF d

(* The list r is q behind its first w threads, due at the same times. *)
DueBehind(r, q, left, w) ==
  /\ r \in Seq(Thread) /\ Len(r) = Len(q) - w
  /\ \A k \in 1..Len(r) : r[k] = q[w + k]
  /\ \A k \in 0..Len(r) : DueOf(r, left)[k] = DueOf(q, left)[w + k]

(* Once they are taken off, the others are due as before. *)
LEMMA BackIsDue ==
  ASSUME NEW q \in Seq(Thread), NEW left \in [Thread -> Nat], NEW w \in 0..Len(q),
         NEW r, r = SubSeq(q, w + 1, Len(q)), DueOf(q, left)[w] = 0
  PROVE  DueBehind(r, q, left, w)
<1> DEFINE d == DueOf(q, left)
           e == DueOf(r, left)
           n == Len(q) - w
           back == [k \in 0..n |-> d[w + k]]
<1>1. Len(q) \in Nat /\ w \in Nat /\ w <= Len(q) /\ n \in Nat
  BY LenProperties
<1>2. /\ d \in [0..Len(q) -> Nat]
      /\ \A k \in 1..Len(q) : left[q[k]] \in Nat /\ d[k] = d[k - 1] + left[q[k]]
  BY DueOfIs
<1>3. r \in Seq(Thread) /\ Len(r) = n /\ \A k \in 1..n : r[k] = q[w + k]
  BY BackPlaces
<1>4. /\ e \in [0..n -> Nat] /\ e[0] = 0
      /\ \A k \in 1..n : e[k] = e[k - 1] + left[r[k]]
  BY <1>3, DueOfIs
<1>5. d[w] = 0
  OBVIOUS
<1> HIDE DEF d, e
<1>6. \A k \in 0..n : back[k] = d[w + k] /\ d[w + k] \in Int
  <2>1. \A k \in 0..n : w + k \in 0..Len(q)
    BY <1>1
  <2>2. \A k \in 0..Len(q) : d[k] \in Nat
    BY <1>2
  <2>3. \A k \in 0..n : d[w + k] \in Int
    BY <2>1, <2>2
  <2> HIDE DEF n
  <2> QED
    BY <2>3
<1> HIDE DEF back
<1>7. \A k \in 0..n : e[k] \in Int
  <2> HIDE DEF n
  <2>1. \A k \in 0..n : e[k] \in Nat
    BY <1>4
  <2> QED
    BY <2>1
<1>8. ASSUME NEW k \in 1..n PROVE e[k] - e[k - 1] = back[k] - back[k - 1]
  <2>1. /\ w + k \in 1..Len(q) /\ w + (k - 1) = (w + k) - 1
        /\ k \in 0..n /\ k - 1 \in 0..n
    BY <1>1
  <2> DEFINE l == left[q[w + k]]
             e0 == e[k - 1]
             b0 == back[k - 1]
  <2>2. e[k] = e0 + l
    BY <1>3, <1>4
  <2>3. back[k] = b0 + l /\ l \in Nat
    BY <1>2, <1>6, <2>1
  <2>4. e0 \in Int /\ b0 \in Int
    BY <1>6, <1>7, <2>1
  <2> HIDE DEF l, e0, b0
  <2>5. (e0 + l) - e0 = (b0 + l) - b0
    BY <2>3, <2>4
  <2> QED
    BY <2>2, <2>3, <2>5 DEF e0, b0
<1>9. GrowAlike(e, back, n)
  <2>1. e[0] = back[0]
    <3>1. w + 0 = w /\ 0 \in 0..n
      BY <1>1
    <3> QED
      BY <1>4, <1>5, <1>6, <3>1
  <2>2. \A k \in 0..n : e[k] \in Int /\ back[k] \in Int
    BY <1>6, <1>7
  <2>3. \A k \in 1..n : e[k] - e[k - 1] = back[k] - back[k - 1]
    BY <1>8
  <2> QED
    BY <2>1, <2>2, <2>3 DEF GrowAlike
<1>10. \A k \in 0..n : e[k] = back[k]
  BY <1>1, <1>9, SameDifferences
<1> QED
  BY <1>3, <1>6, <1>10 DEF d, e, DueBehind

(* One tick off the head's wait is one off everybody's. *)
LEMMA TickShifts ==
  ASSUME NEW q \in Seq(Thread), NEW left \in [Thread -> Nat], IsInjective(q),
         Len(q) > 0, left[q[1]] >= 1,
         NEW after, after = [left EXCEPT ![q[1]] = left[q[1]] - 1]
  PROVE  /\ after \in [Thread -> Nat]
         /\ \A k \in 1..Len(q) : DueOf(q, left)[k] = DueOf(q, after)[k] + 1
<1> DEFINE d == DueOf(q, left)
           e == DueOf(q, after)
           n == Len(q)
           b(k) == IF k = 0 THEN 0 ELSE e[k] + 1
           later == [k \in 0..n |-> b(k)]
<1>1. n \in Nat /\ 1 \in 1..n
  BY LenProperties
<1>2. /\ \A k \in 1..n : q[k] \in Thread
      /\ \A j, k \in 1..n : q[j] = q[k] => j = k
  BY DistinctPlaces
<1>3. left[q[1]] \in Nat /\ left[q[1]] - 1 \in Nat
  <2>1. left[q[1]] \in Nat
    BY <1>1, <1>2
  <2> QED
    BY <2>1
<1>4. after \in [Thread -> Nat]
  BY <1>3
<1>5. \A k \in 1..n : after[q[k]] = IF k = 1 THEN left[q[1]] - 1 ELSE left[q[k]]
  BY <1>1, <1>2
<1>6. /\ d \in [0..n -> Nat] /\ d[0] = 0
      /\ \A k \in 1..n : left[q[k]] \in Nat /\ d[k] = d[k - 1] + left[q[k]]
  BY DueOfIs
<1>7. /\ e \in [0..n -> Nat] /\ e[0] = 0
      /\ \A k \in 1..n : after[q[k]] \in Nat /\ e[k] = e[k - 1] + after[q[k]]
  BY <1>4, DueOfIs
<1> HIDE DEF d, e, n
<1>8. \A k \in 0..n : d[k] \in Int /\ e[k] \in Nat
  BY <1>6, <1>7
<1>9. ASSUME NEW k \in 1..n PROVE b(k) = b(k - 1) + left[q[k]]
  <2>1. k \in 0..n /\ k - 1 \in 0..n /\ k # 0
    BY <1>1
  <2>2. CASE k = 1
    <3>1. e[1] = e[1 - 1] + after[q[1]] /\ after[q[1]] = left[q[1]] - 1 /\ 1 - 1 = 0
      BY <1>1, <1>5, <1>7
    <3>2. b(k) = e[1] + 1 /\ b(k - 1) = 0
      BY <2>2
    <3> DEFINE l == left[q[1]]
    <3>3. b(k) = (0 + (l - 1)) + 1 /\ b(k - 1) = 0 /\ l \in Nat
      BY <1>3, <1>7, <3>1, <3>2
    <3> HIDE DEF l, b
    <3>4. b(k) = b(k - 1) + l
      BY <3>3
    <3> QED
      BY <2>2, <3>4 DEF l
  <2>3. CASE k # 1
    <3>1. e[k] = e[k - 1] + left[q[k]] /\ left[q[k]] \in Nat /\ e[k - 1] \in Nat
      BY <1>5, <1>6, <1>7, <1>8, <2>1, <2>3
    <3>2. b(k) = e[k] + 1 /\ b(k - 1) = e[k - 1] + 1
      BY <1>1, <2>3
    <3> DEFINE l == left[q[k]]
               e0 == e[k - 1]
    <3>3. b(k) = (e0 + l) + 1 /\ b(k - 1) = e0 + 1 /\ l \in Nat /\ e0 \in Nat
      BY <3>1, <3>2
    <3> HIDE DEF l, e0, b
    <3>4. b(k) = b(k - 1) + l
      BY <3>3
    <3> QED
      BY <3>4 DEF l
  <2> QED
    BY <2>2, <2>3
<1>10. \A k \in 0..n : later[k] = b(k) /\ b(k) \in Int
  BY <1>8
<1> HIDE DEF later, b
<1>11. \A k \in 1..n : d[k] - d[k - 1] = later[k] - later[k - 1]
  <2>1. ASSUME NEW k \in 1..n PROVE d[k] - d[k - 1] = later[k] - later[k - 1]
    <3>1. k \in 0..n /\ k - 1 \in 0..n
      BY <1>1
    <3> DEFINE l == left[q[k]]
               d0 == d[k - 1]
               t0 == later[k - 1]
    <3>2. d[k] = d0 + l /\ l \in Nat /\ d0 \in Int
      BY <1>6, <1>8, <3>1
    <3>3. later[k] = t0 + l /\ t0 \in Int
      BY <1>9, <1>10, <3>1
    <3> HIDE DEF l, d0, t0
    <3>4. (d0 + l) - d0 = (t0 + l) - t0
      BY <3>2, <3>3
    <3> QED
      BY <3>2, <3>3, <3>4 DEF d0, t0
  <2> QED
    BY <2>1
<1>12. GrowAlike(d, later, n)
  <2>1. d[0] = later[0]
    BY <1>1, <1>6, <1>10 DEF b
  <2>2. \A k \in 0..n : d[k] \in Int /\ later[k] \in Int
    BY <1>8, <1>10
  <2> QED
    BY <1>11, <2>1, <2>2 DEF GrowAlike
<1>13. \A k \in 0..n : d[k] = b(k)
  <2>1. \A k \in 0..n : d[k] = later[k]
    BY <1>1, <1>12, SameDifferences
  <2> QED
    BY <1>10, <2>1
<1>14. \A k \in 1..n : d[k] = e[k] + 1
  <2>1. \A k \in 1..n : k \in 0..n /\ k # 0
    BY <1>1
  <2> QED
    BY <1>13, <2>1 DEF b
<1> QED
  BY <1>4, <1>14 DEF d, e, n

(* How wakeSleepingThreads stops: those in front have nothing left, the     *)
(* next one has.                                                            *)
LEMMA WakeStops ==
  ASSUME sleepList \in Seq(Thread)
  PROVE  /\ WakeCount \in 0..Len(sleepList)
         /\ \A k \in 1..WakeCount : LeftAfterTick[sleepList[k]] = 0
         /\ WakeCount < Len(sleepList)
              => LeftAfterTick[sleepList[WakeCount + 1]] # 0
<1> DEFINE S == {k \in 0..Len(sleepList) :
                   k = Len(sleepList) \/ LeftAfterTick[sleepList[k + 1]] # 0}
           w == WakeCount
<1>1. Len(sleepList) \in Nat
  BY LenProperties
<1>2. Len(sleepList) \in S /\ S \in SUBSET Nat
  BY <1>1, SMT
<1>3. w \in S /\ \A k \in S : w <= k
  BY <1>2, MinOfNats DEF WakeCount
<1>4. /\ w \in 0..Len(sleepList)
      /\ w = Len(sleepList) \/ LeftAfterTick[sleepList[w + 1]] # 0
  BY <1>3
<1>5. \A k \in 0..Len(sleepList) : k < w => LeftAfterTick[sleepList[k + 1]] = 0
  <2>1. \A k \in 0..Len(sleepList) : LeftAfterTick[sleepList[k + 1]] # 0 => k \in S
    OBVIOUS
  <2> HIDE DEF S, w
  <2> QED
    BY <1>1, <1>3, <1>4, <2>1
<1> HIDE DEF S, w
<1>6. ASSUME NEW k \in 1..w PROVE LeftAfterTick[sleepList[k]] = 0
  <2>1. k - 1 \in 0..Len(sleepList) /\ k - 1 < w /\ (k - 1) + 1 = k
    BY <1>1, <1>4
  <2> QED
    BY <1>5, <2>1
<1> QED
  BY <1>1, <1>4, <1>6 DEF w

(* What a tick does to the times along the list: w threads were due after   *)
(* this one, and are off; all the others are due one tick earlier.          *)
DueTicked(d, d2, q, q2, w) ==
  /\ Len(q2) = Len(q) - w
  /\ \A k \in 1..Len(q2) : q2[k] = q[w + k] /\ d[w + k] = d2[k] + 1
  /\ \A k \in 1..w : d[k] = 1

(* The timer interrupt counts one tick for every sleeper, and takes off the *)
(* list exactly those who have slept all of theirs.                         *)
LEMMA TimerTickStep ==
  ASSUME SleepPart, SleepTypeOK, HeadWaits, TimerTick
  PROVE  /\ SleepTypeOK' /\ HeadWaits'
         /\ WakeCount \in 0..Len(sleepList)
         /\ DueTicked(Due, Due', sleepList, sleepList', WakeCount)
<1> DEFINE q == sleepList
           w == WakeCount
           after == LeftAfterTick
           r == sleepList'
<1>1. /\ q \in Seq(Thread) /\ Len(q) \in Nat /\ IsInjective(q)
      /\ sleepLeft \in [Thread -> Nat]
  BY LenProperties DEF SleepPart, SleepTypeOK
<1>2. /\ w \in Nat /\ w \in 0..Len(q)
      /\ \A k \in 1..w : after[q[k]] = 0
      /\ w < Len(q) => after[q[w + 1]] # 0
  BY <1>1, WakeStops
<1>3. r = SubSeq(q, w + 1, Len(q)) /\ sleepLeft' = after
  BY DEF TimerTick
<1>4. /\ q = <<>> => after = sleepLeft
      /\ q # <<>> => after = [sleepLeft EXCEPT ![q[1]] = sleepLeft[q[1]] - 1]
  BY DEF LeftAfterTick
<1>5. q # <<>> => sleepLeft[q[1]] >= 1 /\ Len(q) > 0
  BY <1>1, EmptySeq DEF HeadWaits
<1>6. q = <<>> => Len(q) = 0
  BY EmptySeq
<1> HIDE DEF q, w, after, r
<1>7. /\ after \in [Thread -> Nat]
      /\ \A k \in 1..Len(q) : DueOf(q, sleepLeft)[k] = DueOf(q, after)[k] + 1
  <2>1. CASE q = <<>>
    <3>1. \A k \in 1..Len(q) : FALSE
      BY <1>6, <2>1
    <3> QED
      BY <1>1, <1>4, <2>1, <3>1
  <2>2. CASE q # <<>>
    BY <1>1, <1>4, <1>5, <2>2, TickShifts
  <2> QED
    BY <2>1, <2>2
<1>8. \A k \in 0..w : DueOf(q, after)[k] = 0
  BY <1>1, <1>2, <1>7, FrontIsDue
<1>9. DueOf(q, after)[w] = 0
  BY <1>2, <1>8
<1>10. /\ r \in Seq(Thread) /\ Len(r) = Len(q) - w
       /\ \A k \in 1..Len(r) : r[k] = q[w + k]
       /\ \A k \in 0..Len(r) : DueOf(r, after)[k] = DueOf(q, after)[w + k]
  <2>1. q \in Seq(Thread) /\ w \in 0..Len(q) /\ after \in [Thread -> Nat]
    BY <1>1, <1>2, <1>7
  <2>2. DueBehind(r, q, after, w)
    BY <1>3, <1>9, <2>1, BackIsDue
  <2> QED
    BY <2>2 DEF DueBehind
<1>11. DueTicked(DueOf(q, sleepLeft), DueOf(r, after), q, r, w)
  <2>1. ASSUME NEW k \in 1..Len(r)
        PROVE  DueOf(q, sleepLeft)[w + k] = DueOf(r, after)[k] + 1
    <3>1. w + k \in 1..Len(q) /\ k \in 0..Len(r)
      BY <1>1, <1>2, <1>10
    <3> QED
      BY <1>7, <1>10, <3>1
  <2>2. ASSUME NEW k \in 1..w PROVE DueOf(q, sleepLeft)[k] = 1
    <3>1. k \in 1..Len(q) /\ k \in 0..w
      BY <1>1, <1>2
    <3>2. DueOf(q, sleepLeft)[k] = 0 + 1
      BY <1>7, <1>8, <3>1
    <3> QED
      BY <3>2
  <2> QED
    BY <1>10, <2>1, <2>2 DEF DueTicked
<1>12. SleepTypeOK'
  BY <1>3, <1>7, <1>10 DEF SleepTypeOK, r
<1>13. HeadWaits'
  <2>1. ASSUME r # <<>> PROVE after[r[1]] >= 1
    <3>1. Len(r) \in Nat /\ Len(r) # 0
      BY <1>10, <2>1, EmptySeq, LenProperties
    <3>2. 1 \in 1..Len(r) /\ w < Len(q) /\ w + 1 \in 1..Len(q)
      BY <1>1, <1>2, <1>10, <3>1
    <3>3. r[1] = q[w + 1] /\ q[w + 1] \in Thread
      BY <1>1, <1>10, <3>2, ElementOfSeq
    <3>4. after[r[1]] # 0 /\ after[r[1]] \in Nat
      BY <1>2, <1>7, <3>2, <3>3
    <3> QED
      BY <3>4
  <2> QED
    BY <1>3, <2>1 DEF HeadWaits, r
<1> QED
  BY <1>2, <1>3, <1>11, <1>12, <1>13, DueIs DEF q, w, r

-------------------------------------------------------------------------------
(* Only time_sleep and the timer change the list. *)
LEMMA OnlyTwoTouchSleep ==
  ASSUME [Next]_vars
  PROVE  UNCHANGED sleepVars \/ (\E t \in 1..MaxSleep : TimeSleep(t)) \/ Tick
<1>1. CASE ThreadDispatch
  BY <1>1 DEF ThreadDispatch
<1>2. CASE \E t \in Thread, start \in BOOLEAN : ThreadCreate(t, start)
  BY <1>2 DEF ThreadCreate
<1>3. CASE \E t \in Thread : ThreadStart(t)
  BY <1>3 DEF ThreadStart
<1>4. CASE ThreadExit
  BY <1>4 DEF ThreadExit
<1>5. CASE \E s \in Sem, init \in 0..MaxInit : SemOpen(s, init)
  BY <1>5 DEF SemOpen
<1>6. CASE \E s \in Sem : SemClose(s) \/ SemWait(s) \/ SemSignal(s)
  BY <1>6 DEF SemClose, SemWait, SemSignal
<1>7. CASE UNCHANGED vars
  BY <1>7 DEF vars
<1> QED
  BY <1>1, <1>2, <1>3, <1>4, <1>5, <1>6, <1>7 DEF Next

(* sleepLeft has its type in every reachable state, and the head always has *)
(* something left to wait.                                                  *)
LEMMA SleepStep ==
  ASSUME SleepInv, [Next]_vars
  PROVE  SleepInv'
<1>1. IInv'
  BY NextStep DEF SleepInv
<1>2. /\ SleepPart /\ SleepTypeOK /\ HeadWaits
      /\ running \notin sleeping /\ running \in Thread \cup {Idle}
  BY DEF SleepInv, IInv, RunPart
<1>3. ASSUME UNCHANGED sleepVars PROVE SleepTypeOK' /\ HeadWaits'
  BY <1>2, <1>3 DEF SleepTypeOK, HeadWaits, sleepVars
<1>4. ASSUME NEW t \in 1..MaxSleep, TimeSleep(t)
      PROVE  SleepTypeOK' /\ HeadWaits'
  <2>1. PutToSleep(running, t) /\ running \in Thread
    BY <1>2, <1>4 DEF TimeSleep
  <2>2. t \in Nat /\ t > 0
    BY SleepAssumption DEF SleepAssumption
  <2> QED
    BY <1>2, <2>1, <2>2, PutToSleepStep
<1>5. ASSUME Tick PROVE SleepTypeOK' /\ HeadWaits'
  <2>1. TimerTick
    BY <1>5 DEF Tick
  <2> QED
    BY <1>2, <2>1, TimerTickStep
<1>6. SleepTypeOK' /\ HeadWaits'
  BY <1>3, <1>4, <1>5, OnlyTwoTouchSleep
<1> QED
  BY <1>1, <1>6 DEF SleepInv

LEMMA SleepStart ==
  ASSUME Init
  PROVE  SleepInv
<1>1. IInv
  BY InitStep
<1>2. SleepTypeOK /\ HeadWaits
  BY EmptySeq DEF Init, SleepInit, SleepTypeOK, HeadWaits
<1> QED
  BY <1>1, <1>2 DEF SleepInv

(* The inductive invariant of the sleep list. *)
THEOREM SleepInductive == Spec => []SleepInv
<1>1. Init => SleepInv
  BY SleepStart
<1>2. SleepInv /\ [Next]_vars => SleepInv'
  BY SleepStep
<1> QED
  BY <1>1, <1>2, PTL DEF Spec

(* Every variable of the kernel has its type: the idle thread is never in   *)
(* the ready queue, the time slice never overruns, and sleepLeft, unsigned  *)
(* in the code, is never decremented below zero, for any number of threads  *)
(* that sleep for any times.                                                *)
THEOREM TypeCorrect == Spec => []TypeOK
<1>1. SleepInv => TypeOK
  BY DEF SleepInv, IInv, SemPart, WaitLists, SleepPart, ThreadPart, RunPart, CounterPart, TypeOK
<1> QED
  BY <1>1, SleepInductive, PTL

-------------------------------------------------------------------------------
(* The kernel implements the alarm clock. *)

(* What `remaining` of the alarm clock is, over a list q. *)
RemainingIn(q, left, t) ==
  IF t \in ToSet(q)
  THEN DueOf(q, left)[CHOOSE k \in DOMAIN q : q[k] = t]
  ELSE 0

LEMMA RemainingIs ==
  /\ \A t : Remaining(t) = RemainingIn(sleepList, sleepLeft, t)
  /\ \A t : Remaining(t)' = RemainingIn(sleepList', sleepLeft', t)
<1>1. \A t : Remaining(t) = RemainingIn(sleepList, sleepLeft, t)
  BY DueIs DEF Remaining, RemainingIn
<1>2. \A t : Remaining(t)' = RemainingIn(sleepList', sleepLeft', t)
  BY DueIs DEF Remaining, RemainingIn
<1> QED
  BY <1>1, <1>2

(* For a thread in the list, its time there; it is due later than now. *)
LEMMA RemainingInList ==
  ASSUME NEW q \in Seq(Thread), IsInjective(q), NEW left
  PROVE  /\ \A k \in 1..Len(q) : RemainingIn(q, left, q[k]) = DueOf(q, left)[k]
         /\ \A t : t \notin ToSet(q) => RemainingIn(q, left, t) = 0
<1>1. DOMAIN q = 1..Len(q)
  BY LenProperties
<1>2. /\ \A k \in 1..Len(q) : q[k] \in ToSet(q)
      /\ \A j, k \in 1..Len(q) : q[j] = q[k] => j = k
  BY DistinctPlaces
<1>3. ASSUME NEW k \in 1..Len(q)
      PROVE  RemainingIn(q, left, q[k]) = DueOf(q, left)[k]
  <2> DEFINE j == CHOOSE i \in DOMAIN q : q[i] = q[k]
  <2>1. j \in 1..Len(q) /\ q[j] = q[k]
    BY <1>1
  <2>2. j = k
    BY <1>2, <2>1
  <2> QED
    BY <1>2, <2>2 DEF RemainingIn
<1> QED
  BY <1>3 DEF RemainingIn

(* Putting a thread to sleep gives it its own countdown and leaves those of *)
(* the others.                                                              *)
LEMMA PutRemaining ==
  ASSUME NEW q \in Seq(Thread), IsInjective(q), NEW left,
         NEW q2 \in Seq(Thread), IsInjective(q2), NEW left2,
         NEW p \in 0..Len(q), NEW x \in Thread, NEW t,
         Inserted(q2, q, p, x), ToSet(q2) = ToSet(q) \cup {x}, x \notin ToSet(q),
         DueAround(DueOf(q2, left2), DueOf(q, left), p, Len(q), t),
         NEW u \in Thread
  PROVE  RemainingIn(q2, left2, u) = IF u = x THEN t ELSE RemainingIn(q, left, u)
<1> DEFINE d  == DueOf(q, left)
           d2 == DueOf(q2, left2)
<1>1. Len(q) \in Nat /\ p \in Nat /\ p <= Len(q)
  BY LenProperties
<1>2. /\ Len(q2) = Len(q) + 1
      /\ \A k \in 1..p : q2[k] = q[k]
      /\ q2[p + 1] = x
      /\ \A k \in (p + 1)..Len(q) : q2[k + 1] = q[k]
  BY DEF Inserted
<1>3. /\ \A k \in 1..p : d2[k] = d[k]
      /\ d2[p + 1] = t
      /\ \A k \in (p + 1)..Len(q) : d2[k + 1] = d[k]
  BY <1>1 DEF DueAround
<1>4. /\ \A k \in 1..Len(q) : RemainingIn(q, left, q[k]) = d[k]
      /\ \A v : v \notin ToSet(q) => RemainingIn(q, left, v) = 0
  BY RemainingInList
<1>5. /\ \A k \in 1..Len(q2) : RemainingIn(q2, left2, q2[k]) = d2[k]
      /\ \A v : v \notin ToSet(q2) => RemainingIn(q2, left2, v) = 0
  BY RemainingInList
<1> HIDE DEF d, d2
<1>6. CASE u = x
  <2>1. p + 1 \in 1..Len(q2)
    BY <1>1, <1>2
  <2>2. RemainingIn(q2, left2, q2[p + 1]) = d2[p + 1]
    BY <1>5, <2>1
  <2> QED
    BY <1>2, <1>3, <1>6, <2>2
<1>7. CASE u # x /\ u \notin ToSet(q)
  BY <1>4, <1>5, <1>7
<1>8. CASE u # x /\ u \in ToSet(q)
  <2>1. PICK k \in 1..Len(q) : q[k] = u
    BY <1>8, DistinctPlaces
  <2>2. RemainingIn(q, left, u) = d[k]
    BY <1>4, <2>1
  <2>3. CASE k <= p
    <3>1. k \in 1..p /\ k \in 1..Len(q2)
      BY <1>1, <1>2, <2>3
    <3>2. RemainingIn(q2, left2, q2[k]) = d2[k]
      BY <1>5, <3>1
    <3> QED
      BY <1>2, <1>3, <1>8, <2>1, <2>2, <3>1, <3>2
  <2>4. CASE k > p
    <3>1. k \in (p + 1)..Len(q) /\ k + 1 \in 1..Len(q2)
      BY <1>1, <1>2, <2>4
    <3>2. RemainingIn(q2, left2, q2[k + 1]) = d2[k + 1]
      BY <1>5, <3>1
    <3>3. q2[k + 1] = u /\ d2[k + 1] = d[k]
      BY <1>2, <1>3, <2>1, <3>1
    <3> QED
      BY <1>8, <2>2, <3>2, <3>3
  <2> QED
    BY <1>1, <2>3, <2>4
<1> QED
  BY <1>6, <1>7, <1>8

(* A tick is one for everybody. *)
LEMMA TickRemaining ==
  ASSUME NEW q \in Seq(Thread), IsInjective(q), NEW left \in [Thread -> Nat],
         NEW q2 \in Seq(Thread), IsInjective(q2), NEW left2 \in [Thread -> Nat],
         NEW w \in 0..Len(q),
         DueTicked(DueOf(q, left), DueOf(q2, left2), q, q2, w),
         NEW u \in Thread
  PROVE  /\ RemainingIn(q, left, u) \in Nat
         /\ RemainingIn(q2, left2, u)
              = IF RemainingIn(q, left, u) > 0 THEN RemainingIn(q, left, u) - 1 ELSE 0
<1> DEFINE d  == DueOf(q, left)
           d2 == DueOf(q2, left2)
           r  == RemainingIn(q, left, u)
           r2 == RemainingIn(q2, left2, u)
<1>1. Len(q) \in Nat /\ w \in Nat /\ w <= Len(q)
  BY LenProperties
<1>2. /\ Len(q2) = Len(q) - w
      /\ \A k \in 1..Len(q2) : q2[k] = q[w + k] /\ d[w + k] = d2[k] + 1
      /\ \A k \in 1..w : d[k] = 1
  BY DEF DueTicked
<1>3. /\ \A k \in 1..Len(q) : RemainingIn(q, left, q[k]) = d[k]
      /\ \A v : v \notin ToSet(q) => RemainingIn(q, left, v) = 0
  BY RemainingInList
<1>4. /\ \A k \in 1..Len(q2) : RemainingIn(q2, left2, q2[k]) = d2[k]
      /\ \A v : v \notin ToSet(q2) => RemainingIn(q2, left2, v) = 0
  BY RemainingInList
<1>5. \A k \in 1..Len(q2) : d2[k] \in Nat
  <2>1. d2 \in [0..Len(q2) -> Nat] /\ Len(q2) \in Nat
    BY DueOfIs, LenProperties
  <2> HIDE DEF d2
  <2>2. \A k \in 1..Len(q2) : k \in 0..Len(q2)
    BY <2>1
  <2>3. \A k \in 0..Len(q2) : d2[k] \in Nat
    BY <2>1
  <2> QED
    BY <2>2, <2>3
<1>6. /\ \A j, k \in 1..Len(q) : q[j] = q[k] => j = k
      /\ \A v \in ToSet(q2) : \E k \in 1..Len(q2) : q2[k] = v
      /\ \A k \in 1..Len(q) : q[k] \in ToSet(q)
  <2>1. \A j, k \in 1..Len(q) : q[j] = q[k] => j = k
    BY DistinctPlaces
  <2>2. \A v \in ToSet(q2) : \E k \in 1..Len(q2) : q2[k] = v
    BY DistinctPlaces
  <2>3. \A k \in 1..Len(q) : q[k] \in ToSet(q)
    BY DistinctPlaces
  <2> QED
    BY <2>1, <2>2, <2>3
<1> HIDE DEF d, d2
<1>7. CASE u \notin ToSet(q)
  <2>1. u \notin ToSet(q2)
    <3>1. ASSUME NEW k \in 1..Len(q2), q2[k] = u PROVE FALSE
      <4>1. w + k \in 1..Len(q)
        BY <1>1, <1>2
      <4> QED
        BY <1>2, <1>6, <1>7, <3>1, <4>1
    <3> QED
      BY <1>6, <3>1
  <2>2. r = 0 /\ r2 = 0
    BY <1>3, <1>4, <1>7, <2>1
  <2> QED
    BY <2>2
<1>8. CASE u \in ToSet(q)
  <2>1. PICK k \in 1..Len(q) : q[k] = u
    BY <1>8, DistinctPlaces
  <2>2. r = d[k]
    BY <1>3, <2>1
  <2>3. CASE k <= w
    <3>1. k \in 1..w
      BY <1>1, <2>3
    <3>2. u \notin ToSet(q2)
      <4>1. ASSUME NEW j \in 1..Len(q2), q2[j] = u PROVE FALSE
        <5>1. w + j \in 1..Len(q) /\ w + j # k
          BY <1>1, <1>2, <2>3
        <5>2. q[w + j] = q[k]
          BY <1>2, <2>1, <4>1
        <5> QED
          BY <1>6, <5>1, <5>2
      <4> QED
        BY <1>6, <4>1
    <3>3. r = 1 /\ r2 = 0
      BY <1>2, <1>4, <2>2, <3>1, <3>2
    <3> QED
      BY <3>3
  <2>4. CASE k > w
    <3>1. k - w \in 1..Len(q2) /\ w + (k - w) = k
      BY <1>1, <1>2, <2>4
    <3>2. q2[k - w] = u /\ d[k] = d2[k - w] + 1 /\ d2[k - w] \in Nat
      BY <1>2, <1>5, <2>1, <3>1
    <3>3. r2 = d2[k - w]
      BY <1>4, <3>1, <3>2
    <3> HIDE DEF r, r2
    <3>4. r = r2 + 1 /\ r2 \in Nat
      BY <2>2, <3>2, <3>3
    <3>5. r \in Nat /\ r2 = IF r > 0 THEN r - 1 ELSE 0
      BY <3>4
    <3> QED
      BY <3>5 DEF r, r2
  <2> QED
    BY <1>1, <2>3, <2>4
<1> QED
  BY <1>7, <1>8

(* Every tick of the kernel is a tick of the alarm clock. *)
LEMMA TickTicks ==
  ASSUME SleepInv, Tick
  PROVE  Alarm!Tick
<1>1. /\ SleepPart /\ SleepTypeOK /\ HeadWaits /\ TimerTick
  BY DEF SleepInv, IInv, Tick
<1>2. SleepPart'
  BY TickStep DEF SleepInv, IInv
<1>3. /\ SleepTypeOK' /\ WakeCount \in 0..Len(sleepList)
      /\ DueTicked(Due, Due', sleepList, sleepList', WakeCount)
  BY <1>1, TimerTickStep
<1>4. /\ sleepList \in Seq(Thread) /\ IsInjective(sleepList) /\ sleepLeft \in [Thread -> Nat]
      /\ sleepList' \in Seq(Thread) /\ IsInjective(sleepList')
      /\ sleepLeft' \in [Thread -> Nat]
      /\ DueTicked(DueOf(sleepList, sleepLeft), DueOf(sleepList', sleepLeft'),
                   sleepList, sleepList', WakeCount)
  BY <1>1, <1>2, <1>3, DueIs DEF SleepPart, SleepTypeOK
<1>5. ASSUME NEW u \in Thread
      PROVE  /\ Remaining(u) \in Nat
             /\ Remaining(u)' = IF Remaining(u) > 0 THEN Remaining(u) - 1 ELSE 0
  <2>1. WakeCount \in 0..Len(sleepList)
    BY <1>3
  <2> DEFINE r  == RemainingIn(sleepList, sleepLeft, u)
             r2 == RemainingIn(sleepList', sleepLeft', u)
  <2>2. r \in Nat /\ r2 = IF r > 0 THEN r - 1 ELSE 0
    BY <1>4, <2>1, TickRemaining
  <2>3. Remaining(u) = r /\ Remaining(u)' = r2
    BY RemainingIs
  <2> QED
    BY <2>2, <2>3
<1> QED
  BY <1>5 DEF Alarm!Tick, Alarm!Asleep

(* A call of time_sleep is one of the alarm clock. *)
LEMMA TimeSleepSleeps ==
  ASSUME SleepInv, NEW t \in 1..MaxSleep, TimeSleep(t)
  PROVE  running \in Thread /\ Alarm!GoToSleep(running, t)
<1>1. /\ SleepPart /\ SleepTypeOK /\ HeadWaits /\ PutToSleep(running, t)
      /\ running \in Thread /\ running \notin sleeping
      /\ t \in Nat /\ t > 0
  BY SleepAssumption DEF SleepInv, IInv, RunPart, TimeSleep, SleepAssumption
<1>2. SleepPart' /\ sleeping' = sleeping \cup {running}
  BY <1>1, TimeSleepStep
<1>3. /\ sleepList' = InsertAt(sleepList, PlaceToSleep(t) + 1, running)
      /\ PlaceToSleep(t) \in 0..Len(sleepList)
      /\ DueAround(Due', Due, PlaceToSleep(t), Len(sleepList), t)
  BY <1>1, PutToSleepStep
<1>4. /\ sleepList \in Seq(Thread) /\ IsInjective(sleepList)
      /\ sleepList' \in Seq(Thread) /\ IsInjective(sleepList')
      /\ ToSet(sleepList') = ToSet(sleepList) \cup {running}
      /\ running \notin ToSet(sleepList)
  BY <1>1, <1>2 DEF SleepPart
<1>5. Inserted(sleepList', sleepList, PlaceToSleep(t), running)
  BY <1>1, <1>3, <1>4, InsertPlaces
<1>6. DueAround(DueOf(sleepList', sleepLeft'), DueOf(sleepList, sleepLeft),
                PlaceToSleep(t), Len(sleepList), t)
  BY <1>3, DueIs
<1>7. ASSUME NEW u \in Thread
      PROVE  Remaining(u)' = IF u = running THEN t ELSE Remaining(u)
  <2>1. RemainingIn(sleepList', sleepLeft', u)
          = IF u = running THEN t ELSE RemainingIn(sleepList, sleepLeft, u)
    BY <1>1, <1>3, <1>4, <1>5, <1>6, PutRemaining
  <2> QED
    BY <2>1, RemainingIs
<1>8. Remaining(running) = 0
  BY <1>4 DEF Remaining
<1>9. [u \in Thread |-> Remaining(u)]'
        = [[u \in Thread |-> Remaining(u)] EXCEPT ![running] = t]
  BY <1>1, <1>7
<1>10. running \notin Alarm!Asleep
  BY <1>1, <1>8 DEF Alarm!Asleep
<1> QED
  BY <1>1, <1>9, <1>10 DEF Alarm!GoToSleep

(* Every sleeper wakes after exactly the ticks it asked for: the delta list *)
(* of the kernel is one countdown per thread.                               *)
THEOREM KernelImplementsAlarmClock == Spec => ImplementsAlarmClock
<1>1. Init => Alarm!Init
  <2>1. ToSet(<<>>) = {}
    BY EmptyList
  <2> QED
    BY <2>1 DEF Init, SleepInit, Alarm!Init, Remaining
<1>2. SleepInv /\ [Next]_vars => [Alarm!Next]_([t \in Thread |-> Remaining(t)])
  <2> SUFFICES ASSUME SleepInv, [Next]_vars
               PROVE  Alarm!Next \/ UNCHANGED [t \in Thread |-> Remaining(t)]
    OBVIOUS
  <2>1. CASE UNCHANGED sleepVars
    <3>1. \A t : Remaining(t)' = Remaining(t)
      BY <2>1, RemainingIs DEF sleepVars
    <3> QED
      BY <3>1
  <2>2. CASE Tick
    BY <2>2, TickTicks DEF Alarm!Next
  <2>3. CASE \E t \in 1..MaxSleep : TimeSleep(t)
    BY <2>3, TimeSleepSleeps DEF Alarm!Next
  <2> QED
    BY <2>1, <2>2, <2>3, OnlyTwoTouchSleep
<1>3. SleepInv => (Tick => Alarm!Tick)
  BY TickTicks
<1> QED
  BY <1>1, <1>2, <1>3, SleepInductive, PTL DEF Spec, ImplementsAlarmClock, Alarm!Spec
===============================================================================
