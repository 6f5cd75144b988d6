------------------------------- MODULE SleepList -------------------------------
(***************************************************************************)
(* The kernel's list of sleeping threads: TCB::sleepHead linked through    *)
(* nextSleep, with sleepLeft holding the ticks a thread sleeps on after    *)
(* the thread in front of it has been woken (a delta list).                *)
(*                                                                         *)
(* The linked list is a sequence of threads; sleepLeft is a field of every *)
(* TCB.  Kernel.tla composes PutToSleep and TimerTick with the scheduler.  *)
(***************************************************************************)
EXTENDS Integers, Sequences, SequencesExt, FiniteSetsExt

CONSTANTS
  Thread,    \* the threads that may go to sleep
  MaxSleep   \* bound on the argument of time_sleep

ASSUME SleepAssumption == MaxSleep \in Nat

VARIABLES
  sleepList,  \* the threads from sleepHead along nextSleep
  sleepLeft   \* the field of that name of each TCB

sleepVars == <<sleepList, sleepLeft>>

(* The ticks after which the k-th thread of the list is due. *)
Due ==
  LET due[k \in 0..Len(sleepList)] ==
        IF k = 0 THEN 0 ELSE due[k - 1] + sleepLeft[sleepList[k]]
  IN  due

(* Mutant: the walk passes the first thread that is due later. *)
PlaceBehindLater(t) ==
  Min({k \in 0..Len(sleepList) : k = Len(sleepList) \/ Due[k] > t})

(* TCB::findPlaceToSleep: the number of threads the walk leaves in front.   *)
(* It stops at the end of the list, before a thread due later than t, or    *)
(* behind the first thread due at exactly t.                                *)
PlaceToSleep(t) ==
  Min({k \in 0..Len(sleepList) :
         \/ k = Len(sleepList)
         \/ Due[k + 1] > t
         \/ k > 0 /\ Due[k] = t})

(* Mutant: insertAfter forgets to shorten the next thread's wait. *)
PutToSleepKeepsNext(thread, t) ==
  LET place == PlaceToSleep(t)
  IN  /\ sleepList' = InsertAt(sleepList, place + 1, thread)
      /\ sleepLeft' = [sleepLeft EXCEPT ![thread] = t - Due[place]]

(* TCB::putToSleep for t > 0, with insertAfter: the thread keeps what is    *)
(* left of t behind the threads in front, the next one gives that up.       *)
PutToSleep(thread, t) ==
  LET place    == PlaceToSleep(t)
      relative == t - Due[place]
  IN  /\ sleepList' = InsertAt(sleepList, place + 1, thread)
      /\ sleepLeft' =
           IF place = Len(sleepList) THEN [sleepLeft EXCEPT ![thread] = relative]
           ELSE LET next == sleepList[place + 1]
                IN  [sleepLeft EXCEPT ![thread] = relative,
                                      ![next] = sleepLeft[next] - relative]

(* Mutant: the sleep of the head is not shortened. *)
LeftUnchanged == sleepLeft

(* sleepLeft once the timer handler has decremented that of the head. *)
LeftAfterTick ==
  IF sleepList = <<>> THEN sleepLeft
  ELSE [sleepLeft EXCEPT ![Head(sleepList)] = @ - 1]

(* How many threads wakeSleepingThreads, which calls itself as long as the  *)
(* head has nothing left, takes off the list.                               *)
WakeCount ==
  Min({k \in 0..Len(sleepList) :
         k = Len(sleepList) \/ LeftAfterTick[sleepList[k + 1]] # 0})

Woken == SubSeq(sleepList, 1, WakeCount)

(* The timer handler's part of the work: one tick, then wake who is due. *)
TimerTick ==
  /\ sleepLeft' = LeftAfterTick
  /\ sleepList' = SubSeq(sleepList, WakeCount + 1, Len(sleepList))

SleepInit ==
  /\ sleepList = <<>>
  /\ sleepLeft = [t \in Thread |-> 0]

(* Ticks a thread still has to sleep, whatever its place in the list. *)
Remaining(t) ==
  IF t \in ToSet(sleepList)
  THEN Due[CHOOSE k \in DOMAIN sleepList : sleepList[k] = t]
  ELSE 0

(* The list holds threads and sleepLeft, an unsigned time_t in the          *)
(* code, is never decremented below zero (that would put a thread to sleep  *)
(* for 2^64 ticks).                                                         *)
SleepTypeOK ==
  /\ sleepList \in Seq(Thread)
  /\ sleepLeft \in [Thread -> Nat]
===============================================================================
